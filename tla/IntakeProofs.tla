---------------------------- MODULE IntakeProofs ----------------------------
(***************************************************************************)
(* What holds of what comes in: of Curation for every set of captures,     *)
(* intents and names, however many runs, hands, elaborations and stops     *)
(* there are, and of Chat for every set of hosts and messages, however     *)
(* many decisions are raised and however often something fails.  The two   *)
(* meet in the records alone: a message that is forwarded is a capture.    *)
(*                                                                         *)
(* A pass folds its acts over the sets of what it takes up.  What each act *)
(* keeps the fold keeps, which is an induction on the set: the least       *)
(* number of elements at which it would fail leads to a contradiction.     *)
(***************************************************************************)
EXTENDS Curation, Channel, FiniteSetTheorems, SequenceTheorems, TLAPS

CONSTANTS Hosts, Messages, Kinds, NoHolder, MaxRaised, MaxNow, MaxLost

VARIABLES now, recorded, presenter, wire, work, skipped, lost

\* A chat sink, whose names for what it recorded, for its faults and for the
\* holder of a free lease are not those of Curation.
Wire == INSTANCE Chat WITH Nobody <- NoHolder, MaxFaults <- MaxLost,
                           filed <- recorded, faults <- lost

-----------------------------------------------------------------------------
(* Folds over a set *)

Pick(s) == CHOOSE x \in s : TRUE

LEMMA PickIn == ASSUME NEW s, s # {} PROVE Pick(s) \in s
BY DEF Pick

LEMMA LeastNumber ==
  ASSUME NEW S, S \subseteq Nat, S # {}
  PROVE  \E x \in S : \A y \in S : x <= y
<1>1. PICK x \in S : \A y \in S : ~ (<<y, x>> \in OpToRel(<, Nat))
  BY NatLessThanWellFounded, WFMin
<1>2. \A y \in S : x <= y
  <2> TAKE y \in S
  <2>1. ~ (y < x)
    BY <1>1 DEF OpToRel
  <2> QED BY <2>1
<1> QED BY <1>2

LEMMA Counting ==
  ASSUME NEW T, T \subseteq Nat, 0 \in T, \A n \in T : n + 1 \in T
  PROVE  T = Nat
<1> SUFFICES ASSUME Nat \ T # {} PROVE FALSE
  OBVIOUS
<1>1. PICK n \in Nat \ T : \A k \in Nat \ T : n <= k
  <2> DEFINE Bad == Nat \ T
  <2>1. Bad \subseteq Nat /\ Bad # {}
    OBVIOUS
  <2> HIDE DEF Bad
  <2>2. \E n \in Bad : \A k \in Bad : n <= k
    BY <2>1, LeastNumber
  <2> QED BY <2>2 DEF Bad
<1>2. n # 0 /\ n - 1 \in Nat
  BY <1>1
<1>3. n - 1 \in T
  BY <1>1, <1>2
<1> QED BY <1>1, <1>2, <1>3

LEMMA SetInduction ==
  ASSUME NEW S, IsFiniteSet(S), NEW Holds, {} \in Holds,
         \A s \in (SUBSET S) \ {{}} : s \ {Pick(s)} \in Holds => s \in Holds
  PROVE  S \in Holds
<1> DEFINE T == {n \in Nat : \A s \in SUBSET S : Cardinality(s) = n => s \in Holds}
<1>1. \A s \in SUBSET S : IsFiniteSet(s) /\ Cardinality(s) \in Nat
  BY FS_Subset, FS_CardinalityType
<1>2. 0 \in T
  BY <1>1, FS_EmptySet
<1>3. ASSUME NEW n \in T PROVE n + 1 \in T
  <2> SUFFICES ASSUME NEW s \in SUBSET S, Cardinality(s) = n + 1 PROVE s \in Holds
    OBVIOUS
  <2>1. s # {}
    BY FS_EmptySet
  <2>2. Cardinality(s \ {Pick(s)}) = n /\ s \ {Pick(s)} \in SUBSET S
    BY <1>1, <2>1, PickIn, FS_RemoveElement
  <2>3. s \ {Pick(s)} \in Holds
    BY <2>2
  <2> QED BY <2>1, <2>3
<1>4. T = Nat
  <2>1. T \subseteq Nat
    OBVIOUS
  <2> HIDE DEF T
  <2> QED BY <1>2, <1>3, <2>1, Counting
<1> QED BY <1>1, <1>4

\* What a fold over a set comes to, of each of its subsets.
IsFold(g, S, base, step) ==
  \A s \in SUBSET S :
    g[s] = IF s = {} THEN base ELSE step[<<Pick(s), g[s \ {Pick(s)}]>>]

\* Steps that stay in a set have a fold, and it stays there.
LEMMA FoldExists ==
  ASSUME NEW S, IsFiniteSet(S), NEW H, NEW base \in H, NEW step \in [S \X H -> H]
  PROVE  \E g \in [SUBSET S -> H] : IsFold(g, S, base, step)
<1> DEFINE D(n) == {s \in SUBSET S : Cardinality(s) <= n}
           Folds(g, n) ==
             \A s \in D(n) :
               g[s] = IF s = {} THEN base ELSE step[<<Pick(s), g[s \ {Pick(s)}]>>]
           T == {n \in Nat : \E g \in [D(n) -> H] : Folds(g, n)}
<1>1. \A s \in SUBSET S : IsFiniteSet(s) /\ Cardinality(s) \in Nat
  BY FS_Subset, FS_CardinalityType
<1>2. \A s \in (SUBSET S) \ {{}} :
         /\ Pick(s) \in S /\ s \ {Pick(s)} \in SUBSET S
         /\ Cardinality(s \ {Pick(s)}) = Cardinality(s) - 1
  <2> TAKE s \in (SUBSET S) \ {{}}
  <2>1. Pick(s) \in s
    BY PickIn
  <2>2. IsFiniteSet(s) /\ s # {}
    BY <1>1
  <2>3. Cardinality(s \ {Pick(s)}) = Cardinality(s) - 1
    BY <2>1, <2>2, FS_RemoveElement
  <2> QED BY <2>1, <2>3
<1>3. 0 \in T
  <2> DEFINE g == [s \in D(0) |-> base]
  <2>1. \A s \in D(0) : s = {}
    BY <1>1, FS_EmptySet
  <2>2. g \in [D(0) -> H] /\ Folds(g, 0)
    BY <2>1
  <2> QED BY <2>2
<1>4. ASSUME NEW n \in T PROVE n + 1 \in T
  <2>1. PICK g \in [D(n) -> H] : Folds(g, n)
    OBVIOUS
  <2> DEFINE k == [s \in D(n + 1) |->
                      IF s \in D(n) THEN g[s] ELSE step[<<Pick(s), g[s \ {Pick(s)}]>>]]
  <2>2. \A s \in D(n + 1) \ {{}} : s \ {Pick(s)} \in D(n) /\ s \ {Pick(s)} \in D(n + 1)
    <3> TAKE s \in D(n + 1) \ {{}}
    <3>1. /\ s \in (SUBSET S) \ {{}} /\ s \ {Pick(s)} \in SUBSET S
          /\ Cardinality(s \ {Pick(s)}) = Cardinality(s) - 1
      BY <1>2
    <3>2. Cardinality(s) \in Nat /\ Cardinality(s) <= n + 1
      BY <1>1
    <3> QED BY <3>1, <3>2
  <2>3. \A s \in D(n + 1) : s \notin D(n) => s # {}
    <3>1. {} \in D(n)
      BY FS_EmptySet
    <3> QED BY <3>1
  <2>4. \A s \in D(n + 1) : k[s] \in H
    BY <1>2, <2>2, <2>3
  <2>5. k \in [D(n + 1) -> H]
    BY <2>4
  <2>6. ASSUME NEW s \in D(n + 1)
        PROVE  k[s] = IF s = {} THEN base ELSE step[<<Pick(s), k[s \ {Pick(s)}]>>]
    <3>1. CASE s = {}
      <4>1. s \in D(n)
        BY <3>1, FS_EmptySet
      <4> QED BY <2>1, <3>1, <4>1
    <3>2. CASE s # {}
      <4>1. k[s \ {Pick(s)}] = g[s \ {Pick(s)}]
        BY <2>2, <3>2
      <4> QED BY <2>1, <3>2, <4>1
    <3> QED BY <3>1, <3>2
  <2> HIDE DEF k
  <2>7. k \in [D(n + 1) -> H] /\ Folds(k, n + 1)
    BY <2>5, <2>6
  <2>8. n + 1 \in Nat
    OBVIOUS
  <2> QED BY <2>7, <2>8
<1>5. T = Nat
  <2>1. T \subseteq Nat
    OBVIOUS
  <2> HIDE DEF T
  <2> QED BY <1>3, <1>4, <2>1, Counting
<1>6. Cardinality(S) \in Nat /\ D(Cardinality(S)) = SUBSET S
  BY <1>1, FS_Subset
<1>7. \E g \in [SUBSET S -> H] : Folds(g, Cardinality(S))
  BY <1>5, <1>6
<1>8. PICK g \in [SUBSET S -> H] : Folds(g, Cardinality(S))
  BY <1>7
<1>9. IsFold(g, S, base, step)
  BY <1>6, <1>8 DEF IsFold
<1> QED BY <1>9

-----------------------------------------------------------------------------
(* Worlds                                                                   *)

Standing == Moves \cup {Unmoved}
Standings == [Signals -> Standing]
Covers == Gatherings \cup {<<>>}
FilesT == [captures : SUBSET (Captures \X Sources), signals : SUBSET Signals,
           moves : Standings]
ReaderT == [at : {"none", "running", "done", "gone"}, gave : 0..MaxRead,
            parsed : BOOLEAN, offers : BOOLEAN, offered : BOOLEAN]
SessionT == [at : {"none", "running", "done", "gone"}, gave : Standings,
             parsed : BOOLEAN, took : Standings, gathers : Covers]
ElabT == [at : {"proposed", "working", "done"}, cites : SUBSET Signals, covers : Covers]

\* The elaborations of an intent: no two cite one signal.
Elabs ==
  {q \in Seq(ElabT) :
     /\ Len(q) <= MaxElabs
     /\ \A k, l \in DOMAIN q : k # l => q[k].cites \cap q[l].cites = {}}

Lives == {"none", "proposed", "open", "dropped"}
Answers == {"none", "yes", "drop", "split"}
RecordsT ==
  [capture : [Captures -> Sources \cup {"none", "reading", "read"}],
   reader : [Captures -> ReaderT], signals : SUBSET Signals, stands : Standings,
   life : [Intents -> Lives], cites : [Intents -> SUBSET Signals],
   answer : [Intents -> Answers], elabs : [Intents -> Elabs],
   run : {"idle", "running", "applying", "failed"}, runs : 0..MaxRuns,
   session : SessionT, attention : BOOLEAN]
Worlds == [f : FilesT, k : FilesT, r : RecordsT, up : BOOLEAN, ok : BOOLEAN]

\* Nothing is attached to what is no intent: neither in the files, where the
\* intents are among those known, nor in what a session gave that was taken.
Attaches(w, known) ==
  /\ \A s \in Signals : \A m \in {w.f.moves[s], w.k.moves[s]} :
       m.word = "attach" => m.to \in known /\ w.r.life[m.to] # "none"
  /\ \A s \in Signals : w.r.session.took[s].word = "attach"
       => w.r.life[w.r.session.took[s].to] # "none"

\* Only a proposed intent waits with an answer, and what is no intent yet cites
\* nothing.
Answered(w) ==
  \A i \in Intents :
    /\ w.r.answer[i] # "none" => w.r.life[i] = "proposed"
    /\ w.r.life[i] = "none" => w.r.cites[i] = {}

\* What was marked since as gone to an intent is cited by it.
Marked(w, was) ==
  \A s \in Signals : LET m == w.r.stands[s] IN
    m # was[s] /\ m.word \in {"join", "attach"} => s \in w.r.cites[m.to]

Fit(known, was, tells) ==
  {w \in Worlds : Attaches(w, known) /\ Answered(w) /\ (tells => Marked(w, was))}

\* What is asked of a history: of each of its worlds, and of its last, which is
\* where the next act starts.
Asked == {c \in [known : SUBSET Intents, alive : SUBSET Intents, was : Standings,
                 each : BOOLEAN, last : BOOLEAN] : c.each => c.last}
Ends(c) == {w \in Fit(c.known, c.was, c.last) : \A i \in c.alive : w.r.life[i] # "none"}
Hist(c) == {h \in Seq(Fit(c.known, c.was, c.each)) : h # <<>> /\ Last(h) \in Ends(c)}

LEMMA LastIs ==
  ASSUME NEW c \in Asked, NEW h \in Hist(c)
  PROVE  /\ Last(h) \in Ends(c) /\ Last(h) \in Worlds /\ Last(h).ok \in BOOLEAN
         /\ Len(h) \in Nat \ {0} /\ DOMAIN h = 1..Len(h) /\ h[Len(h)] = Last(h)
<1>1. h \in Seq(Fit(c.known, c.was, c.each)) /\ h # <<>> /\ Last(h) \in Ends(c)
  BY DEF Hist
<1>2. Last(h) \in Worlds
  BY <1>1 DEF Ends, Fit
<1> QED BY <1>1, <1>2 DEF Worlds, Last

LEMMA EndsFit ==
  ASSUME NEW c \in Asked, NEW w \in Ends(c)
  PROVE  w \in Fit(c.known, c.was, c.each) /\ w \in Worlds
BY DEF Asked, Ends, Fit

LEMMA AddedWorld ==
  ASSUME NEW c \in Asked, NEW h \in Hist(c), NEW w \in Ends(c)
  PROVE  Append(h, w) \in Hist(c) /\ Last(Append(h, w)) = w
<1> DEFINE S == Fit(c.known, c.was, c.each)
<1>1. h \in Seq(S) /\ w \in S
  BY EndsFit DEF Hist
<1> HIDE DEF S
<1>2. Append(h, w) \in Seq(S) /\ Append(h, w) # <<>> /\ Last(Append(h, w)) = w
  BY <1>1 DEF Last
<1> QED BY <1>2 DEF Hist, S

LEMMA WroteKeeps ==
  ASSUME NEW c \in Asked, NEW h \in Hist(c), NEW w \in Ends(c)
  PROVE  Wrote(h, w) \in Hist(c) /\ Last(Wrote(h, w)) = w
BY AddedWorld DEF Wrote

LEMMA ThenKeeps ==
  ASSUME NEW c \in Asked, NEW h \in Hist(c), NEW w \in Ends(c)
  PROVE  /\ Then(h, w) \in Hist(c)
         /\ Last(h).ok => Last(Then(h, w)) = w
         /\ ~ Last(h).ok => Last(Then(h, w)) = Last(h)
BY WroteKeeps DEF Then

\* A world in which nothing was moved, and intents and citations only came.
LEMMA EndsOn ==
  ASSUME NEW c \in Asked, NEW w \in Ends(c), NEW v \in Worlds,
         v.f.moves = w.f.moves, v.k.moves = w.k.moves,
         v.r.session.took = w.r.session.took, v.r.stands = w.r.stands,
         \A i \in Intents : w.r.life[i] # "none" => v.r.life[i] # "none",
         \A i \in Intents : w.r.cites[i] \subseteq v.r.cites[i],
         Answered(v)
  PROVE  v \in Ends(c)
<1>1. /\ Attaches(w, c.known) /\ (c.last => Marked(w, c.was))
      /\ \A i \in c.alive : w.r.life[i] # "none"
  BY DEF Ends, Fit
<1>2. \A s \in Signals : w.r.stands[s].word \in {"join", "attach"} => w.r.stands[s].to \in Intents
  BY DEF Ends, Fit, Worlds, RecordsT, Standings, Standing, Moves, MoveTo, Unmoved
<1>3. Attaches(v, c.known)
  <2>1. \A s \in Signals : w.f.moves[s] \in Standing /\ w.k.moves[s] \in Standing
                           /\ w.r.session.took[s] \in Standing
    BY DEF Ends, Fit, Worlds, FilesT, RecordsT, SessionT, Standings
  <2>2. \A m \in Standing : m.word = "attach" => m.to \in Intents
    BY DEF Standing, Moves, MoveTo, Unmoved
  <2> QED BY <1>1, <2>1, <2>2 DEF Attaches
<1>4. c.last => Marked(v, c.was)
  BY <1>1, <1>2 DEF Marked
<1>5. \A i \in c.alive : v.r.life[i] # "none"
  BY <1>1 DEF Asked
<1> QED BY <1>3, <1>4, <1>5 DEF Ends, Fit

\* A world in which what is asked was not touched.
LEMMA EndsStill ==
  ASSUME NEW c \in Asked, NEW w \in Ends(c), NEW v \in Worlds,
         v.f.moves = w.f.moves, v.k.moves = w.k.moves,
         v.r.session.took = w.r.session.took, v.r.life = w.r.life,
         v.r.answer = w.r.answer, v.r.stands = w.r.stands, v.r.cites = w.r.cites
  PROVE  v \in Ends(c)
<1>1. Answered(w)
  BY DEF Ends, Fit
<1>2. Answered(v)
  BY <1>1 DEF Answered
<1> QED BY <1>2, EndsOn

LEMMA AfreshKeeps ==
  ASSUME NEW c \in Asked, NEW h \in Hist(c)
  PROVE  /\ Afresh(h) \in Hist(c)
         /\ Last(Afresh(h)) = [Last(h) EXCEPT !.ok = TRUE]
<1> DEFINE v == [Last(h) EXCEPT !.ok = TRUE]
           S == Fit(c.known, c.was, c.each)
<1>1. Last(h) \in Ends(c) /\ Last(h) \in Worlds
      /\ Len(h) \in Nat \ {0} /\ DOMAIN h = 1..Len(h) /\ h[Len(h)] = Last(h)
  BY LastIs
<1>2. v \in Worlds /\ v.f = Last(h).f /\ v.k = Last(h).k /\ v.r = Last(h).r
  BY <1>1 DEF Worlds
<1>3. v \in Ends(c)
  <2> HIDE DEF v
  <2> QED BY <1>1, <1>2, EndsStill
<1>4. Afresh(h) = [h EXCEPT ![Len(h)] = v]
  BY <1>1 DEF Afresh
<1>5. v \in S /\ h \in Seq(S)
  BY <1>3, EndsFit DEF Hist
<1> HIDE DEF v, S
<1>6. Afresh(h) \in Seq(S) /\ Len(Afresh(h)) = Len(h) /\ Last(Afresh(h)) = v
  BY <1>1, <1>4, <1>5 DEF Last
<1> QED BY <1>1, <1>3, <1>6 DEF Hist, S, v

\* What an act that moves nothing and speaks to no intent leaves alone.
Calm(w, v) ==
  /\ v.k.moves = w.k.moves /\ v.f.moves \in {w.f.moves, w.k.moves}
  /\ v.r.stands = w.r.stands /\ v.r.life = w.r.life /\ v.r.cites = w.r.cites
  /\ v.r.elabs = w.r.elabs /\ v.r.session = w.r.session /\ v.r.answer = w.r.answer
  /\ v.r.runs = w.r.runs

LEMMA CalmOn ==
  ASSUME NEW u, NEW v, NEW w, Calm(u, v), Calm(v, w)
  PROVE  Calm(u, w)
BY DEF Calm

\* The records but for the attention asked of the operator.
SameRecords(w, v) == v.r = [w.r EXCEPT !.attention = v.r.attention]

LEMMA FiledKeeps ==
  ASSUME NEW c \in Asked, NEW h \in Hist(c), NEW kept \in FilesT,
         \A s \in Signals : kept.moves[s].word = "attach" =>
            kept.moves[s].to \in c.known /\ Last(h).r.life[kept.moves[s].to] # "none"
  PROVE  LET w == Last(h)
             v == Last(Filed(h, kept))
         IN  /\ Filed(h, kept) \in Hist(c)
             /\ v.k = kept /\ v.up = w.up /\ SameRecords(w, v)
             /\ w.up => v.f = kept /\ v.ok = w.ok /\ v.r = w.r
             /\ ~ w.up => v.f = w.f /\ ~ v.ok
<1> DEFINE w == Last(h)
           x == [w EXCEPT !.k = kept]
           y == [x EXCEPT !.f = kept]
           z == [x EXCEPT !.ok = FALSE, !.r.attention = TRUE]
<1>1. w \in Ends(c) /\ w \in Worlds
  BY LastIs
<1>2. x \in Worlds /\ x.f = w.f /\ x.k = kept /\ x.r = w.r /\ x.up = w.up /\ x.ok = w.ok
  BY <1>1 DEF Worlds
<1>3. y \in Worlds /\ y.f = kept /\ y.k = kept /\ y.r = w.r /\ y.up = w.up /\ y.ok = w.ok
  BY <1>1 DEF Worlds
<1>4. /\ z \in Worlds /\ z.f = w.f /\ z.k = kept /\ z.up = w.up /\ z.ok = FALSE
      /\ z.r = [w.r EXCEPT !.attention = TRUE]
  BY <1>1 DEF Worlds, RecordsT
<1>5. /\ z.r.life = w.r.life /\ z.r.stands = w.r.stands /\ z.r.cites = w.r.cites
      /\ z.r.answer = w.r.answer /\ z.r.session = w.r.session /\ z.r.attention = TRUE
      /\ w.r = [w.r EXCEPT !.attention = w.r.attention]
  BY <1>1, <1>4 DEF Worlds, RecordsT
<1> HIDE DEF x, y, z
<1>6. x \in Ends(c) /\ y \in Ends(c) /\ z \in Ends(c)
  <2>1. Attaches(w, c.known) /\ Answered(w) /\ (c.last => Marked(w, c.was))
        /\ \A i \in c.alive : w.r.life[i] # "none"
    BY <1>1 DEF Ends, Fit
  <2>2. ASSUME NEW v \in {x, y, z}
        PROVE  /\ v \in Worlds /\ v.r.life = w.r.life /\ v.r.stands = w.r.stands
               /\ v.r.cites = w.r.cites /\ v.r.answer = w.r.answer
               /\ v.r.session = w.r.session /\ v.k = kept /\ v.f \in {w.f, kept}
    BY <1>2, <1>3, <1>4, <1>5
  <2>3. ASSUME NEW v \in {x, y, z} PROVE v \in Ends(c)
    <3> HIDE DEF w
    <3>1. Attaches(v, c.known)
      <4>1. \A s \in Signals : \A m \in {w.f.moves[s], w.k.moves[s], kept.moves[s]} :
              m.word = "attach" => m.to \in c.known /\ w.r.life[m.to] # "none"
        BY <2>1 DEF Attaches, w
      <4> QED BY <2>1, <2>2, <4>1 DEF Attaches
    <3>2. Answered(v) /\ (c.last => Marked(v, c.was))
      BY <2>1, <2>2 DEF Answered, Marked
    <3> QED BY <2>1, <2>2, <3>1, <3>2 DEF Ends, Fit
  <2> QED BY <2>3
<1>7. Wrote(h, x) \in Hist(c) /\ Last(Wrote(h, x)) = x
  BY <1>6, WroteKeeps
<1>8. Filed(h, kept) = Wrote(Wrote(h, x), IF w.up THEN y ELSE z)
  BY <1>2 DEF Filed, x, y, z
<1>9. Filed(h, kept) \in Hist(c) /\ Last(Filed(h, kept)) = IF w.up THEN y ELSE z
  BY <1>6, <1>7, <1>8, WroteKeeps
<1>10. w.up \in BOOLEAN
  BY <1>1 DEF Worlds
<1> QED BY <1>3, <1>4, <1>5, <1>9, <1>10 DEF SameRecords

-----------------------------------------------------------------------------
(* Captures and signals                                                     *)

LEMMA WriteSignalKeeps ==
  ASSUME NEW c \in Asked, NEW h \in Hist(c), NEW s \in Signals
  PROVE  WriteSignal(h, s) \in Hist(c) /\ Calm(Last(h), Last(WriteSignal(h, s)))
<1> DEFINE w == Last(h)
           kept == [w.k EXCEPT !.signals = @ \cup {s}]
           filed == IF ~ w.ok \/ s \in w.f.signals THEN h ELSE Filed(h, kept)
           v == Last(filed)
           u == [v EXCEPT !.r.signals = @ \cup {s}]
<1>1. w \in Ends(c) /\ w \in Worlds
  BY LastIs
<1>2. kept \in FilesT /\ kept.moves = w.k.moves
  BY <1>1 DEF Worlds, FilesT
<1>3. \A t \in Signals : kept.moves[t].word = "attach" =>
        kept.moves[t].to \in c.known /\ w.r.life[kept.moves[t].to] # "none"
  BY <1>1, <1>2 DEF Ends, Fit, Attaches
<1> HIDE DEF kept
<1>4. filed \in Hist(c) /\ Calm(w, v)
  <2>1. CASE ~ w.ok \/ s \in w.f.signals
    BY <2>1 DEF Calm
  <2>2. CASE ~ (~ w.ok \/ s \in w.f.signals)
    <3> DEFINE x == Last(Filed(h, kept))
    <3>1. Filed(h, kept) \in Hist(c) /\ x.k = kept /\ SameRecords(w, x) /\ x.f \in {kept, w.f}
      BY <1>2, <1>3, FiledKeeps
    <3> HIDE DEF x
    <3>2. Calm(w, x)
      BY <1>1, <1>2, <3>1 DEF SameRecords, Calm, Worlds, RecordsT
    <3> QED BY <2>2, <3>1, <3>2 DEF x
  <2> QED BY <2>1, <2>2
<1> HIDE DEF filed
<1>5. v \in Ends(c) /\ v \in Worlds
  BY <1>4, LastIs
<1>6. u \in Worlds /\ Calm(v, u) /\ u.f = v.f
  BY <1>5 DEF Worlds, RecordsT, Calm
<1> HIDE DEF u
<1>7. u \in Ends(c)
  BY <1>5, <1>6, EndsStill DEF Calm
<1>8. Then(filed, u) \in Hist(c) /\ Calm(v, Last(Then(filed, u)))
  BY <1>4, <1>5, <1>6, <1>7, ThenKeeps, LastIs DEF Calm
<1>9. WriteSignal(h, s) = Then(filed, u)
  BY DEF WriteSignal, filed, u, kept
<1> HIDE DEF v, w
<1> QED BY <1>4, <1>8, <1>9, CalmOn DEF v, w

LEMMA CalmWrites ==
  ASSUME NEW c \in Asked, NEW h \in Hist(c), NEW v \in Worlds,
         Calm(Last(h), v), v.f.moves = Last(h).f.moves
  PROVE  /\ Wrote(h, v) \in Hist(c) /\ Last(Wrote(h, v)) = v
         /\ Then(h, v) \in Hist(c) /\ Calm(Last(h), Last(Then(h, v)))
<1>1. Last(h) \in Ends(c) /\ Last(h).ok \in BOOLEAN
  BY LastIs
<1>2. v \in Ends(c)
  BY <1>1, EndsStill DEF Calm
<1> QED BY <1>1, <1>2, WroteKeeps, ThenKeeps DEF Calm

LEMMA FirstSignal ==
  ASSUME NEW p \in Captures
  PROVE  <<p, 1>> \in Signals
BY CurationAssumption DEF Signals

LEMMA EnsureSignalKeeps ==
  ASSUME NEW c \in Asked, NEW h \in Hist(c), NEW p \in Captures
  PROVE  EnsureSignal(h, p) \in Hist(c) /\ Calm(Last(h), Last(EnsureSignal(h, p)))
BY FirstSignal, WriteSignalKeeps DEF EnsureSignal, Calm

LEMMA LeastIs ==
  ASSUME NEW S, S \subseteq Nat, S # {}
  PROVE  Min(S) \in S
BY LeastNumber DEF Min

LEMMA BoundOnReads == MaxRead \in Nat \ {0}
BY CurationAssumption

\* A capture's reader put on its own.
LEMMA ReaderPut ==
  ASSUME NEW w \in Worlds, NEW p \in Captures, NEW reader \in ReaderT
  PROVE  LET v == [w EXCEPT !.r.reader[p] = reader]
         IN  v \in Worlds /\ Calm(w, v) /\ v.f = w.f
BY DEF Worlds, RecordsT, Calm

LEMMA AsSignalKeeps ==
  ASSUME NEW c \in Asked, NEW h \in Hist(c), NEW p \in Captures
  PROVE  AsSignal(h, p) \in Hist(c) /\ Calm(Last(h), Last(AsSignal(h, p)))
<1> DEFINE w == Last(h)
           free == {n \in 1..MaxRead : <<p, n>> \notin w.f.signals \cup w.r.signals}
           done == IF free = {} THEN h ELSE WriteSignal(h, <<p, Min(free)>>)
           u == [Last(done) EXCEPT !.r.reader[p].offers = FALSE]
<1>1. free # {} => <<p, Min(free)>> \in Signals
  <2>1. free \subseteq Nat /\ free \subseteq 1..MaxRead
    BY CurationAssumption
  <2> HIDE DEF free
  <2>2. free # {} => Min(free) \in 1..MaxRead
    BY <2>1, LeastIs
  <2> QED BY <2>2 DEF Signals
<1> HIDE DEF free
<1>2. done \in Hist(c) /\ Calm(w, Last(done))
  BY <1>1, WriteSignalKeeps DEF Calm
<1> HIDE DEF done, w
<1>3. Last(done) \in Worlds
  BY <1>2, LastIs
<1>4. u \in Worlds /\ Calm(Last(done), u) /\ u.f = Last(done).f
  <2> DEFINE d == Last(done)
             reader == [d.r.reader[p] EXCEPT !.offers = FALSE]
  <2>1. d \in Worlds
    BY <1>3
  <2>2. u = [d EXCEPT !.r.reader[p].offers = FALSE]
    OBVIOUS
  <2> HIDE DEF d, u
  <2>3. d.r.reader[p] \in ReaderT
    BY <2>1 DEF Worlds, RecordsT
  <2>4. reader \in ReaderT
    BY <2>3 DEF ReaderT
  <2>5. u = [d EXCEPT !.r.reader[p] = reader]
    BY <2>1, <2>2
  <2> HIDE DEF reader
  <2>6. u \in Worlds /\ Calm(d, u) /\ u.f = d.f
    BY <2>1, <2>4, <2>5, ReaderPut
  <2> QED BY <2>6 DEF d
<1>5. AsSignal(h, p) = Then(done, u)
  BY DEF AsSignal, done, free, u, w
<1> HIDE DEF u
<1>6. Then(done, u) \in Hist(c) /\ Calm(Last(done), Last(Then(done, u)))
  BY <1>2, <1>4, CalmWrites
<1> QED BY <1>2, <1>5, <1>6, CalmOn DEF w

\* A reader's delivery: its signals, and then what it offered.
LEMMA RecordReadKeeps ==
  ASSUME NEW c \in Asked, NEW h \in Hist(c), NEW p \in Captures
  PROVE  RecordRead(h, p) \in Hist(c) /\ Calm(Last(h), Last(RecordRead(h, p)))
<1> DEFINE w == Last(h)
           reader == w.r.reader[p]
           u == [w EXCEPT !.r.reader[p].parsed = TRUE]
           parsed == Wrote(h, u)
           S == 1..reader.gave
           written == FoldSet(LAMBDA n, g : WriteSignal(g, <<p, n>>), parsed, S)
           H == Hist(c)
           step == [x \in S \X H |-> WriteSignal(x[2], <<p, x[1]>>)]
           iter == CHOOSE iter : iter = [s \in SUBSET S |->
                      IF s = {} THEN parsed
                      ELSE WriteSignal(iter[s \ {Pick(s)}], <<p, Pick(s)>>)]
           Holds == {s \in SUBSET S : iter[s] \in H /\ Calm(parsed[Len(parsed)], Last(iter[s]))}
<1>1. w \in Worlds
  BY LastIs
<1>2. u \in Worlds /\ Calm(w, u) /\ u.f = w.f
  <2> DEFINE marked == [w.r.reader[p] EXCEPT !.parsed = TRUE]
  <2> HIDE DEF w
  <2>1. w.r.reader[p] \in ReaderT
    BY <1>1 DEF Worlds, RecordsT
  <2>2. marked \in ReaderT
    BY <2>1 DEF ReaderT
  <2>3. u = [w EXCEPT !.r.reader[p] = marked]
    BY <1>1
  <2> HIDE DEF marked, u
  <2> QED BY <1>1, <2>2, <2>3, ReaderPut
<1>3. parsed \in Hist(c) /\ Last(parsed) = u
  <2> HIDE DEF u
  <2> QED BY <1>2, CalmWrites
<1>4. reader.gave \in 0..MaxRead
  BY <1>1 DEF Worlds, RecordsT, ReaderT
<1>5. IsFiniteSet(S) /\ \A n \in S : <<p, n>> \in Signals
  <2> HIDE DEF reader
  <2>1. reader.gave \in Int /\ reader.gave <= MaxRead
    BY <1>4, BoundOnReads
  <2>2. IsFiniteSet(1..reader.gave)
    BY <2>1, FS_Interval
  <2>3. \A n \in 1..reader.gave : n \in 1..MaxRead
    BY <2>1, BoundOnReads
  <2> QED BY <2>2, <2>3 DEF Signals
<1>6. written = iter[S]
  BY DEF FoldSet, MapThenFoldSet, Pick
<1> HIDE DEF S, parsed, written
<1>7. step \in [S \X H -> H]
  BY <1>5, WriteSignalKeeps
<1>8. iter = [s \in SUBSET S |->
               IF s = {} THEN parsed
               ELSE WriteSignal(iter[s \ {Pick(s)}], <<p, Pick(s)>>)]
  <2> HIDE DEF H, step
  <2>1. PICK g \in [SUBSET S -> H] :
          IsFold(g, S, parsed, step)
    <3>1. parsed \in H
      BY <1>3 DEF H
    <3> QED BY <1>5, <1>7, <3>1, FoldExists
  <2>2. \A s \in (SUBSET S) \ {{}} :
          step[<<Pick(s), g[s \ {Pick(s)}]>>] = WriteSignal(g[s \ {Pick(s)}], <<p, Pick(s)>>)
    BY PickIn DEF step
  <2>3. g = [s \in SUBSET S |->
               IF s = {} THEN parsed ELSE WriteSignal(g[s \ {Pick(s)}], <<p, Pick(s)>>)]
    <3> DEFINE k == [s \in SUBSET S |->
                        IF s = {} THEN parsed ELSE WriteSignal(g[s \ {Pick(s)}], <<p, Pick(s)>>)]
    <3>1. \A s \in SUBSET S : g[s] = k[s]
      BY <2>1, <2>2 DEF IsFold
    <3>2. k = [s \in SUBSET S |-> k[s]] /\ g = [s \in SUBSET S |-> g[s]]
      BY <2>1
    <3> HIDE DEF k
    <3>3. g = k
      BY <3>1, <3>2
    <3> QED BY <3>3 DEF k
  <2> QED BY <2>3
<1> HIDE DEF iter
<1>9. S \in Holds
  <2>1. {} \in Holds
    BY <1>3, <1>8 DEF Calm, Last
  <2>2. ASSUME NEW s \in (SUBSET S) \ {{}}, s \ {Pick(s)} \in Holds PROVE s \in Holds
    <3>1. iter[s] = WriteSignal(iter[s \ {Pick(s)}], <<p, Pick(s)>>) /\ Pick(s) \in S
      BY <1>8, PickIn
    <3>2. iter[s] \in H /\ Calm(Last(iter[s \ {Pick(s)}]), Last(iter[s]))
      BY <1>5, <2>2, <3>1, WriteSignalKeeps
    <3> QED BY <2>2, <3>2, CalmOn
  <2> HIDE DEF Holds
  <2> QED BY <1>5, <2>1, <2>2, SetInduction
<1>10. written \in Hist(c) /\ Calm(w, Last(written))
  <2>1. Last(parsed) = parsed[Len(parsed)]
    BY DEF Last
  <2> QED BY <1>2, <1>3, <1>6, <1>9, <2>1, CalmOn
<1>11. RecordRead(h, p) = IF reader.offers THEN AsSignal(written, p) ELSE written
  BY DEF RecordRead, written, parsed, S
<1> HIDE DEF w, reader
<1> QED BY <1>10, <1>11, AsSignalKeeps, CalmOn DEF w

LEMMA ReadingKeeps ==
  ASSUME NEW c \in Asked, NEW h \in Hist(c), NEW p \in Captures,
         NEW at \in {"reading", "read", "captured"}
  PROVE  Reading(h, p, at) \in Hist(c) /\ Calm(Last(h), Last(Reading(h, p, at)))
<1> DEFINE w == [Last(h) EXCEPT !.r.capture[p] = at]
           reader == IF at = "reading" THEN Charged(NoReader) ELSE NoReader
           v == [w EXCEPT !.r.reader[p] = reader]
<1>1. Last(h) \in Worlds
  BY LastIs
<1>2. reader \in ReaderT
  <2>1. NoReader \in ReaderT
    BY BoundOnReads DEF NoReader, ReaderT
  <2>2. Charged(NoReader) \in ReaderT
    BY <2>1 DEF Charged, ReaderT
  <2> QED BY <2>1, <2>2
<1> HIDE DEF reader
<1>3. w \in Worlds /\ Calm(Last(h), w) /\ w.f = Last(h).f
  BY <1>1 DEF Worlds, RecordsT, Calm, Sources
<1>4. v \in Worlds /\ Calm(w, v) /\ v.f = w.f
  <2> HIDE DEF w
  <2> QED BY <1>2, <1>3 DEF Worlds, RecordsT, Calm
<1>5. Reading(h, p, at) = Wrote(h, v)
  BY DEF Reading, reader
<1> HIDE DEF w, v
<1> QED BY <1>3, <1>4, <1>5, CalmOn, CalmWrites

LEMMA CaptureStepKeeps ==
  ASSUME NEW c \in Asked, NEW h \in Hist(c), NEW planned, NEW p \in Captures
  PROVE  /\ CaptureStep(h, planned, p) \in Hist(c)
         /\ Calm(Last(h), Last(CaptureStep(h, planned, p)))
<1>1. CaptureStep(h, planned, p)
        \in {Reading(h, p, at) : at \in {"reading", "read", "captured"}}
              \cup {EnsureSignal(h, p), RecordRead(h, p), h}
  BY DEF CaptureStep
<1>2. Calm(Last(h), Last(h))
  BY DEF Calm
<1> QED BY <1>1, <1>2, ReadingKeeps, EnsureSignalKeeps, RecordReadKeeps

LEMMA AfreshIsCalm ==
  ASSUME NEW c \in Asked, NEW h \in Hist(c)
  PROVE  Afresh(h) \in Hist(c) /\ Calm(Last(h), Last(Afresh(h)))
<1>1. Last(h) \in Worlds
  BY LastIs
<1>2. Calm(Last(h), [Last(h) EXCEPT !.ok = TRUE])
  BY <1>1 DEF Worlds, Calm
<1> QED BY <1>2, AfreshKeeps

\* The captures of a pass.
CapturesOf(w) == FoldSet(LAMBDA p, g : CaptureStep(Afresh(g), w, p), <<w>>, Captures)

LEMMA CapturesKeep ==
  ASSUME NEW c \in Asked, NEW w, <<w>> \in Hist(c)
  PROVE  CapturesOf(w) \in Hist(c) /\ Calm(w, Last(CapturesOf(w)))
<1> DEFINE all == CapturesOf(w)
           H == Hist(c)
           step == [x \in Captures \X H |-> CaptureStep(Afresh(x[2]), w, x[1])]
           iter == CHOOSE iter : iter = [s \in SUBSET Captures |->
                      IF s = {} THEN <<w>> ELSE CaptureStep(Afresh(iter[s \ {Pick(s)}]), w, Pick(s))]
           Holds == {s \in SUBSET Captures : iter[s] \in H /\ Calm(w, Last(iter[s]))}
<1>1. ASSUME NEW p \in Captures, NEW h \in Hist(c)
      PROVE  /\ CaptureStep(Afresh(h), w, p) \in Hist(c)
             /\ Calm(Last(h), Last(CaptureStep(Afresh(h), w, p)))
  BY AfreshIsCalm, CaptureStepKeeps, CalmOn
<1>2. <<w>> \in Hist(c)
  OBVIOUS
<1>3. IsFiniteSet(Captures)
  BY CurationAssumption
<1>4. all = iter[Captures]
  BY DEF CapturesOf, FoldSet, MapThenFoldSet, Pick
<1>5. iter = [s \in SUBSET Captures |-> IF s = {} THEN <<w>> ELSE CaptureStep(Afresh(iter[s \ {Pick(s)}]), w, Pick(s))]
  <2>1. step \in [Captures \X H -> H] /\ <<w>> \in H /\ IsFiniteSet(Captures)
    BY <1>1, <1>2, <1>3
  <2> HIDE DEF H, step
  <2>2. PICK g \in [SUBSET Captures -> H] : IsFold(g, Captures, <<w>>, step)
    BY <2>1, FoldExists
  <2>3. \A s \in (SUBSET Captures) \ {{}} :
          step[<<Pick(s), g[s \ {Pick(s)}]>>] = CaptureStep(Afresh(g[s \ {Pick(s)}]), w, Pick(s))
    BY PickIn DEF step
  <2> DEFINE k == [s \in SUBSET Captures |->
                      IF s = {} THEN <<w>> ELSE CaptureStep(Afresh(g[s \ {Pick(s)}]), w, Pick(s))]
  <2>4. \A s \in SUBSET Captures : g[s] = k[s]
    BY <2>2, <2>3 DEF IsFold
  <2>5. k = [s \in SUBSET Captures |-> k[s]] /\ g = [s \in SUBSET Captures |-> g[s]]
    BY <2>2
  <2> HIDE DEF k
  <2>6. g = k
    BY <2>4, <2>5
  <2> QED BY <2>6 DEF k
<1> HIDE DEF iter, all
<1>6. Captures \in Holds
  <2>1. {} \in Holds
    <3>1. Calm(w, w) /\ Last(<<w>>) = w
      BY DEF Calm, Last
    <3> QED BY <1>2, <1>5, <3>1
  <2>2. ASSUME NEW s \in (SUBSET Captures) \ {{}}, s \ {Pick(s)} \in Holds PROVE s \in Holds
    <3>1. /\ iter[s] = CaptureStep(Afresh(iter[s \ {Pick(s)}]), w, Pick(s))
          /\ Pick(s) \in Captures
      BY <1>5, PickIn
    <3>2. iter[s] \in H /\ Calm(Last(iter[s \ {Pick(s)}]), Last(iter[s]))
      BY <1>1, <2>2, <3>1
    <3> QED BY <2>2, <3>2, CalmOn
  <2> HIDE DEF Holds
  <2> QED BY <1>3, <2>1, <2>2, SetInduction
<1> QED BY <1>4, <1>6 DEF all

-----------------------------------------------------------------------------
(* Moves                                                                    *)

LEMMA WhereMoved ==
  ASSUME NEW m \in Standing, m.word \in {"join", "attach"}
  PROVE  m.to \in Intents /\ m # Unmoved
BY DEF Standing, Moves, MoveTo, Unmoved

LEMMA FiniteData ==
  IsFiniteSet(Signals) /\ IsFiniteSet(Intents) /\ \A S \in SUBSET Signals : IsFiniteSet(S)
<1>1. IsFiniteSet(1..MaxRead)
  BY BoundOnReads, FS_Interval
<1>2. IsFiniteSet(Signals)
  BY <1>1, CurationAssumption, FS_Product DEF Signals
<1>3. IsFiniteSet({Parts[1]}) /\ IsFiniteSet({Parts[2]})
  BY FS_Singleton
<1>4. IsFiniteSet({Parts[1]} \cup {Parts[2]}) /\ IsFiniteSet(Joined \cup Opened)
  BY <1>3, CurationAssumption, FS_Union
<1>5. IsFiniteSet((Joined \cup Opened) \cup ({Parts[1]} \cup {Parts[2]}))
  BY <1>4, FS_Union
<1>6. Intents = (Joined \cup Opened) \cup ({Parts[1]} \cup {Parts[2]})
  BY DEF Intents
<1> QED BY <1>2, <1>5, <1>6, FS_Subset

\* What applying moves to some signals comes to.
Spread(w, v, t, moves) ==
  /\ v.f = w.f /\ v.k = w.k /\ v.up = w.up /\ v.ok = w.ok
  /\ v.r = [w.r EXCEPT !.stands = v.r.stands, !.cites = v.r.cites]
  /\ \A s \in Signals :
       v.r.stands[s] = IF s \in t /\ s \in w.r.signals THEN moves[s] ELSE w.r.stands[s]
  /\ \A i \in Intents : w.r.cites[i] \subseteq v.r.cites[i]
  /\ \A s \in t : moves[s].word \in {"join", "attach"} /\ w.r.life[moves[s].to] # "none"
                    => s \in v.r.cites[moves[s].to]

LEMMA CiteKeeps ==
  ASSUME NEW w \in Worlds, NEW i \in Intents, NEW s \in Signals
  PROVE  LET v == Cite(w, i, s)
         IN  /\ v \in Worlds /\ v.f = w.f /\ v.k = w.k /\ v.up = w.up /\ v.ok = w.ok
             /\ v.r = [w.r EXCEPT !.cites = v.r.cites]
             /\ \A j \in Intents : w.r.cites[j] \subseteq v.r.cites[j]
             /\ w.r.life[i] # "none" => s \in v.r.cites[i]
             /\ \A j \in Intents : w.r.life[j] = "none" => v.r.cites[j] = w.r.cites[j]
<1> DEFINE v == [w EXCEPT !.r.cites[i] = @ \cup {s}]
<1>1. CASE w.r.life[i] = "none"
  <2>1. w.r = [w.r EXCEPT !.cites = w.r.cites]
    BY DEF Worlds, RecordsT
  <2> QED BY <1>1, <2>1 DEF Cite
<1>2. CASE w.r.life[i] # "none"
  <2>1. /\ v \in Worlds /\ v.f = w.f /\ v.k = w.k /\ v.up = w.up /\ v.ok = w.ok
        /\ v.r = [w.r EXCEPT !.cites = v.r.cites]
        /\ v.r.cites = [w.r.cites EXCEPT ![i] = @ \cup {s}]
    BY DEF Worlds, RecordsT
  <2>2. w.r.cites \in [Intents -> SUBSET Signals]
    BY DEF Worlds, RecordsT
  <2>3. Cite(w, i, s) = v
    BY <1>2 DEF Cite
  <2> HIDE DEF v
  <2>4. /\ \A j \in Intents : w.r.cites[j] \subseteq v.r.cites[j]
        /\ \A j \in Intents : w.r.life[j] = "none" => v.r.cites[j] = w.r.cites[j]
        /\ s \in v.r.cites[i]
    BY <1>2, <2>1, <2>2
  <2> QED BY <2>1, <2>3, <2>4
<1> QED BY <1>1, <1>2

LEMMA AppliedKeeps ==
  ASSUME NEW c \in Asked, NEW h \in Hist(c), NEW s \in Signals, NEW moves \in Standings,
         c.last /\ moves[s].word \in {"join", "attach"}
           => Last(h).r.life[moves[s].to] # "none"
  PROVE  /\ Applied(h, s, moves[s]) \in Hist(c)
         /\ Spread(Last(h), Last(Applied(h, s, moves[s])), {s}, moves)
<1> DEFINE w == Last(h)
           m == moves[s]
           goes == m.word \in {"join", "attach"}
           cited == IF goes THEN Cite(w, m.to, s) ELSE w
           v == IF s \in w.r.signals THEN [cited EXCEPT !.r.stands[s] = m] ELSE cited
<1>1. w \in Worlds /\ w \in Ends(c)
  BY LastIs
<1>2. m \in Standing /\ (goes => m.to \in Intents)
  BY WhereMoved DEF Standings
<1> HIDE DEF w, m
<1>3. /\ cited \in Worlds /\ cited.f = w.f /\ cited.k = w.k
      /\ cited.up = w.up /\ cited.ok = w.ok
      /\ cited.r = [w.r EXCEPT !.cites = cited.r.cites]
      /\ \A j \in Intents : w.r.cites[j] \subseteq cited.r.cites[j]
      /\ goes /\ w.r.life[m.to] # "none" => s \in cited.r.cites[m.to]
      /\ \A j \in Intents : w.r.life[j] = "none" => cited.r.cites[j] = w.r.cites[j]
  <2>1. CASE goes
    <3> DEFINE x == Cite(w, m.to, s)
    <3>1. /\ x \in Worlds /\ x.f = w.f /\ x.k = w.k /\ x.up = w.up /\ x.ok = w.ok
          /\ x.r = [w.r EXCEPT !.cites = x.r.cites]
          /\ \A j \in Intents : w.r.cites[j] \subseteq x.r.cites[j]
          /\ w.r.life[m.to] # "none" => s \in x.r.cites[m.to]
          /\ \A j \in Intents : w.r.life[j] = "none" => x.r.cites[j] = w.r.cites[j]
      BY <1>1, <1>2, <2>1, CiteKeeps
    <3> HIDE DEF x
    <3> QED BY <2>1, <3>1 DEF x
  <2>2. CASE ~ goes
    <3>1. w.r = [w.r EXCEPT !.cites = w.r.cites]
      BY <1>1 DEF Worlds, RecordsT
    <3> QED BY <1>1, <2>2, <3>1
  <2> QED BY <2>1, <2>2
<1> HIDE DEF cited
<1>4. /\ cited.r.life = w.r.life /\ cited.r.stands = w.r.stands
      /\ cited.r.answer = w.r.answer /\ cited.r.session = w.r.session
      /\ cited.r.signals = w.r.signals
  BY <1>1, <1>3 DEF Worlds, RecordsT
<1>5. cited \in Ends(c) /\ Answered(cited)
  <2>1. Answered(w)
    BY <1>1 DEF Ends, Fit
  <2>2. Answered(cited)
    BY <1>3, <1>4, <2>1 DEF Answered
  <2> QED BY <1>1, <1>3, <1>4, <2>2, EndsOn
<1>6. /\ v \in Worlds /\ v.f = cited.f /\ v.k = cited.k
      /\ v.up = cited.up /\ v.ok = cited.ok
      /\ v.r = [cited.r EXCEPT !.stands = v.r.stands]
      /\ v.r.stands = IF s \in w.r.signals THEN [w.r.stands EXCEPT ![s] = m] ELSE w.r.stands
  <2>1. CASE s \in w.r.signals
    BY <1>2, <1>3, <1>4, <2>1 DEF Worlds, RecordsT, Standings
  <2>2. CASE s \notin w.r.signals
    BY <1>3, <1>4, <2>2 DEF Worlds, RecordsT
  <2> QED BY <2>1, <2>2
<1> HIDE DEF v
<1>7. /\ v.r.life = w.r.life /\ v.r.answer = w.r.answer /\ v.r.session = w.r.session
      /\ v.r.cites = cited.r.cites
  BY <1>3, <1>4, <1>6 DEF Worlds, RecordsT
<1>8. w.r.stands \in [Signals -> Standing]
  BY <1>1 DEF Worlds, RecordsT, Standings
<1>9. Spread(w, v, {s}, moves)
  <2>1. v.r = [w.r EXCEPT !.stands = v.r.stands, !.cites = v.r.cites]
    BY <1>1, <1>3, <1>6, <1>7 DEF Worlds, RecordsT
  <2>2. \A t \in Signals :
          v.r.stands[t] = IF t \in {s} /\ t \in w.r.signals THEN moves[t] ELSE w.r.stands[t]
    BY <1>6, <1>8 DEF m
  <2> QED BY <1>3, <1>6, <1>7, <2>1, <2>2 DEF Spread, m
<1>10. v \in Ends(c)
  <2>1. Attaches(v, c.known) /\ Answered(v) /\ \A i \in c.alive : v.r.life[i] # "none"
    BY <1>1, <1>3, <1>4, <1>5, <1>6, <1>7 DEF Ends, Fit, Attaches, Answered
  <2>2. ASSUME c.last PROVE Marked(v, c.was)
    <3>1. Marked(cited, c.was)
      BY <1>5, <2>2 DEF Ends, Fit
    <3>2. goes => s \in v.r.cites[m.to]
      BY <1>3, <1>7, <2>2 DEF w, m
    <3>3. v.r.stands[s] \in {m, cited.r.stands[s]}
      BY <1>4, <1>6, <1>8
    <3>4. \A t \in Signals \ {s} : v.r.stands[t] = cited.r.stands[t]
      BY <1>4, <1>6, <1>8
    <3> QED BY <1>7, <3>1, <3>2, <3>3, <3>4 DEF Marked
  <2> QED BY <1>6, <2>1, <2>2 DEF Ends, Fit
<1>11. Applied(h, s, m) = Wrote(Wrote(h, cited), v)
  BY DEF Applied, cited, v, w
<1>12. Wrote(h, cited) \in Hist(c)
  BY <1>5, WroteKeeps
<1>13. Applied(h, s, m) \in Hist(c) /\ Last(Applied(h, s, m)) = v
  BY <1>10, <1>11, <1>12, WroteKeeps
<1> QED BY <1>9, <1>13 DEF w, m

LEMMA SpreadOn ==
  ASSUME NEW w \in Worlds, NEW u \in Worlds, NEW v \in Worlds,
         NEW moves \in Standings, NEW t \in SUBSET Signals, NEW s \in t,
         Spread(w, u, t \ {s}, moves), Spread(u, v, {s}, moves)
  PROVE  Spread(w, v, t, moves)
<1>1. u.r.signals = w.r.signals /\ u.r.life = w.r.life
  BY DEF Spread, Worlds, RecordsT
<1>2. v.r = [w.r EXCEPT !.stands = v.r.stands, !.cites = v.r.cites]
  BY DEF Spread, Worlds, RecordsT
<1>3. \A x \in Signals :
        v.r.stands[x] = IF x \in t /\ x \in w.r.signals THEN moves[x] ELSE w.r.stands[x]
  BY <1>1 DEF Spread
<1>4. \A i \in Intents : w.r.cites[i] \subseteq v.r.cites[i]
  BY DEF Spread
<1>5. \A x \in t : moves[x].word \in {"join", "attach"} /\ w.r.life[moves[x].to] # "none"
                    => x \in v.r.cites[moves[x].to]
  <2> TAKE x \in t
  <2> HAVE moves[x].word \in {"join", "attach"} /\ w.r.life[moves[x].to] # "none"
  <2>1. moves[x].to \in Intents
    BY WhereMoved DEF Standings
  <2>2. x \in u.r.cites[moves[x].to] \/ x \in v.r.cites[moves[x].to]
    BY <1>1 DEF Spread
  <2> QED BY <2>1, <2>2 DEF Spread
<1>6. v.f = w.f /\ v.k = w.k /\ v.up = w.up /\ v.ok = w.ok
  BY DEF Spread
<1> QED BY <1>2, <1>3, <1>4, <1>5, <1>6 DEF Spread

LEMMA AppliedAllKeeps ==
  ASSUME NEW c \in Asked, ~ c.last, NEW h \in Hist(c), NEW moves \in Standings
  PROVE  /\ AppliedAll(h, moves) \in Hist(c)
         /\ Spread(Last(h), Last(AppliedAll(h, moves)),
                   {s \in Signals : moves[s] # Unmoved}, moves)
<1> DEFINE S == {s \in Signals : moves[s] # Unmoved}
           H == Hist(c)
           step == [x \in S \X H |-> Applied(x[2], x[1], moves[x[1]])]
           iter == CHOOSE iter : iter = [s \in SUBSET S |->
                      IF s = {} THEN h ELSE Applied(iter[s \ {Pick(s)}], Pick(s), moves[Pick(s)])]
           Holds == {t \in SUBSET S : iter[t] \in H /\ Spread(Last(h), Last(iter[t]), t, moves)}
<1>1. ASSUME NEW s \in S, NEW g \in Hist(c)
      PROVE  /\ Applied(g, s, moves[s]) \in Hist(c)
             /\ Spread(Last(g), Last(Applied(g, s, moves[s])), {s}, moves)
  BY AppliedKeeps
<1>2. h \in Hist(c)
  OBVIOUS
<1>3. IsFiniteSet(S)
  BY FiniteData
<1>4. AppliedAll(h, moves) = iter[S]
  BY DEF AppliedAll, FoldSet, MapThenFoldSet, Pick
<1> HIDE DEF S
<1>5. iter = [s \in SUBSET S |-> IF s = {} THEN h ELSE Applied(iter[s \ {Pick(s)}], Pick(s), moves[Pick(s)])]
  <2>1. step \in [S \X H -> H] /\ h \in H /\ IsFiniteSet(S)
    BY <1>1, <1>2, <1>3
  <2> HIDE DEF H, step
  <2>2. PICK g \in [SUBSET S -> H] : IsFold(g, S, h, step)
    BY <2>1, FoldExists
  <2>3. \A s \in (SUBSET S) \ {{}} :
          step[<<Pick(s), g[s \ {Pick(s)}]>>] = Applied(g[s \ {Pick(s)}], Pick(s), moves[Pick(s)])
    BY PickIn DEF step
  <2> DEFINE k == [s \in SUBSET S |->
                      IF s = {} THEN h ELSE Applied(g[s \ {Pick(s)}], Pick(s), moves[Pick(s)])]
  <2>4. \A s \in SUBSET S : g[s] = k[s]
    BY <2>2, <2>3 DEF IsFold
  <2>5. k = [s \in SUBSET S |-> k[s]] /\ g = [s \in SUBSET S |-> g[s]]
    BY <2>2
  <2> HIDE DEF k
  <2>6. g = k
    BY <2>4, <2>5
  <2> QED BY <2>6 DEF k
<1> HIDE DEF iter
<1>6. S \in Holds
  <2>1. {} \in Holds
    <3>1. Last(h) \in Worlds
      BY LastIs
    <3>2. Spread(Last(h), Last(h), {}, moves)
      BY <3>1 DEF Spread, Worlds, RecordsT
    <3> QED BY <1>2, <1>5, <3>2
  <2>2. ASSUME NEW t \in (SUBSET S) \ {{}}, t \ {Pick(t)} \in Holds PROVE t \in Holds
    <3> DEFINE less == t \ {Pick(t)}
    <3>1. iter[t] = Applied(iter[less], Pick(t), moves[Pick(t)]) /\ Pick(t) \in S /\ Pick(t) \in t
      BY <1>5, PickIn
    <3>2. iter[t] \in H /\ Spread(Last(iter[less]), Last(iter[t]), {Pick(t)}, moves)
      BY <1>1, <2>2, <3>1
    <3>3. Last(h) \in Worlds /\ Last(iter[less]) \in Worlds /\ Last(iter[t]) \in Worlds
      BY <2>2, <3>2, LastIs
    <3>4. Spread(Last(h), Last(iter[less]), less, moves)
      BY <2>2
    <3>5. Spread(Last(h), Last(iter[t]), t, moves)
      <4>1. t \in SUBSET Signals
        BY DEF S
      <4> QED BY <3>1, <3>2, <3>3, <3>4, <4>1, SpreadOn
    <3> QED BY <3>2, <3>5
  <2> HIDE DEF Holds
  <2> QED BY <1>3, <2>1, <2>2, SetInduction
<1> QED BY <1>4, <1>6 DEF S

LEMMA WriteMoveKeeps ==
  ASSUME NEW c \in Asked, NEW h \in Hist(c), NEW s \in Signals, NEW m \in Standing,
         m.word = "attach" => m.to \in c.known /\ Last(h).r.life[m.to] # "none"
  PROVE  WriteMove(h, s, m) \in Hist(c) /\ SameRecords(Last(h), Last(WriteMove(h, s, m)))
<1> DEFINE w == Last(h)
           kept == [w.k EXCEPT !.moves[s] = m]
<1>1. w \in Worlds /\ w \in Ends(c)
  BY LastIs
<1>2. SameRecords(w, w)
  BY <1>1 DEF SameRecords, Worlds, RecordsT
<1>3. w.k \in FilesT
  BY <1>1 DEF Worlds
<1>4. kept \in FilesT /\ kept.moves = [w.k.moves EXCEPT ![s] = m]
  BY <1>3 DEF FilesT, Standings
<1>5. \A t \in Signals : kept.moves[t].word = "attach" =>
        kept.moves[t].to \in c.known /\ w.r.life[kept.moves[t].to] # "none"
  <2>1. \A t \in Signals : kept.moves[t] \in {m, w.k.moves[t]}
    BY <1>3, <1>4 DEF FilesT, Standings
  <2>2. \A t \in Signals : w.k.moves[t].word = "attach" =>
          w.k.moves[t].to \in c.known /\ w.r.life[w.k.moves[t].to] # "none"
    BY <1>1 DEF Ends, Fit, Attaches
  <2> HIDE DEF kept
  <2> QED BY <2>1, <2>2
<1>6. WriteMove(h, s, m) = IF ~ w.ok \/ w.f.moves[s] = m THEN h ELSE Filed(h, kept)
  BY DEF WriteMove
<1> HIDE DEF kept
<1>7. Filed(h, kept) \in Hist(c) /\ SameRecords(w, Last(Filed(h, kept)))
  BY <1>4, <1>5, FiledKeeps
<1> QED BY <1>2, <1>6, <1>7

\* A move made at once, by a hand or of what a dropped intent cited.
LEMMA ApplyMoveKeeps ==
  ASSUME NEW c \in Asked, NEW h \in Hist(c), NEW s \in Signals, NEW m \in Standing,
         m.word # "join",
         m.word = "attach" => m.to \in c.known /\ Last(h).r.life[m.to] # "none"
  PROVE  ApplyMove(h, s, m) \in Hist(c)
<1> DEFINE filed == WriteMove(h, s, m)
           moves == [t \in Signals |-> m]
<1>1. filed \in Hist(c) /\ SameRecords(Last(h), Last(filed))
  BY WriteMoveKeeps
<1> HIDE DEF filed
<1>2. Last(h) \in Worlds
  BY LastIs
<1>3. Last(filed).r.life = Last(h).r.life
  BY <1>1, <1>2 DEF SameRecords, Worlds, RecordsT
<1>4. moves \in Standings /\ moves[s] = m
  BY DEF Standings
<1> HIDE DEF moves
<1>5. Applied(filed, s, m) \in Hist(c)
  BY <1>1, <1>3, <1>4, AppliedKeeps
<1> QED BY <1>1, <1>5 DEF ApplyMove, filed

LEMMA DropTo ==
  ASSUME NEW i \in Intents
  PROVE  MoveTo("drop", i) \in Standing /\ MoveTo("drop", i).word = "drop"
BY DEF MoveTo, Standing, Moves

LEMMA DropSignalsKeep ==
  ASSUME NEW c \in Asked, NEW h \in Hist(c), NEW i \in Intents
  PROVE  DropSignals(h, i) \in Hist(c)
<1> DEFINE S == Last(h).r.cites[i]
           H == Hist(c)
           step == [x \in S \X H |-> ApplyMove(Then(x[2], [Last(x[2]) EXCEPT !.r.signals = @ \cup {x[1]}]),
             x[1], MoveTo("drop", i))]
           iter == CHOOSE iter : iter = [s \in SUBSET S |->
                      IF s = {} THEN h ELSE ApplyMove(Then(iter[s \ {Pick(s)}], [Last(iter[s \ {Pick(s)}]) EXCEPT !.r.signals = @ \cup {Pick(s)}]),
             Pick(s), MoveTo("drop", i))]
           Holds == {s \in SUBSET S : iter[s] \in H}
<1>0. S \in SUBSET Signals
  <2>1. Last(h) \in Worlds
    BY LastIs
  <2> QED BY <2>1 DEF Worlds, RecordsT
<1>1. ASSUME NEW s \in S, NEW g \in Hist(c)
      PROVE  ApplyMove(Then(g, [Last(g) EXCEPT !.r.signals = @ \cup {s}]),
             s, MoveTo("drop", i)) \in Hist(c)
  <2> DEFINE w == Last(g)
             v == [w EXCEPT !.r.signals = @ \cup {s}]
  <2>1. w \in Worlds
    BY LastIs
  <2>2. v \in Worlds /\ Calm(w, v) /\ v.f = w.f
    BY <1>0, <2>1 DEF Worlds, RecordsT, Calm
  <2> HIDE DEF v
  <2>3. Then(g, v) \in Hist(c)
    BY <2>2, CalmWrites
  <2>4. ApplyMove(Then(g, v), s, MoveTo("drop", i)) \in Hist(c)
    BY <1>0, <2>3, DropTo, ApplyMoveKeeps
  <2> QED BY <2>4 DEF v
<1>2. h \in Hist(c)
  OBVIOUS
<1>3. IsFiniteSet(S)
  BY <1>0, FiniteData
<1>4. DropSignals(h, i) = iter[S]
  BY DEF DropSignals, FoldSet, MapThenFoldSet, Pick
<1> HIDE DEF S
<1>5. iter = [s \in SUBSET S |-> IF s = {} THEN h ELSE ApplyMove(Then(iter[s \ {Pick(s)}], [Last(iter[s \ {Pick(s)}]) EXCEPT !.r.signals = @ \cup {Pick(s)}]),
             Pick(s), MoveTo("drop", i))]
  <2>1. step \in [S \X H -> H] /\ h \in H /\ IsFiniteSet(S)
    BY <1>1, <1>2, <1>3
  <2> HIDE DEF H, step
  <2>2. PICK g \in [SUBSET S -> H] : IsFold(g, S, h, step)
    BY <2>1, FoldExists
  <2>3. \A s \in (SUBSET S) \ {{}} :
          step[<<Pick(s), g[s \ {Pick(s)}]>>] = ApplyMove(Then(g[s \ {Pick(s)}], [Last(g[s \ {Pick(s)}]) EXCEPT !.r.signals = @ \cup {Pick(s)}]),
             Pick(s), MoveTo("drop", i))
    BY PickIn DEF step
  <2> DEFINE k == [s \in SUBSET S |->
                      IF s = {} THEN h ELSE ApplyMove(Then(g[s \ {Pick(s)}], [Last(g[s \ {Pick(s)}]) EXCEPT !.r.signals = @ \cup {Pick(s)}]),
             Pick(s), MoveTo("drop", i))]
  <2>4. \A s \in SUBSET S : g[s] = k[s]
    BY <2>2, <2>3 DEF IsFold
  <2>5. k = [s \in SUBSET S |-> k[s]] /\ g = [s \in SUBSET S |-> g[s]]
    BY <2>2
  <2> HIDE DEF k
  <2>6. g = k
    BY <2>4, <2>5
  <2> QED BY <2>6 DEF k
<1> HIDE DEF iter
<1>6. S \in Holds
  <2>1. {} \in Holds
    BY <1>2, <1>5
  <2>2. ASSUME NEW s \in (SUBSET S) \ {{}}, s \ {Pick(s)} \in Holds PROVE s \in Holds
    <3>1. iter[s] = ApplyMove(Then(iter[s \ {Pick(s)}], [Last(iter[s \ {Pick(s)}]) EXCEPT !.r.signals = @ \cup {Pick(s)}]),
                      Pick(s), MoveTo("drop", i)) /\ Pick(s) \in S
      BY <1>5, PickIn
    <3>2. iter[s] \in H
      BY <1>1, <2>2, <3>1
    <3> QED BY <2>2, <3>2
  <2> HIDE DEF Holds
  <2> QED BY <1>3, <2>1, <2>2, SetInduction
<1> QED BY <1>4, <1>6

\* Moves written one by one, as the curator surface writes them.
WrittenAll(h, S, m) == FoldSet(LAMBDA s, g : WriteMove(g, s, m), h, S)

LEMMA WriteMovesKeep ==
  ASSUME NEW c \in Asked, NEW h \in Hist(c), NEW S \in SUBSET Signals, NEW m \in Standing,
         m.word = "attach" => m.to \in c.known /\ m.to \in c.alive
  PROVE  WrittenAll(h, S, m) \in Hist(c)
<1> DEFINE all == WrittenAll(h, S, m)
           H == Hist(c)
           step == [x \in S \X H |-> WriteMove(x[2], x[1], m)]
           iter == CHOOSE iter : iter = [s \in SUBSET S |->
                      IF s = {} THEN h ELSE WriteMove(iter[s \ {Pick(s)}], Pick(s), m)]
           Holds == {s \in SUBSET S : iter[s] \in H}
<1>1. ASSUME NEW s \in S, NEW g \in Hist(c)
      PROVE  WriteMove(g, s, m) \in Hist(c)
  <2>1. m.word = "attach" => Last(g).r.life[m.to] # "none"
    BY LastIs DEF Ends
  <2> QED BY <2>1, WriteMoveKeeps
<1>2. h \in Hist(c)
  OBVIOUS
<1>3. IsFiniteSet(S)
  BY FiniteData
<1>4. all = iter[S]
  BY DEF WrittenAll, FoldSet, MapThenFoldSet, Pick
<1> HIDE DEF all
<1>5. iter = [s \in SUBSET S |-> IF s = {} THEN h ELSE WriteMove(iter[s \ {Pick(s)}], Pick(s), m)]
  <2>1. step \in [S \X H -> H] /\ h \in H /\ IsFiniteSet(S)
    BY <1>1, <1>2, <1>3
  <2> HIDE DEF H, step
  <2>2. PICK g \in [SUBSET S -> H] : IsFold(g, S, h, step)
    BY <2>1, FoldExists
  <2>3. \A s \in (SUBSET S) \ {{}} :
          step[<<Pick(s), g[s \ {Pick(s)}]>>] = WriteMove(g[s \ {Pick(s)}], Pick(s), m)
    BY PickIn DEF step
  <2> DEFINE k == [s \in SUBSET S |->
                      IF s = {} THEN h ELSE WriteMove(g[s \ {Pick(s)}], Pick(s), m)]
  <2>4. \A s \in SUBSET S : g[s] = k[s]
    BY <2>2, <2>3 DEF IsFold
  <2>5. k = [s \in SUBSET S |-> k[s]] /\ g = [s \in SUBSET S |-> g[s]]
    BY <2>2
  <2> HIDE DEF k
  <2>6. g = k
    BY <2>4, <2>5
  <2> QED BY <2>6 DEF k
<1> HIDE DEF iter
<1>6. S \in Holds
  <2>1. {} \in Holds
    BY <1>2, <1>5
  <2>2. ASSUME NEW s \in (SUBSET S) \ {{}}, s \ {Pick(s)} \in Holds PROVE s \in Holds
    <3>1. iter[s] = WriteMove(iter[s \ {Pick(s)}], Pick(s), m) /\ Pick(s) \in S
      BY <1>5, PickIn
    <3>2. iter[s] \in H
      BY <1>1, <2>2, <3>1
    <3> QED BY <2>2, <3>2
  <2> HIDE DEF Holds
  <2> QED BY <1>3, <2>1, <2>2, SetInduction
<1> QED BY <1>4, <1>6 DEF all

\* Moves made one by one, as open-intent makes them.
MadeAll(h, S, m) == FoldSet(LAMBDA s, g : ApplyMove(g, s, m), h, S)

LEMMA ApplyMovesKeep ==
  ASSUME NEW c \in Asked, NEW h \in Hist(c), NEW S \in SUBSET Signals, NEW m \in Standing,
         m.word = "attach" => m.to \in c.known /\ m.to \in c.alive,
         m.word # "join"
  PROVE  MadeAll(h, S, m) \in Hist(c)
<1> DEFINE all == MadeAll(h, S, m)
           H == Hist(c)
           step == [x \in S \X H |-> ApplyMove(x[2], x[1], m)]
           iter == CHOOSE iter : iter = [s \in SUBSET S |->
                      IF s = {} THEN h ELSE ApplyMove(iter[s \ {Pick(s)}], Pick(s), m)]
           Holds == {s \in SUBSET S : iter[s] \in H}
<1>1. ASSUME NEW s \in S, NEW g \in Hist(c)
      PROVE  ApplyMove(g, s, m) \in Hist(c)
  <2>1. m.word = "attach" => Last(g).r.life[m.to] # "none"
    BY LastIs DEF Ends
  <2> QED BY <2>1, ApplyMoveKeeps
<1>2. h \in Hist(c)
  OBVIOUS
<1>3. IsFiniteSet(S)
  BY FiniteData
<1>4. all = iter[S]
  BY DEF MadeAll, FoldSet, MapThenFoldSet, Pick
<1> HIDE DEF all
<1>5. iter = [s \in SUBSET S |-> IF s = {} THEN h ELSE ApplyMove(iter[s \ {Pick(s)}], Pick(s), m)]
  <2>1. step \in [S \X H -> H] /\ h \in H /\ IsFiniteSet(S)
    BY <1>1, <1>2, <1>3
  <2> HIDE DEF H, step
  <2>2. PICK g \in [SUBSET S -> H] : IsFold(g, S, h, step)
    BY <2>1, FoldExists
  <2>3. \A s \in (SUBSET S) \ {{}} :
          step[<<Pick(s), g[s \ {Pick(s)}]>>] = ApplyMove(g[s \ {Pick(s)}], Pick(s), m)
    BY PickIn DEF step
  <2> DEFINE k == [s \in SUBSET S |->
                      IF s = {} THEN h ELSE ApplyMove(g[s \ {Pick(s)}], Pick(s), m)]
  <2>4. \A s \in SUBSET S : g[s] = k[s]
    BY <2>2, <2>3 DEF IsFold
  <2>5. k = [s \in SUBSET S |-> k[s]] /\ g = [s \in SUBSET S |-> g[s]]
    BY <2>2
  <2> HIDE DEF k
  <2>6. g = k
    BY <2>4, <2>5
  <2> QED BY <2>6 DEF k
<1> HIDE DEF iter
<1>6. S \in Holds
  <2>1. {} \in Holds
    BY <1>2, <1>5
  <2>2. ASSUME NEW s \in (SUBSET S) \ {{}}, s \ {Pick(s)} \in Holds PROVE s \in Holds
    <3>1. iter[s] = ApplyMove(iter[s \ {Pick(s)}], Pick(s), m) /\ Pick(s) \in S
      BY <1>5, PickIn
    <3>2. iter[s] \in H
      BY <1>1, <2>2, <3>1
    <3> QED BY <2>2, <3>2
  <2> HIDE DEF Holds
  <2> QED BY <1>3, <2>1, <2>2, SetInduction
<1> QED BY <1>4, <1>6 DEF all

-----------------------------------------------------------------------------
(* Intents and their elaborations                                           *)

LEMMA PartsAreIntents == Parts[1] \in Intents /\ Parts[2] \in Intents
BY DEF Intents

LEMMA LifeToKeeps ==
  ASSUME NEW c \in Asked, NEW h \in Hist(c), NEW i \in Intents,
         NEW life \in {"open", "dropped"}
  PROVE  LifeTo(h, i, life) \in Hist(c)
<1> DEFINE w == Last(h)
           v == [w EXCEPT !.r.life[i] = life, !.r.answer[i] = "none"]
<1>1. w \in Worlds /\ w \in Ends(c)
  BY LastIs
<1>2. /\ v \in Worlds /\ v.f = w.f /\ v.k = w.k /\ v.r.session = w.r.session
      /\ v.r.stands = w.r.stands /\ v.r.cites = w.r.cites
      /\ v.r.life = [w.r.life EXCEPT ![i] = life]
      /\ v.r.answer = [w.r.answer EXCEPT ![i] = "none"]
  BY <1>1 DEF Worlds, RecordsT, Lives, Answers
<1>3. w.r.life \in [Intents -> Lives] /\ w.r.answer \in [Intents -> Answers] /\ Answered(w)
  BY <1>1 DEF Worlds, RecordsT, Ends, Fit
<1>4. LifeTo(h, i, life) = Wrote(h, v)
  BY DEF LifeTo
<1> HIDE DEF w, v
<1>5. Answered(v)
  BY <1>2, <1>3 DEF Answered
<1>6. \A j \in Intents : w.r.life[j] # "none" => v.r.life[j] # "none"
  BY <1>2, <1>3
<1>7. v \in Ends(c)
  BY <1>1, <1>2, <1>5, <1>6, EndsOn
<1> QED BY <1>4, <1>7, WroteKeeps

LEMMA SeqOfSet ==
  ASSUME NEW S, IsFiniteSet(S)
  PROVE  SetToSeq(S) \in [1..Cardinality(S) -> S]
<1>1. \E f \in [1..Cardinality(S) -> S] : IsInjective(f)
  <2>1. \E n \in Nat : \E f : f \in Bijection(1..n, S) /\ n = Cardinality(S)
    BY FS_NatBijection, FS_CountingElements, FS_CardinalityType DEF ExistsBijection
  <2> QED BY <2>1 DEF Bijection, Injection, IsInjective
<1> QED BY <1>1 DEF SetToSeq

\* A part that is no intent yet becomes one and takes its share.
LEMMA PartKeeps ==
  ASSUME NEW c \in Asked, NEW w \in Ends(c), NEW i \in Intents, NEW share \in SUBSET Signals
  PROVE  (IF w.r.life[i] # "none" THEN w
          ELSE [w EXCEPT !.r.life[i] = "proposed", !.r.cites[i] = share]) \in Ends(c)
<1> DEFINE v == [w EXCEPT !.r.life[i] = "proposed", !.r.cites[i] = share]
<1> SUFFICES ASSUME w.r.life[i] = "none" PROVE v \in Ends(c)
  OBVIOUS
<1>1. w \in Worlds /\ Answered(w)
  BY DEF Ends, Fit
<1>2. /\ v \in Worlds /\ v.f = w.f /\ v.k = w.k /\ v.r.session = w.r.session
      /\ v.r.stands = w.r.stands /\ v.r.answer = w.r.answer
      /\ v.r.life = [w.r.life EXCEPT ![i] = "proposed"]
      /\ v.r.cites = [w.r.cites EXCEPT ![i] = share]
  BY <1>1 DEF Worlds, RecordsT, Lives
<1>3. /\ w.r.life \in [Intents -> Lives] /\ w.r.cites \in [Intents -> SUBSET Signals]
  BY <1>1 DEF Worlds, RecordsT
<1> HIDE DEF v
<1>4. Answered(v)
  BY <1>1, <1>2, <1>3 DEF Answered
<1>5. \A j \in Intents : w.r.life[j] # "none" => v.r.life[j] # "none"
  BY <1>2, <1>3
<1>6. \A j \in Intents : w.r.cites[j] \subseteq v.r.cites[j]
  BY <1>1, <1>2, <1>3 DEF Answered
<1> QED BY <1>2, <1>4, <1>5, <1>6, EndsOn

LEMMA SplitIntentKeeps ==
  ASSUME NEW c \in Asked, NEW h \in Hist(c), NEW i \in Intents
  PROVE  SplitIntent(h, i) \in Hist(c)
<1> DEFINE w == Last(h)
           inTurn == SetToSeq(w.r.cites[i])
           share(k) == {inTurn[n] : n \in {m \in DOMAIN inTurn : m % 2 = k % 2}}
           one == IF w.r.life[Parts[1]] # "none" THEN w
                  ELSE [w EXCEPT !.r.life[Parts[1]] = "proposed", !.r.cites[Parts[1]] = share(1)]
           two == IF one.r.life[Parts[2]] # "none" THEN one
                  ELSE [one EXCEPT !.r.life[Parts[2]] = "proposed", !.r.cites[Parts[2]] = share(2)]
<1>1. w \in Ends(c) /\ w.r.cites[i] \in SUBSET Signals
  <2>1. w \in Worlds /\ w \in Ends(c)
    BY LastIs
  <2> QED BY <2>1 DEF Worlds, RecordsT
<1>2. \A n \in DOMAIN inTurn : inTurn[n] \in Signals
  BY <1>1, FiniteData, SeqOfSet
<1>3. share(1) \in SUBSET Signals /\ share(2) \in SUBSET Signals
  <2> HIDE DEF inTurn
  <2> QED BY <1>2
<1>4. SplitIntent(h, i) = Wrote(h, two)
  BY DEF SplitIntent
<1> HIDE DEF share, w
<1>5. one \in Ends(c)
  BY <1>1, <1>3, PartsAreIntents, PartKeeps
<1> HIDE DEF one
<1>6. two \in Ends(c)
  BY <1>3, <1>5, PartsAreIntents, PartKeeps
<1> HIDE DEF two
<1> QED BY <1>4, <1>6, WroteKeeps

\* The elaborations of one intent put on their own.
LEMMA ElabsPut ==
  ASSUME NEW c \in Asked, NEW h \in Hist(c), NEW i \in Intents, NEW elabs \in Elabs
  PROVE  Wrote(h, [Last(h) EXCEPT !.r.elabs[i] = elabs]) \in Hist(c)
<1> DEFINE w == Last(h)
           v == [w EXCEPT !.r.elabs[i] = elabs]
<1>1. w \in Worlds /\ w \in Ends(c)
  BY LastIs
<1>2. /\ v \in Worlds /\ v.f = w.f /\ v.k = w.k /\ v.r.session = w.r.session
      /\ v.r.stands = w.r.stands /\ v.r.cites = w.r.cites
      /\ v.r.life = w.r.life /\ v.r.answer = w.r.answer
  BY <1>1 DEF Worlds, RecordsT
<1> HIDE DEF v
<1>3. v \in Ends(c)
  BY <1>1, <1>2, EndsStill
<1> QED BY <1>3, WroteKeeps DEF v

\* A new elaboration is of what no other of the intent cites.
LEMMA ElabAdded ==
  ASSUME NEW q \in Elabs, NEW e \in ElabT, Len(q) # MaxElabs,
         \A k \in DOMAIN q : q[k].cites \cap e.cites = {}
  PROVE  Append(q, e) \in Elabs
<1>1. q \in Seq(ElabT) /\ Len(q) \in Nat /\ Len(q) <= MaxElabs /\ MaxElabs \in Nat
  BY CurationAssumption DEF Elabs
<1>2. Append(q, e) \in Seq(ElabT) /\ Len(Append(q, e)) = Len(q) + 1
  BY <1>1
<1>3. \A k \in DOMAIN Append(q, e) :
        \/ k \in DOMAIN q /\ Append(q, e)[k] = q[k]
        \/ k = Len(q) + 1 /\ Append(q, e)[k] = e
  BY <1>1
<1>4. \A k, l \in DOMAIN q : k # l => q[k].cites \cap q[l].cites = {}
  BY DEF Elabs
<1>5. Len(Append(q, e)) <= MaxElabs
  BY <1>1, <1>2
<1>6. \A k, l \in DOMAIN Append(q, e) :
        k # l => Append(q, e)[k].cites \cap Append(q, e)[l].cites = {}
  BY <1>3, <1>4
<1> QED BY <1>2, <1>5, <1>6 DEF Elabs

LEMMA ElabGrows ==
  ASSUME NEW q \in Elabs, NEW k \in DOMAIN q, NEW more \in SUBSET Signals,
         \A l \in DOMAIN q : q[l].cites \cap more = {}
  PROVE  [q EXCEPT ![k].cites = @ \cup more] \in Elabs
<1> DEFINE e == [q[k] EXCEPT !.cites = @ \cup more]
           p == [q EXCEPT ![k] = e]
<1>1. q \in Seq(ElabT) /\ Len(q) <= MaxElabs /\ q[k] \in ElabT
  BY DEF Elabs
<1>2. e \in ElabT /\ e.cites = q[k].cites \cup more
  BY <1>1 DEF ElabT
<1>3. [q EXCEPT ![k].cites = @ \cup more] = p
  OBVIOUS
<1>4. \A l, n \in DOMAIN q : l # n => q[l].cites \cap q[n].cites = {}
  BY DEF Elabs
<1> HIDE DEF e
<1>5. /\ p \in Seq(ElabT) /\ Len(p) = Len(q) /\ DOMAIN p = DOMAIN q /\ p[k] = e
      /\ \A l \in DOMAIN q \ {k} : p[l] = q[l]
  BY <1>1, <1>2
<1> HIDE DEF p
<1>6. \A l, n \in DOMAIN p : l # n => p[l].cites \cap p[n].cites = {}
  BY <1>2, <1>4, <1>5
<1>7. p \in Elabs
  BY <1>1, <1>5, <1>6 DEF Elabs
<1> QED BY <1>3, <1>7

LEMMA ProposeElaborationKeeps ==
  ASSUME NEW c \in Asked, NEW h \in Hist(c), NEW i \in Intents
  PROVE  ProposeElaboration(h, i) \in Hist(c)
<1> DEFINE w == Last(h)
           q == w.r.elabs[i]
           more == Pending(w, i)
           proposed == {k \in DOMAIN q : q[k].at = "proposed"}
           n == Min(proposed)
           e == Elaboration(more, <<>>)
<1>1. w \in Worlds
  BY LastIs
<1>2. q \in Elabs /\ w.r.cites[i] \in SUBSET Signals /\ w.r.elabs \in [Intents -> Elabs]
  BY <1>1 DEF Worlds, RecordsT
<1>3. more \in SUBSET Signals /\ \A l \in DOMAIN q : q[l].cites \cap more = {}
  BY <1>2 DEF Pending
<1>4. e \in ElabT /\ e.cites = more
  BY <1>3 DEF Elaboration, ElabT, Covers
<1>5. CASE proposed # {}
  <2> DEFINE grown == [q EXCEPT ![n].cites = @ \cup more]
  <2>1. n \in DOMAIN q
    <3>1. proposed \subseteq Nat /\ proposed \subseteq DOMAIN q
      BY <1>2 DEF Elabs
    <3> HIDE DEF proposed
    <3>2. n \in proposed
      BY <1>5, <3>1, LeastIs
    <3> QED BY <3>1, <3>2
  <2>2. ProposeElaboration(h, i) = Wrote(h, [w EXCEPT !.r.elabs[i][n].cites = @ \cup more])
    BY <1>5 DEF ProposeElaboration
  <2> HIDE DEF n, more
  <2>3. [w EXCEPT !.r.elabs[i][n].cites = @ \cup more] = [w EXCEPT !.r.elabs[i] = grown]
    BY <1>1, <1>2
  <2>4. grown \in Elabs
    BY <1>2, <1>3, <2>1, ElabGrows
  <2> HIDE DEF grown
  <2>5. Wrote(h, [Last(h) EXCEPT !.r.elabs[i] = grown]) \in Hist(c)
    BY <2>4, ElabsPut
  <2> QED BY <2>2, <2>3, <2>5
<1>6. CASE proposed = {} /\ Len(q) = MaxElabs
  BY <1>6 DEF ProposeElaboration
<1>7. CASE proposed = {} /\ Len(q) # MaxElabs
  <2> DEFINE grown == Append(q, e)
  <2>1. ProposeElaboration(h, i) = Wrote(h, [w EXCEPT !.r.elabs[i] = grown])
    BY <1>1, <1>2, <1>7 DEF ProposeElaboration
  <2> HIDE DEF e, more, q
  <2>2. grown \in Elabs
    BY <1>2, <1>3, <1>4, <1>7, ElabAdded
  <2> HIDE DEF grown
  <2>3. Wrote(h, [Last(h) EXCEPT !.r.elabs[i] = grown]) \in Hist(c)
    BY <2>2, ElabsPut
  <2> QED BY <2>1, <2>3
<1> QED BY <1>5, <1>6, <1>7

LEMMA IntentStepKeeps ==
  ASSUME NEW c \in Asked, NEW h \in Hist(c), NEW planned, NEW i \in Intents
  PROVE  IntentStep(h, planned, i) \in Hist(c)
<1>1. IntentStep(h, planned, i)
        \in {LifeTo(h, i, "open"), DropSignals(LifeTo(h, i, "dropped"), i),
             SplitIntent(LifeTo(h, i, "dropped"), i), ProposeElaboration(h, i), h}
  BY DEF IntentStep
<1>2. LifeTo(h, i, "open") \in Hist(c) /\ LifeTo(h, i, "dropped") \in Hist(c)
  BY LifeToKeeps
<1> QED BY <1>1, <1>2, DropSignalsKeep, SplitIntentKeeps, ProposeElaborationKeeps

\* The intents of a pass.
IntentsOf(h, planned) == FoldSet(LAMBDA i, g : IntentStep(Afresh(g), planned, i), h, Intents)

LEMMA IntentsKeep ==
  ASSUME NEW c \in Asked, NEW h \in Hist(c), NEW planned
  PROVE  IntentsOf(h, planned) \in Hist(c)
<1> DEFINE all == IntentsOf(h, planned)
           H == Hist(c)
           step == [x \in Intents \X H |-> IntentStep(Afresh(x[2]), planned, x[1])]
           iter == CHOOSE iter : iter = [s \in SUBSET Intents |->
                      IF s = {} THEN h ELSE IntentStep(Afresh(iter[s \ {Pick(s)}]), planned, Pick(s))]
           Holds == {s \in SUBSET Intents : iter[s] \in H}
<1>1. ASSUME NEW i \in Intents, NEW g \in Hist(c)
      PROVE  IntentStep(Afresh(g), planned, i) \in Hist(c)
  BY AfreshKeeps, IntentStepKeeps
<1>2. h \in Hist(c)
  OBVIOUS
<1>3. IsFiniteSet(Intents)
  BY FiniteData
<1>4. all = iter[Intents]
  BY DEF IntentsOf, FoldSet, MapThenFoldSet, Pick
<1> HIDE DEF all
<1>5. iter = [s \in SUBSET Intents |-> IF s = {} THEN h ELSE IntentStep(Afresh(iter[s \ {Pick(s)}]), planned, Pick(s))]
  <2>1. step \in [Intents \X H -> H] /\ h \in H /\ IsFiniteSet(Intents)
    BY <1>1, <1>2, <1>3
  <2> HIDE DEF H, step
  <2>2. PICK g \in [SUBSET Intents -> H] : IsFold(g, Intents, h, step)
    BY <2>1, FoldExists
  <2>3. \A s \in (SUBSET Intents) \ {{}} :
          step[<<Pick(s), g[s \ {Pick(s)}]>>] = IntentStep(Afresh(g[s \ {Pick(s)}]), planned, Pick(s))
    BY PickIn DEF step
  <2> DEFINE k == [s \in SUBSET Intents |->
                      IF s = {} THEN h ELSE IntentStep(Afresh(g[s \ {Pick(s)}]), planned, Pick(s))]
  <2>4. \A s \in SUBSET Intents : g[s] = k[s]
    BY <2>2, <2>3 DEF IsFold
  <2>5. k = [s \in SUBSET Intents |-> k[s]] /\ g = [s \in SUBSET Intents |-> g[s]]
    BY <2>2
  <2> HIDE DEF k
  <2>6. g = k
    BY <2>4, <2>5
  <2> QED BY <2>6 DEF k
<1> HIDE DEF iter
<1>6. Intents \in Holds
  <2>1. {} \in Holds
    BY <1>2, <1>5
  <2>2. ASSUME NEW s \in (SUBSET Intents) \ {{}}, s \ {Pick(s)} \in Holds PROVE s \in Holds
    <3>1. iter[s] = IntentStep(Afresh(iter[s \ {Pick(s)}]), planned, Pick(s)) /\ Pick(s) \in Intents
      BY <1>5, PickIn
    <3>2. iter[s] \in H
      BY <1>1, <2>2, <3>1
    <3> QED BY <2>2, <3>2
  <2> HIDE DEF Holds
  <2> QED BY <1>3, <2>1, <2>2, SetInduction
<1> QED BY <1>4, <1>6 DEF all

-----------------------------------------------------------------------------
(* The curation session and what it delivered                               *)

LEMMA SessionPut ==
  ASSUME NEW c \in Asked, NEW w \in Ends(c), NEW session \in SessionT,
         \A s \in Signals : session.took[s].word = "attach"
           => w.r.life[session.took[s].to] # "none"
  PROVE  LET v == [w EXCEPT !.r.session = session]
         IN  v \in Ends(c) /\ v.r = [w.r EXCEPT !.session = session]
<1> DEFINE v == [w EXCEPT !.r.session = session]
<1>1. /\ w \in Worlds /\ Attaches(w, c.known) /\ Answered(w) /\ (c.last => Marked(w, c.was))
      /\ \A i \in c.alive : w.r.life[i] # "none"
  BY DEF Ends, Fit
<1>2. /\ v \in Worlds /\ v.f = w.f /\ v.k = w.k /\ v.r = [w.r EXCEPT !.session = session]
      /\ v.r.stands = w.r.stands /\ v.r.cites = w.r.cites /\ v.r.session = session
      /\ v.r.life = w.r.life /\ v.r.answer = w.r.answer
  BY <1>1 DEF Worlds, RecordsT
<1> HIDE DEF v
<1>3. Attaches(v, c.known) /\ Answered(v) /\ (c.last => Marked(v, c.was))
  BY <1>1, <1>2 DEF Attaches, Answered, Marked
<1> QED BY <1>1, <1>2, <1>3 DEF Ends, Fit, v

LEMMA NoMovesMade ==
  /\ NoMoves \in Standings /\ \A s \in Signals : NoMoves[s].word # "attach"
  /\ NoSession \in SessionT /\ Charged(NoSession) \in SessionT
  /\ NoSession.took = NoMoves /\ Charged(NoSession).took = NoMoves
<1>1. NoMoves \in Standings /\ \A s \in Signals : NoMoves[s].word # "attach"
  BY DEF NoMoves, Standings, Standing, Unmoved
<1>2. NoSession \in SessionT /\ NoSession.took = NoMoves
  BY <1>1 DEF NoSession, SessionT, Covers
<1>3. Charged(NoSession) \in SessionT /\ Charged(NoSession).took = NoMoves
  BY <1>2 DEF Charged, SessionT
<1> QED BY <1>1, <1>2, <1>3

LEMMA RecordDeliveriesKeeps ==
  ASSUME NEW c \in Asked, NEW h \in Hist(c)
  PROVE  /\ RecordDeliveries(h) \in Hist(c)
         /\ Last(RecordDeliveries(h)).r.stands = Last(h).r.stands
<1> DEFINE w == Last(h)
           gave == w.r.session.gave
           taken(s) == LET m == gave[s]
                       IN  /\ s \in NotMoved(w)
                           /\ m.word = "attach" => w.r.life[m.to] # "none"
           took == [s \in Signals |-> IF taken(s) THEN gave[s] ELSE Unmoved]
           session == [w.r.session EXCEPT !.parsed = TRUE, !.took = took]
           v == [w EXCEPT !.r.session = session]
<1>1. w \in Ends(c) /\ w \in Worlds
  BY LastIs
<1>2. w.r.session \in SessionT /\ gave \in Standings
  BY <1>1 DEF Worlds, RecordsT, SessionT
<1>3. took \in Standings /\ \A s \in Signals : took[s].word = "attach" => w.r.life[took[s].to] # "none"
  <2>1. Unmoved \in Standing /\ Unmoved.word # "attach"
    BY DEF Standing, Unmoved
  <2> HIDE DEF w, gave
  <2> QED BY <1>2, <2>1 DEF Standings
<1>4. RecordDeliveries(h) = Wrote(h, v)
  <2>1. [w EXCEPT !.r.session.parsed = TRUE, !.r.session.took = took] = v
    <3> HIDE DEF took, w
    <3> QED BY <1>1, <1>2 DEF Worlds, RecordsT, SessionT
  <2> QED BY <2>1 DEF RecordDeliveries
<1> HIDE DEF took
<1>5. session \in SessionT /\ session.took = took
  BY <1>2, <1>3 DEF SessionT
<1> HIDE DEF session
<1>6. v \in Ends(c) /\ v.r = [w.r EXCEPT !.session = session]
  BY <1>1, <1>3, <1>5, SessionPut
<1>7. v.r.stands = w.r.stands
  BY <1>1, <1>6 DEF Worlds, RecordsT
<1> HIDE DEF v
<1> QED BY <1>4, <1>6, <1>7, WroteKeeps

LEMMA RunToKeeps ==
  ASSUME NEW c \in Asked, NEW h \in Hist(c), NEW at \in {"idle", "applying", "failed"}
  PROVE  /\ RunTo(h, at) \in Hist(c)
         /\ Calm(Last(h), Last(RunTo(h, at)))
<1> DEFINE v == [Last(h) EXCEPT !.r.run = at]
<1>1. Last(h) \in Worlds
  BY LastIs
<1>2. v \in Worlds /\ Calm(Last(h), v) /\ v.f = Last(h).f
  BY <1>1 DEF Worlds, RecordsT, Calm
<1>3. RunTo(h, at) = Wrote(h, v)
  BY DEF RunTo
<1> HIDE DEF v
<1> QED BY <1>2, <1>3, CalmWrites

LEMMA RunOpens ==
  ASSUME NEW c \in Asked, NEW h \in Hist(c), Last(h).r.runs < MaxRuns
  PROVE  LET v == [Last(h) EXCEPT !.r.run = "running", !.r.runs = @ + 1,
                                  !.r.session = Charged(NoSession)]
         IN  v \in Ends(c) /\ v.r.stands = Last(h).r.stands
<1> DEFINE w == Last(h)
           u == [w EXCEPT !.r.run = "running", !.r.runs = @ + 1]
           v == [u EXCEPT !.r.session = Charged(NoSession)]
<1>1. w \in Worlds /\ w \in Ends(c)
  BY LastIs
<1>2. w.r.runs + 1 \in 0..MaxRuns
  <2>1. w.r.runs \in 0..MaxRuns /\ MaxRuns \in Nat
    BY <1>1, CurationAssumption DEF Worlds, RecordsT
  <2> QED BY <2>1
<1>3. /\ u \in Worlds /\ u.f = w.f /\ u.k = w.k /\ u.r.session = w.r.session
      /\ u.r.stands = w.r.stands /\ u.r.cites = w.r.cites
      /\ u.r.life = w.r.life /\ u.r.answer = w.r.answer
  BY <1>1, <1>2 DEF Worlds, RecordsT
<1>4. [w EXCEPT !.r.run = "running", !.r.runs = @ + 1, !.r.session = Charged(NoSession)] = v
  BY <1>1 DEF Worlds, RecordsT
<1> HIDE DEF u, w
<1>5. u \in Ends(c)
  BY <1>1, <1>3, EndsStill
<1>6. v \in Ends(c) /\ v.r = [u.r EXCEPT !.session = Charged(NoSession)]
  BY <1>5, NoMovesMade, SessionPut
<1>7. v.r.stands = w.r.stands
  BY <1>3, <1>6 DEF Worlds, RecordsT
<1> QED BY <1>4, <1>6, <1>7 DEF w

LEMMA GatherKeeps ==
  ASSUME NEW c \in Asked, NEW h \in Hist(c)
  PROVE  /\ Gather(h) \in Hist(c)
         /\ Last(Gather(h)).r.stands = Last(h).r.stands
         /\ Last(Gather(h)).r.cites = Last(h).r.cites
<1> DEFINE w == Last(h)
           g == w.r.session.gathers
           q == w.r.elabs[g[1]]
           e == Elaboration({}, g)
           v == [w EXCEPT !.r.elabs[g[1]] = Append(q, e)]
<1>1. w \in Worlds
  BY LastIs
<1>2. CASE g = <<>> \/ (\E k \in DOMAIN q : q[k].covers = g) \/ Len(q) = MaxElabs
  BY <1>2 DEF Gather
<1>3. CASE g # <<>> /\ Len(q) # MaxElabs /\ ~ \E k \in DOMAIN q : q[k].covers = g
  <2>1. g \in Covers /\ w.r.elabs \in [Intents -> Elabs]
    BY <1>1 DEF Worlds, RecordsT, SessionT
  <2>2. g[1] \in Intents
    <3>1. g \in (Joined \cup Opened) \X (Joined \cup Opened)
      BY <1>3, <2>1, CurationAssumption DEF Covers
    <3>2. g[1] \in Joined \cup Opened
      BY <3>1
    <3> QED BY <3>2 DEF Intents
  <2>3. e \in ElabT /\ e.cites = {}
    BY <2>1 DEF Elaboration, ElabT
  <2>4. Gather(h) = Wrote(h, v)
    BY <1>1, <1>3, <2>2 DEF Gather
  <2>5. v.r.stands = w.r.stands /\ v.r.cites = w.r.cites
    BY <1>1 DEF Worlds, RecordsT
  <2> HIDE DEF g, e, q
  <2>6. Append(q, e) \in Elabs
    BY <1>3, <2>1, <2>2, <2>3, ElabAdded DEF q
  <2>7. Wrote(h, v) \in Hist(c)
    <3> DEFINE grown == Append(q, e)
    <3> HIDE DEF grown
    <3>1. Wrote(h, [Last(h) EXCEPT !.r.elabs[g[1]] = grown]) \in Hist(c)
      BY <2>2, <2>6, ElabsPut DEF grown
    <3> QED BY <3>1 DEF grown
  <2>8. Last(Wrote(h, v)) = v
    <3> HIDE DEF v
    <3>1. Len(h) \in Nat \ {0} /\ h \in Seq(Fit(c.known, c.was, c.each))
      BY LastIs DEF Hist
    <3> QED BY <3>1 DEF Wrote, Last
  <2> QED BY <2>4, <2>5, <2>7, <2>8
<1> HIDE DEF g, q
<1> QED BY <1>2, <1>3

\* Every join of the files is an intent afterwards, and it cites what joined.
LEMMA ProposeIntentsKeeps ==
  ASSUME NEW c \in Asked, NEW h \in Hist(c)
  PROVE  LET v == Last(ProposeIntents(h))
         IN  /\ ProposeIntents(h) \in Hist(c) /\ v.r.stands = Last(h).r.stands
             /\ \A i \in Intents :
                  v.r.cites[i] = Last(h).r.cites[i]
                     \cup {s \in Signals : Last(h).f.moves[s] = MoveTo("join", i)}
<1> DEFINE w == Last(h)
           joiners(i) == {s \in Signals : w.f.moves[s] = MoveTo("join", i)}
           lives == [i \in Intents |->
                       IF joiners(i) # {} /\ w.r.life[i] = "none" THEN "proposed" ELSE w.r.life[i]]
           cited == [i \in Intents |-> w.r.cites[i] \cup joiners(i)]
           v == [w EXCEPT !.r.life = lives, !.r.cites = cited]
<1>1. w \in Worlds /\ w \in Ends(c)
  BY LastIs
<1>2. /\ w.r.life \in [Intents -> Lives] /\ w.r.cites \in [Intents -> SUBSET Signals]
      /\ Answered(w)
  BY <1>1 DEF Worlds, RecordsT, Ends, Fit
<1>3. lives \in [Intents -> Lives] /\ cited \in [Intents -> SUBSET Signals]
  BY <1>2 DEF Lives
<1>4. ProposeIntents(h) = Wrote(h, v)
  BY DEF ProposeIntents
<1>5. \A i \in Intents : /\ w.r.life[i] # "none" => lives[i] = w.r.life[i]
                         /\ lives[i] = "none" => w.r.life[i] = "none" /\ cited[i] = w.r.cites[i]
                         /\ cited[i] = w.r.cites[i] \cup joiners(i)
  OBVIOUS
<1> HIDE DEF lives, cited, joiners
<1>6. /\ v \in Worlds /\ v.f = w.f /\ v.k = w.k /\ v.r.session = w.r.session
      /\ v.r.stands = w.r.stands /\ v.r.answer = w.r.answer
      /\ v.r.life = lives /\ v.r.cites = cited
  BY <1>1, <1>3 DEF Worlds, RecordsT
<1> HIDE DEF v
<1>7. Answered(v)
  BY <1>2, <1>5, <1>6 DEF Answered
<1>8. v \in Ends(c)
  BY <1>1, <1>5, <1>6, <1>7, EndsOn
<1> QED BY <1>4, <1>5, <1>6, <1>8, WroteKeeps DEF joiners

\* What record_moves files: a delivered move where there is one, and otherwise
\* what the checkout holds.
LEMMA MovesFiled ==
  ASSUME NEW c \in Asked, NEW h \in Hist(c),
         \A s \in Signals : LET m == Last(h).r.session.took[s] IN
            m.word = "attach" => m.to \in c.known
  PROVE  LET w == Last(h)
             took == w.r.session.took
             kept == [w.k EXCEPT !.moves = [s \in Signals |->
                        IF took[s] \notin {Unmoved, w.f.moves[s]} THEN took[s] ELSE @[s]]]
             filed == IF \A s \in Signals : took[s] \in {Unmoved, w.f.moves[s]} THEN h
                      ELSE Filed(h, kept)
             x == Last(filed)
         IN  /\ filed \in Hist(c) /\ SameRecords(w, x)
             /\ x.ok /\ w.k.moves = w.f.moves =>
                  \A s \in Signals :
                    x.f.moves[s] = IF took[s] # Unmoved THEN took[s] ELSE w.f.moves[s]
<1> DEFINE w == Last(h)
           took == w.r.session.took
           kept == [w.k EXCEPT !.moves = [s \in Signals |->
                      IF took[s] \notin {Unmoved, w.f.moves[s]} THEN took[s] ELSE @[s]]]
           none == \A s \in Signals : took[s] \in {Unmoved, w.f.moves[s]}
           filed == IF none THEN h ELSE Filed(h, kept)
           x == Last(filed)
<1>1. w \in Worlds /\ w \in Ends(c)
  BY LastIs
<1>2. took \in Standings /\ w.k \in FilesT /\ Attaches(w, c.known)
  BY <1>1 DEF Worlds, RecordsT, SessionT, Ends, Fit
<1>3. \A s \in Signals : took[s].word = "attach" => took[s].to \in c.known
  OBVIOUS
<1>4. CASE none
  <2>1. SameRecords(w, w)
    BY <1>1 DEF SameRecords, Worlds, RecordsT
  <2>2. \A s \in Signals : w.f.moves[s] = IF took[s] # Unmoved THEN took[s] ELSE w.f.moves[s]
    BY <1>4
  <2>3. filed = h /\ x = w
    BY <1>4
  <2> HIDE DEF filed, took, kept, none
  <2>4. x.f.moves = w.f.moves /\ filed \in Hist(c) /\ SameRecords(w, x)
    BY <2>1, <2>3
  <2> HIDE DEF x, w
  <2>5. \A s \in Signals : x.f.moves[s] = IF took[s] # Unmoved THEN took[s] ELSE w.f.moves[s]
    BY <2>2, <2>4
  <2> QED BY <2>4, <2>5 DEF x, filed, none, kept, took, w
<1>5. CASE ~ none
  <2> DEFINE y == Last(Filed(h, kept))
  <2> HIDE DEF took, w
  <2>1. kept \in FilesT
    BY <1>2 DEF FilesT, Standings
  <2>2. \A s \in Signals :
          kept.moves[s] = IF took[s] \notin {Unmoved, w.f.moves[s]} THEN took[s]
                          ELSE w.k.moves[s]
    BY <1>2 DEF FilesT
  <2> HIDE DEF kept
  <2>3. \A s \in Signals : kept.moves[s].word = "attach" =>
          kept.moves[s].to \in c.known /\ w.r.life[kept.moves[s].to] # "none"
    BY <1>2, <1>3, <2>2 DEF Attaches, took
  <2>4. /\ Filed(h, kept) \in Hist(c) /\ SameRecords(w, y)
        /\ w.up => y.f = kept
        /\ ~ w.up => ~ y.ok
    BY <2>1, <2>3, FiledKeeps DEF w
  <2> HIDE DEF y
  <2>5. w.up \in BOOLEAN
    BY <1>1 DEF Worlds
  <2>6. y.ok /\ w.k.moves = w.f.moves =>
          \A s \in Signals : y.f.moves[s] = IF took[s] # Unmoved THEN took[s] ELSE w.f.moves[s]
    BY <2>2, <2>4, <2>5
  <2> HIDE DEF none
  <2> QED BY <1>5, <2>4, <2>6 DEF y, none, kept, took, w
<1> QED BY <1>4, <1>5

\* What a world tells of its marks since another: each is a move of its files,
\* one of those given, and where it goes to what was an intent it is cited.
MarksOf(w, v) ==
  \A s \in Signals : LET m == v.r.stands[s] IN
    m # w.r.stands[s] =>
      /\ m = v.f.moves[s] /\ m \in {w.f.moves[s], w.r.session.took[s]}
      /\ m.word \in {"join", "attach"} /\ w.r.life[m.to] # "none" => s \in v.r.cites[m.to]

LEMMA RecordMovesKeeps ==
  ASSUME NEW c \in Asked, ~ c.last, NEW h \in Hist(c),
         \A s \in Signals : LET m == Last(h).r.session.took[s] IN
            m.word = "attach" => m.to \in c.known
  PROVE  /\ RecordMoves(h) \in Hist(c)
         /\ Last(h).k.moves = Last(h).f.moves => MarksOf(Last(h), Last(RecordMoves(h)))
<1> DEFINE w == Last(h)
           took == w.r.session.took
           F == w.f.moves
           kept == [w.k EXCEPT !.moves = [s \in Signals |->
                      IF took[s] \notin {Unmoved, w.f.moves[s]} THEN took[s] ELSE @[s]]]
           filed == IF \A s \in Signals : took[s] \in {Unmoved, w.f.moves[s]} THEN h
                    ELSE Filed(h, kept)
           x == Last(filed)
           once == AppliedAll(filed, F)
           twice == AppliedAll(once, took)
           y == Last(once)
           z == Last(twice)
           moving(moves) == {s \in Signals : moves[s] # Unmoved}
<1>1. w \in Worlds
  BY LastIs
<1>2. took \in Standings /\ F \in Standings
  BY <1>1 DEF Worlds, FilesT, RecordsT, SessionT
<1>3. /\ filed \in Hist(c) /\ SameRecords(w, x)
      /\ x.ok /\ w.k.moves = w.f.moves =>
           \A s \in Signals : x.f.moves[s] = IF took[s] # Unmoved THEN took[s] ELSE w.f.moves[s]
  BY MovesFiled
<1>4. RecordMoves(h) = IF ~ x.ok THEN filed ELSE twice
  BY DEF RecordMoves
<1> HIDE DEF filed, w, took, F
<1>5. x \in Worlds
  BY <1>3, LastIs
<1>6. once \in Hist(c) /\ Spread(x, y, moving(F), F)
  BY <1>2, <1>3, AppliedAllKeeps
<1>7. y \in Worlds
  BY <1>6, LastIs
<1> HIDE DEF once
<1>8. twice \in Hist(c) /\ Spread(y, z, moving(took), took)
  BY <1>2, <1>6, AppliedAllKeeps
<1> HIDE DEF twice
<1>9. z \in Worlds
  BY <1>8, LastIs
<1> HIDE DEF x, y, z
<1>10. /\ x.r.stands = w.r.stands /\ x.r.life = w.r.life /\ x.r.cites = w.r.cites
       /\ x.r.signals = w.r.signals
  BY <1>1, <1>3, <1>5 DEF SameRecords, Worlds, RecordsT
<1>11. y.r.life = w.r.life /\ y.r.signals = w.r.signals
  BY <1>6, <1>5, <1>10 DEF Spread, Worlds, RecordsT
<1>12. z.f = x.f
  BY <1>6, <1>8 DEF Spread
<1>13. ASSUME x.ok, w.k.moves = F PROVE MarksOf(w, z)
  <2> SUFFICES ASSUME NEW s \in Signals, z.r.stands[s] # w.r.stands[s]
               PROVE  LET m == z.r.stands[s] IN
                      /\ m = z.f.moves[s] /\ m \in {F[s], took[s]}
                      /\ m.word \in {"join", "attach"} /\ w.r.life[m.to] # "none"
                           => s \in z.r.cites[m.to]
    BY DEF MarksOf, F, took
  <2> DEFINE m == z.r.stands[s]
  <2>1. x.f.moves[s] = IF took[s] # Unmoved THEN took[s] ELSE F[s]
    BY <1>3, <1>13 DEF F
  <2>2. y.r.stands[s] = IF s \in moving(F) /\ s \in w.r.signals THEN F[s] ELSE w.r.stands[s]
    BY <1>6, <1>10 DEF Spread
  <2>3. m = IF s \in moving(took) /\ s \in w.r.signals THEN took[s] ELSE y.r.stands[s]
    BY <1>8, <1>11 DEF Spread
  <2>4. CASE s \in moving(took)
    <3>1. s \in w.r.signals /\ m = took[s]
      BY <2>2, <2>3, <2>4
    <3>2. m.word \in {"join", "attach"} /\ w.r.life[m.to] # "none" => s \in z.r.cites[m.to]
      BY <1>8, <1>11, <2>4, <3>1 DEF Spread
    <3> QED BY <1>12, <2>1, <2>4, <3>1, <3>2
  <2>5. CASE s \notin moving(took)
    <3>1. s \in w.r.signals /\ m = F[s] /\ s \in moving(F)
      BY <2>2, <2>3, <2>5
    <3>2. ASSUME m.word \in {"join", "attach"}, w.r.life[m.to] # "none"
          PROVE  s \in z.r.cites[m.to]
      <4>1. s \in y.r.cites[m.to]
        BY <1>6, <1>10, <3>1, <3>2 DEF Spread
      <4>2. m.to \in Intents
        BY <1>2, <3>1, <3>2, WhereMoved DEF Standings
      <4> QED BY <1>8, <4>1, <4>2 DEF Spread
    <3> QED BY <1>12, <2>1, <2>5, <3>1, <3>2
  <2> QED BY <2>4, <2>5
<1>14. ASSUME ~ x.ok PROVE MarksOf(w, x)
  BY <1>10 DEF MarksOf
<1> QED BY <1>3, <1>4, <1>8, <1>13, <1>14 DEF w, x, z, F

\* A pass carries out what was delivered, of a plan made of the same moves,
\* intents and session.
LEMMA CarriedKeeps ==
  ASSUME NEW c \in Asked, ~ c.last, NEW h \in Hist(c), NEW planned \in Worlds,
         c.was = Last(h).r.stands, planned.r.session = Last(h).r.session,
         planned.r.life = Last(h).r.life,
         \A s \in Signals : LET m == planned.r.session.took[s] IN
            m.word = "attach" => m.to \in c.known
  PROVE  /\ Carried(h, planned) \in Hist(c)
         /\ Last(h).k.moves = Last(h).f.moves /\ planned.f.moves = Last(h).f.moves
              => Marked(Last(Carried(h, planned)), c.was)
<1> DEFINE w == Last(h)
           moved == IF MovesRecorded(planned) THEN h ELSE RecordMoves(h)
           proposed == IF IntentsProposed(planned) THEN moved ELSE ProposeIntents(moved)
           v == Last(moved)
           u == Last(proposed)
           z == Last(Gather(Afresh(proposed)))
<1>1. w \in Worlds /\ w \in Ends(c)
  BY LastIs
<1>2. moved \in Hist(c) /\ (w.k.moves = w.f.moves => MarksOf(w, v))
  <2>1. MarksOf(w, w)
    BY DEF MarksOf
  <2> HIDE DEF w
  <2> QED BY <2>1, RecordMovesKeeps DEF w
<1> HIDE DEF moved
<1>3. v \in Worlds
  BY <1>2, LastIs
<1>4. /\ proposed \in Hist(c) /\ u.r.stands = v.r.stands
      /\ \A i \in Intents : v.r.cites[i] \subseteq u.r.cites[i]
      /\ ~ IntentsProposed(planned) =>
           \A i \in Intents : \A s \in Signals :
             v.f.moves[s] = MoveTo("join", i) => s \in u.r.cites[i]
  BY <1>2, ProposeIntentsKeeps
<1> HIDE DEF proposed
<1>5. Afresh(proposed) \in Hist(c) /\ Last(Afresh(proposed)).r = u.r
  <2>1. u \in Worlds
    BY <1>4, LastIs
  <2> QED BY <1>4, <2>1, AfreshKeeps DEF Worlds
<1>6. /\ Gather(Afresh(proposed)) \in Hist(c)
      /\ z.r.stands = u.r.stands /\ z.r.cites = u.r.cites
  BY <1>5, GatherKeeps
<1>7. Carried(h, planned) = Gather(Afresh(proposed))
  BY DEF Carried, proposed, moved
<1> HIDE DEF v, u, z
<1>8. ASSUME w.k.moves = w.f.moves, planned.f.moves = w.f.moves PROVE Marked(z, c.was)
  <2> SUFFICES ASSUME NEW s \in Signals, v.r.stands[s] # c.was[s],
                      v.r.stands[s].word \in {"join", "attach"}
               PROVE  s \in u.r.cites[v.r.stands[s].to]
    BY <1>4, <1>6 DEF Marked
  <2> DEFINE m == v.r.stands[s]
  <2>1. m = v.f.moves[s] /\ m \in {w.f.moves[s], w.r.session.took[s]}
        /\ (w.r.life[m.to] # "none" => s \in v.r.cites[m.to])
    BY <1>2, <1>8 DEF MarksOf
  <2>2. m \in Standing
    BY <1>3 DEF Worlds, RecordsT, Standings
  <2>3. m.to \in Intents
    BY <2>2, WhereMoved
  <2>4. CASE w.r.life[m.to] # "none"
    BY <1>4, <2>1, <2>3, <2>4
  <2>5. CASE w.r.life[m.to] = "none"
    <3>1. m.word = "join"
      <4>1. Attaches(w, c.known)
        BY <1>1 DEF Ends, Fit
      <4> QED BY <2>1, <2>5, <4>1 DEF Attaches
    <3>2. m = MoveTo("join", m.to)
      BY <2>2, <3>1 DEF Standing, Moves, MoveTo, Unmoved
    <3>3. ~ IntentsProposed(planned)
      BY <1>8, <2>1, <2>5, <3>1 DEF IntentsProposed, w
    <3> QED BY <1>4, <2>1, <2>3, <3>2, <3>3
  <2> QED BY <2>4, <2>5
<1> QED BY <1>6, <1>7, <1>8 DEF w, z

LEMMA CurationStepKeeps ==
  ASSUME NEW c \in Asked, ~ c.last, NEW h \in Hist(c), NEW planned \in Worlds, NEW due,
         Calm(planned, Last(h)), c.was = planned.r.stands,
         \A s \in Signals : LET m == planned.r.session.took[s] IN
            m.word = "attach" => m.to \in c.known
  PROVE  /\ CurationStep(h, planned, due) \in Hist(c)
         /\ planned.k.moves = planned.f.moves
              => Marked(Last(CurationStep(h, planned, due)), c.was)
<1> DEFINE run == planned.r.run
           session == planned.r.session
           opened == [Last(h) EXCEPT !.r.run = "running", !.r.runs = @ + 1,
                                     !.r.session = Charged(NoSession)]
           let == [Last(h) EXCEPT !.r.session = NoSession]
           Good(g) == /\ g \in Hist(c)
                      /\ planned.k.moves = planned.f.moves => Marked(Last(g), c.was)
<1>1. CurationStep(h, planned, due)
        \in {g \in {Wrote(h, opened)} : planned.r.runs < MaxRuns}
              \cup {RecordDeliveries(h), Carried(RunTo(h, "applying"), planned),
                    RunTo(h, "failed"), RunTo(Wrote(h, let), "idle"), h}
  BY DEF CurationStep
<1>2. ASSUME NEW g \in Hist(c), Last(g).r.stands = planned.r.stands PROVE Good(g)
  BY <1>2 DEF Marked
<1>3. Last(h).r.stands = planned.r.stands
  BY DEF Calm
<1>4. ASSUME planned.r.runs < MaxRuns PROVE Good(Wrote(h, opened))
  <2>1. Last(h).r.runs < MaxRuns
    BY <1>4 DEF Calm
  <2>2. opened \in Ends(c) /\ opened.r.stands = Last(h).r.stands
    BY <2>1, RunOpens
  <2> HIDE DEF opened
  <2>3. Wrote(h, opened) \in Hist(c) /\ Last(Wrote(h, opened)) = opened
    BY <2>2, WroteKeeps
  <2> QED BY <1>2, <1>3, <2>2, <2>3
<1>5. Good(RecordDeliveries(h))
  BY <1>2, <1>3, RecordDeliveriesKeeps
<1>6. Good(RunTo(h, "failed"))
  <2>1. RunTo(h, "failed") \in Hist(c) /\ Calm(Last(h), Last(RunTo(h, "failed")))
    BY RunToKeeps
  <2> QED BY <1>2, <1>3, <2>1 DEF Calm
<1>7. Good(RunTo(Wrote(h, let), "idle"))
  <2>1. Last(h) \in Ends(c) /\ Last(h) \in Worlds
    BY LastIs
  <2>2. let \in Ends(c) /\ let.r = [Last(h).r EXCEPT !.session = NoSession]
    BY <2>1, NoMovesMade, SessionPut
  <2>3. let.r.stands = Last(h).r.stands
    BY <2>1, <2>2 DEF Worlds, RecordsT
  <2> HIDE DEF let
  <2>4. Wrote(h, let) \in Hist(c) /\ Last(Wrote(h, let)) = let
    BY <2>2, WroteKeeps
  <2>5. /\ RunTo(Wrote(h, let), "idle") \in Hist(c)
        /\ Calm(let, Last(RunTo(Wrote(h, let), "idle")))
    BY <2>4, RunToKeeps
  <2> QED BY <1>2, <1>3, <2>3, <2>5 DEF Calm
<1>8. Good(Carried(RunTo(h, "applying"), planned))
  <2> DEFINE g == RunTo(h, "applying")
  <2>1. g \in Hist(c) /\ Calm(Last(h), Last(g))
    BY RunToKeeps
  <2> HIDE DEF g
  <2>2. Calm(planned, Last(g))
    BY <2>1, CalmOn
  <2>3. /\ Carried(g, planned) \in Hist(c)
        /\ Last(g).k.moves = Last(g).f.moves /\ planned.f.moves = Last(g).f.moves
             => Marked(Last(Carried(g, planned)), c.was)
    <3>1. /\ c.was = Last(g).r.stands /\ planned.r.session = Last(g).r.session
          /\ planned.r.life = Last(g).r.life
      BY <2>2 DEF Calm
    <3> QED BY <2>1, <3>1, CarriedKeeps
  <2>4. planned.k.moves = planned.f.moves =>
          Last(g).k.moves = Last(g).f.moves /\ planned.f.moves = Last(g).f.moves
    BY <2>2 DEF Calm
  <2> QED BY <2>3, <2>4 DEF g
<1>9. Good(h)
  BY <1>2, <1>3
<1> HIDE DEF Good
<1>10. Good(CurationStep(h, planned, due))
  <2> HIDE DEF opened, let
  <2> QED BY <1>1, <1>4, <1>5, <1>6, <1>7, <1>8, <1>9
<1> QED BY <1>10 DEF Good

-----------------------------------------------------------------------------
(* What always holds                                                        *)

\* The inductive invariant.  That no move attaches to what is no intent is what
\* a mark needs to be cited at once; that what is no intent yet cites nothing is
\* what lets the parts of a split take their shares.
CurationInv ==
  /\ World(TRUE) \in Fit(Intents, NoMoves, FALSE)
  /\ hands \in 0..MaxHands /\ faults \in 0..MaxFaults

Living == {i \in Intents : records.life[i] # "none"}

\* Of a pass: it may be stopped anywhere, and keeps the files alone, so nothing
\* is ever attached to what was no intent when it started.
PassAsked == [known |-> Living, alive |-> Living, was |-> records.stands,
              each |-> FALSE, last |-> FALSE]

\* Of a call: wherever it is stopped its records are kept.
CallAsked(alive) == [known |-> Intents, alive |-> alive, was |-> records.stands,
                     each |-> TRUE, last |-> TRUE]

LEMMA WorldIs ==
  ASSUME CurationInv, NEW up \in BOOLEAN
  PROVE  /\ World(up) \in Worlds /\ Attaches(World(up), Living) /\ Answered(World(up))
         /\ files \in FilesT /\ checkout \in FilesT /\ records \in RecordsT
<1>1. World(TRUE) \in Worlds /\ Attaches(World(TRUE), Intents) /\ Answered(World(TRUE))
  BY DEF CurationInv, Fit
<1>2. World(TRUE).f = files /\ World(TRUE).k = checkout /\ World(TRUE).r = records
  BY DEF World
<1>3. files \in FilesT /\ checkout \in FilesT /\ records \in RecordsT
  BY <1>1, <1>2 DEF Worlds
<1>4. World(up) \in Worlds
  BY <1>3 DEF World, Worlds
<1>5. Answered(World(up))
  BY <1>1 DEF World, Answered
<1>6. Attaches(World(up), Living)
  BY <1>1 DEF World, Attaches, Living
<1> QED BY <1>3, <1>4, <1>5, <1>6

LEMMA AskedOfThese ==
  ASSUME CurationInv, NEW alive \in SUBSET Intents
  PROVE  PassAsked \in Asked /\ CallAsked(alive) \in Asked
<1>1. records.stands \in Standings
  BY WorldIs DEF RecordsT
<1> QED BY <1>1 DEF PassAsked, CallAsked, Asked, Living

LEMMA OneIsSeq ==
  ASSUME NEW S, NEW w \in S
  PROVE  <<w>> \in Seq(S) /\ <<w>> # <<>> /\ Last(<<w>>) = w
BY DEF Last

LEMMA StartOfPass ==
  ASSUME CurationInv, NEW up \in BOOLEAN
  PROVE  <<World(up)>> \in Hist(PassAsked) /\ Last(<<World(up)>>) = World(up)
<1>1. World(up) \in Fit(Living, records.stands, FALSE)
  BY WorldIs DEF Fit
<1>2. \A i \in Living : World(up).r.life[i] # "none"
  BY DEF World, Living
<1>3. World(up) \in Ends(PassAsked)
  BY <1>1, <1>2 DEF Ends, PassAsked
<1>4. <<World(up)>> \in Seq(Fit(Living, records.stands, FALSE)) /\ <<World(up)>> # <<>>
      /\ Last(<<World(up)>>) = World(up)
  BY <1>1, OneIsSeq
<1> QED BY <1>3, <1>4 DEF Hist, PassAsked

LEMMA StartOfCall ==
  ASSUME CurationInv
  PROVE  /\ <<World(TRUE)>> \in Hist(CallAsked(Living))
         /\ Last(<<World(TRUE)>>) = World(TRUE) /\ World(TRUE) \in Ends(CallAsked(Living))
<1>1. World(TRUE) \in Fit(Intents, records.stands, TRUE)
  <2>1. Marked(World(TRUE), records.stands)
    BY DEF World, Marked
  <2>2. Attaches(World(TRUE), Intents)
    BY WorldIs DEF Attaches, Living
  <2> QED BY <2>1, <2>2, WorldIs DEF Fit
<1>2. \A i \in Living : World(TRUE).r.life[i] # "none"
  BY DEF World, Living
<1>3. World(TRUE) \in Ends(CallAsked(Living))
  BY <1>1, <1>2 DEF Ends, CallAsked
<1>4. <<World(TRUE)>> \in Seq(Fit(Intents, records.stands, TRUE)) /\ <<World(TRUE)>> # <<>>
      /\ Last(<<World(TRUE)>>) = World(TRUE)
  BY <1>1, OneIsSeq
<1> QED BY <1>3, <1>4 DEF Hist, CallAsked

\* A pass: of the histories that are asked of it, and where all was pushed its
\* last world has every new mark cited.
LEMMA PassKeeps ==
  ASSUME CurationInv, NEW due, NEW up \in BOOLEAN
  PROVE  /\ Pass(due, up) \in Hist(PassAsked)
         /\ checkout.moves = files.moves => Marked(Last(Pass(due, up)), records.stands)
<1> DEFINE c == PassAsked
           d == [c EXCEPT !.last = TRUE]
           w == World(up)
           captured == CapturesOf(w)
           fresh == Afresh(captured)
           curated == CurationStep(fresh, w, due)
           all == IntentsOf(curated, w)
<1>1. c \in Asked /\ c.last = FALSE /\ c.was = records.stands /\ c.known = Living
  BY AskedOfThese DEF PassAsked
<1>2. d \in Asked /\ d.last = TRUE /\ d.each = c.each /\ d.was = c.was /\ d.known = c.known
      /\ d.alive = c.alive
  BY <1>1 DEF Asked, PassAsked
<1>3. w \in Worlds /\ Attaches(w, Living) /\ w.f = files /\ w.k = checkout /\ w.r = records
  BY WorldIs DEF World
<1>4. <<w>> \in Hist(c)
  BY StartOfPass
<1>5. Pass(due, up) = all
  BY DEF Pass, CapturesOf, IntentsOf
<1> HIDE DEF w, c, d
<1>6. captured \in Hist(c) /\ Calm(w, Last(captured))
  BY <1>1, <1>4, CapturesKeep
<1> HIDE DEF captured
<1>7. fresh \in Hist(c) /\ Calm(w, Last(fresh))
  BY <1>1, <1>6, AfreshIsCalm, CalmOn
<1> HIDE DEF fresh
<1>8. /\ curated \in Hist(c)
      /\ w.k.moves = w.f.moves => Marked(Last(curated), c.was)
  <2>1. \A s \in Signals : LET m == w.r.session.took[s] IN m.word = "attach" => m.to \in c.known
    <3>1. \A s \in Signals : w.r.session.took[s] \in Standing
      BY <1>3 DEF Worlds, RecordsT, SessionT, Standings
    <3>2. \A m \in Standing : m.word = "attach" => m.to \in Intents
      BY WhereMoved
    <3> QED BY <1>1, <1>3, <3>1, <3>2 DEF Attaches, Living
  <2> QED BY <1>1, <1>3, <1>7, <2>1, CurationStepKeeps
<1> HIDE DEF curated
<1>9. all \in Hist(c)
  BY <1>1, <1>8, IntentsKeep
<1>10. ASSUME checkout.moves = files.moves PROVE Marked(Last(all), records.stands)
  <2>1. Last(curated) \in Ends(d)
    BY <1>1, <1>2, <1>3, <1>8, <1>10, LastIs DEF Ends, Fit
  <2>2. curated \in Hist(d)
    BY <1>2, <1>8, <2>1 DEF Hist
  <2>3. all \in Hist(d)
    BY <1>2, <2>2, IntentsKeep
  <2> HIDE DEF all
  <2>4. Last(all) \in Ends(d)
    BY <1>2, <2>3, LastIs
  <2> QED BY <1>1, <1>2, <2>4 DEF Ends, Fit
<1> QED BY <1>5, <1>9, <1>10 DEF c

\* The world of a step that lands, or is stopped, at a world that fits.
LEMMA FitLands ==
  ASSUME CurationInv, NEW known \in SUBSET Intents, NEW was, NEW tells \in BOOLEAN,
         NEW w \in Fit(known, was, tells),
         files' = w.f, checkout' = w.k, records' = w.r,
         hands' \in 0..MaxHands, faults' \in 0..MaxFaults
  PROVE  CurationInv'
<1> DEFINE v == World(TRUE)'
<1>1. v.f = w.f /\ v.k = w.k /\ v.r = w.r /\ v = [f |-> w.f, k |-> w.k, r |-> w.r, up |-> TRUE, ok |-> TRUE]
  BY DEF World
<1>2. w \in Worlds /\ Attaches(w, known) /\ Answered(w)
  BY DEF Fit
<1> HIDE DEF v
<1>3. v \in Worlds
  BY <1>1, <1>2 DEF Worlds
<1>4. Attaches(v, Intents) /\ Answered(v)
  BY <1>1, <1>2 DEF Attaches, Answered
<1>5. v \in Fit(Intents, NoMoves, FALSE)
  BY <1>3, <1>4 DEF Fit
<1> QED BY <1>5 DEF CurationInv, v

\* What a step marks is cited, in the terms of the property.
CitedNow ==
  checkout.moves = files.moves =>
    \A s \in Signals : LET m == records'.stands[s] IN
      m # records.stands[s] /\ m.word \in {"join", "attach"} => s \in records'.cites[m.to]

LEMMA MarkedLands ==
  ASSUME NEW w, Marked(w, records.stands), records' = w.r
  PROVE  CitedNow
BY DEF Marked, CitedNow

LEMMA OneMore ==
  ASSUME CurationInv
  PROVE  /\ hands < MaxHands /\ hands' = hands + 1 => hands' \in 0..MaxHands
         /\ hands' = hands => hands' \in 0..MaxHands
         /\ faults < MaxFaults /\ faults' = faults + 1 => faults' \in 0..MaxFaults
         /\ faults' = faults => faults' \in 0..MaxFaults
<1>1. MaxHands \in Nat /\ MaxFaults \in Nat
  BY CurationAssumption
<1> QED BY <1>1 DEF CurationInv

\* A call: every world of its history is marked as it should be.
LEMMA CallsKeep ==
  ASSUME CurationInv, NEW alive \in SUBSET Intents, NEW h \in Hist(CallAsked(alive)),
         Calls(h), hands' \in 0..MaxHands
  PROVE  CurationInv' /\ CitedNow
<1> DEFINE S == Fit(Intents, records.stands, TRUE)
<1>1. h \in Seq(S) /\ h # <<>>
  BY DEF Hist, CallAsked
<1>2. PICK w \in S : files' = w.f /\ checkout' = w.k /\ records' = w.r
  <2> HIDE DEF S
  <2>1. CASE Lands(h)
    <3>1. Last(h) \in S
      BY <1>1 DEF Last
    <3> QED BY <2>1, <3>1 DEF Lands
  <2>2. CASE CallStops(h)
    <3>1. PICK k \in 2..(Len(h) - 1) : files' = h[k].f /\ checkout' = h[k].k /\ records' = h[k].r
      BY <2>2 DEF CallStops
    <3>2. h[k] \in S
      BY <1>1, <3>1
    <3> QED BY <3>1, <3>2
  <2> QED BY <2>1, <2>2 DEF Calls
<1>3. faults' \in 0..MaxFaults
  BY OneMore DEF Calls, CallStops
<1>4. CurationInv'
  BY <1>2, <1>3, FitLands
<1>5. Marked(w, records.stands)
  BY <1>2 DEF Fit
<1> QED BY <1>2, <1>4, <1>5, MarkedLands

LEMMA HandKeeps ==
  ASSUME CurationInv, NEW alive \in SUBSET Intents, NEW h \in Hist(CallAsked(alive)), Hand(h)
  PROVE  CurationInv' /\ CitedNow
BY OneMore, CallsKeep DEF Hand

LEMMA StillCited ==
  ASSUME records'.stands = records.stands
  PROVE  CitedNow
BY DEF CitedNow

\* A pass that is stopped keeps the files of a point of its history.
LEMMA PassStopsKeeps ==
  ASSUME CurationInv, NEW h \in Hist(PassAsked), PassStops(h), UNCHANGED hands
  PROVE  CurationInv' /\ CitedNow
<1> DEFINE S == Fit(Living, records.stands, FALSE)
<1>1. h \in Seq(S)
  BY DEF Hist, PassAsked
<1>2. PICK k \in DOMAIN h : files' = h[k].f /\ checkout' = h[k].k
  BY DEF PassStops
<1>3. h[k] \in S
  <2> HIDE DEF S
  <2> QED BY <1>1, <1>2
<1> DEFINE w == h[k]
           v == [f |-> w.f, k |-> w.k, r |-> records, up |-> TRUE, ok |-> TRUE]
<1>4. w \in Worlds /\ Attaches(w, Living)
  BY <1>3 DEF Fit
<1> HIDE DEF w
<1>5. v \in Worlds /\ v.f = w.f /\ v.k = w.k /\ v.r = records
  BY <1>4, WorldIs DEF Worlds
<1> HIDE DEF v
<1>6. Answered(World(TRUE)) /\ Attaches(World(TRUE), Living) /\ World(TRUE).r = records
  BY WorldIs DEF World
<1>7. Answered(v)
  BY <1>5, <1>6 DEF Answered
<1>8. Attaches(v, Living)
  BY <1>4, <1>5, <1>6 DEF Attaches, Living
<1>9. v \in Fit(Living, records.stands, FALSE)
  BY <1>5, <1>7, <1>8 DEF Fit
<1>10. hands' \in 0..MaxHands /\ faults' \in 0..MaxFaults /\ records' = records
  BY OneMore DEF PassStops
<1>11. Living \in SUBSET Intents
  BY DEF Living
<1>12. files' = v.f /\ checkout' = v.k /\ records' = v.r
  BY <1>2, <1>5, <1>10 DEF w
<1> QED BY <1>9, <1>10, <1>11, <1>12, FitLands, StillCited

LEMMA PassStep ==
  ASSUME CurationInv, NEW due,
         PassLands(due) \/ PassCut(due) \/ PassInOutage(due)
  PROVE  CurationInv' /\ CitedNow
<1>1. ASSUME NEW up \in BOOLEAN, Lands(Pass(due, up)),
             hands' \in 0..MaxHands, faults' \in 0..MaxFaults
      PROVE  CurationInv' /\ CitedNow
  <2> DEFINE w == Last(Pass(due, up))
  <2>1. Pass(due, up) \in Hist(PassAsked)
    BY PassKeeps
  <2>2. w \in Fit(Living, records.stands, FALSE)
    BY <2>1 DEF Hist, Ends, PassAsked
  <2>3. checkout.moves = files.moves => Marked(w, records.stands)
    BY PassKeeps
  <2>4. files' = w.f /\ checkout' = w.k /\ records' = w.r
    BY <1>1 DEF Lands
  <2>5. Living \in SUBSET Intents
    BY DEF Living
  <2> HIDE DEF w
  <2>6. CurationInv'
    BY <1>1, <2>2, <2>4, <2>5, FitLands
  <2>7. CitedNow
    BY <2>3, <2>4, MarkedLands DEF CitedNow
  <2> QED BY <2>6, <2>7
<1>2. CASE PassLands(due)
  BY <1>1, <1>2, OneMore DEF PassLands
<1>3. CASE PassCut(due)
  BY <1>3, PassKeeps, PassStopsKeeps DEF PassCut
<1>4. CASE PassInOutage(due)
  BY <1>1, <1>4, OneMore DEF PassInOutage
<1> QED BY <1>2, <1>3, <1>4

-----------------------------------------------------------------------------
(* What sessions report                                                     *)

\* A report of what is asked of nothing: the intents, citations, marks and what
\* was taken are as they were.
LEMMA ReportKeeps ==
  ASSUME CurationInv, NEW r \in RecordsT, Reports(r),
         r.session.took = records.session.took, r.life = records.life,
         r.stands = records.stands, r.cites = records.cites,
         \A i \in Intents : r.answer[i] # "none" => r.life[i] = "proposed"
  PROVE  CurationInv' /\ CitedNow
<1> DEFINE w == World(TRUE)
           v == [w EXCEPT !.r = r]
           c == CallAsked(Living)
<1>1. /\ w \in Worlds /\ w \in Ends(c) /\ w.f = files /\ w.k = checkout /\ w.r = records
      /\ Answered(w)
  BY WorldIs, StartOfCall DEF World
<1>2. c \in Asked
  BY AskedOfThese DEF Living
<1>3. v \in Worlds /\ v.f = w.f /\ v.k = w.k /\ v.r = r
  BY <1>1 DEF Worlds
<1> HIDE DEF v, c, w
<1>4. Answered(v)
  BY <1>1, <1>3 DEF Answered
<1>5. v \in Ends(c)
  BY <1>1, <1>2, <1>3, <1>4, EndsOn
<1>6. v \in Fit(Intents, records.stands, TRUE)
  BY <1>5 DEF Ends, c, CallAsked
<1>7. /\ files' = v.f /\ checkout' = v.k /\ records' = v.r
      /\ hands' \in 0..MaxHands /\ faults' \in 0..MaxFaults
  BY <1>1, <1>3, OneMore DEF Reports
<1>8. CurationInv'
  BY <1>6, <1>7, FitLands
<1> QED BY <1>3, <1>7, <1>8, StillCited

LEMMA ReaderReports ==
  ASSUME CurationInv, NEW p \in Captures, NEW reader \in ReaderT,
         Reports([records EXCEPT !.reader[p] = reader])
  PROVE  CurationInv' /\ CitedNow
<1> DEFINE r == [records EXCEPT !.reader[p] = reader]
<1>1. records \in RecordsT /\ Answered(World(TRUE)) /\ World(TRUE).r = records
  BY WorldIs DEF World
<1>2. /\ r \in RecordsT /\ r.session = records.session /\ r.life = records.life
      /\ r.stands = records.stands /\ r.cites = records.cites /\ r.answer = records.answer
  BY <1>1 DEF RecordsT
<1> HIDE DEF r
<1>3. \A i \in Intents : r.answer[i] # "none" => r.life[i] = "proposed"
  BY <1>1, <1>2 DEF Answered
<1>4. Reports(r)
  BY DEF r
<1> QED BY <1>2, <1>3, <1>4, ReportKeeps

LEMMA SessionReports ==
  ASSUME CurationInv, NEW session \in SessionT, session.took = records.session.took,
         Reports([records EXCEPT !.session = session])
  PROVE  CurationInv' /\ CitedNow
<1> DEFINE r == [records EXCEPT !.session = session]
<1>1. records \in RecordsT /\ Answered(World(TRUE)) /\ World(TRUE).r = records
  BY WorldIs DEF World
<1>2. /\ r \in RecordsT /\ r.session = session /\ r.life = records.life
      /\ r.stands = records.stands /\ r.cites = records.cites /\ r.answer = records.answer
  BY <1>1 DEF RecordsT
<1> HIDE DEF r
<1>3. \A i \in Intents : r.answer[i] # "none" => r.life[i] = "proposed"
  BY <1>1, <1>2 DEF Answered
<1>4. Reports(r)
  BY DEF r
<1> QED BY <1>2, <1>3, <1>4, ReportKeeps

LEMMA ReaderStep == ASSUME CurationInv, Reader PROVE CurationInv' /\ CitedNow
<1>1. PICK p \in Captures : \/ \E n \in 1..MaxRead : ReaderDelivers(p, n)
                            \/ ReaderOffers(p)
                            \/ \E kind \in {"done", "gone"} : ReaderExits(p, kind)
  BY DEF Reader
<1> DEFINE held == records.reader[p]
<1>2. records \in RecordsT /\ held \in ReaderT
  BY WorldIs DEF RecordsT
<1>3. ASSUME NEW n \in 1..MaxRead, ReaderDelivers(p, n) PROVE CurationInv' /\ CitedNow
  <2> DEFINE then == [held EXCEPT !.gave = n, !.parsed = FALSE]
  <2>1. then \in ReaderT
    <3>1. n \in 0..MaxRead
      BY BoundOnReads
    <3> HIDE DEF held
    <3> QED BY <1>2, <3>1 DEF ReaderT
  <2>2. [records EXCEPT !.reader[p].gave = n, !.reader[p].parsed = FALSE]
          = [records EXCEPT !.reader[p] = then]
    BY <1>2 DEF RecordsT
  <2> HIDE DEF then
  <2>3. Reports([records EXCEPT !.reader[p] = then])
    BY <1>3, <2>2 DEF ReaderDelivers
  <2> QED BY <2>1, <2>3, ReaderReports
<1>4. ASSUME ReaderOffers(p) PROVE CurationInv' /\ CitedNow
  <2> DEFINE then == [held EXCEPT !.offers = TRUE, !.offered = TRUE]
  <2>1. then \in ReaderT
    <3> HIDE DEF held
    <3> QED BY <1>2 DEF ReaderT
  <2>2. [records EXCEPT !.reader[p].offers = TRUE, !.reader[p].offered = TRUE]
          = [records EXCEPT !.reader[p] = then]
    BY <1>2 DEF RecordsT
  <2> HIDE DEF then
  <2>3. Reports([records EXCEPT !.reader[p] = then])
    BY <1>4, <2>2 DEF ReaderOffers
  <2> QED BY <2>1, <2>3, ReaderReports
<1>5. ASSUME NEW kind \in {"done", "gone"}, ReaderExits(p, kind) PROVE CurationInv' /\ CitedNow
  <2> DEFINE then == [held EXCEPT !.at = kind]
  <2>1. then \in ReaderT
    <3> HIDE DEF held
    <3> QED BY <1>2 DEF ReaderT
  <2>2. [records EXCEPT !.reader[p].at = kind] = [records EXCEPT !.reader[p] = then]
    BY <1>2 DEF RecordsT
  <2> HIDE DEF then
  <2>3. Reports([records EXCEPT !.reader[p] = then])
    BY <1>5, <2>2 DEF ReaderExits
  <2> QED BY <2>1, <2>3, ReaderReports
<1> QED BY <1>1, <1>3, <1>4, <1>5

\* What a curator moves to is an intent, or one that its joins make.
LEMMA CuratorMovesFit ==
  ASSUME NEW m \in CuratorMoves
  PROVE  m \in Standing /\ (m.word = "attach" => m.to \in Living)
BY CurationAssumption DEF CuratorMoves, MoveTo, Standing, Moves, Intents, Living

\* The curator surface: moves written one by one, and then the exit.
LEMMA PageCuratesStep ==
  ASSUME CurationInv, NEW named \in SUBSET files.signals, NEW m \in CuratorMoves,
         PageCurates(named, m)
  PROVE  CurationInv' /\ CitedNow
<1> DEFINE c == CallAsked(Living)
           start == World(TRUE)
           filed == WrittenAll(<<start>>, named, m)
           w == Last(filed)
           session == [w.r.session EXCEPT !.at = "done"]
           v == [w EXCEPT !.r.session.at = "done"]
           all == Wrote(filed, v)
<1>1. c \in Asked /\ c.known = Intents /\ c.alive = Living /\ Living \in SUBSET Intents
  BY AskedOfThese DEF CallAsked, Living
<1>2. <<start>> \in Hist(c)
  BY StartOfCall
<1>3. named \in SUBSET Signals
  BY WorldIs DEF FilesT
<1>4. IF CuratorAtWork THEN Calls(all) /\ UNCHANGED hands ELSE Hand(all)
  BY DEF PageCurates, WrittenAll
<1> HIDE DEF c, start
<1>5. filed \in Hist(c)
  BY <1>1, <1>2, <1>3, CuratorMovesFit, WriteMovesKeep
<1> HIDE DEF filed
<1>6. w \in Ends(c) /\ w \in Worlds
  BY <1>1, <1>5, LastIs
<1> HIDE DEF w
<1>7. w.r.session \in SessionT /\ Attaches(w, c.known)
  BY <1>6 DEF Worlds, RecordsT, Ends, Fit
<1>8. session \in SessionT /\ session.took = w.r.session.took
  BY <1>7 DEF SessionT
<1>9. v = [w EXCEPT !.r.session = session]
  BY <1>6 DEF Worlds, RecordsT
<1>10. \A s \in Signals : session.took[s].word = "attach" => w.r.life[session.took[s].to] # "none"
  BY <1>7, <1>8 DEF Attaches
<1> HIDE DEF session, v
<1>11. v \in Ends(c)
  BY <1>1, <1>6, <1>8, <1>9, <1>10, SessionPut
<1>12. all \in Hist(c)
  BY <1>1, <1>5, <1>11, WroteKeeps
<1> HIDE DEF all
<1>13. CASE CuratorAtWork
  BY <1>1, <1>4, <1>12, <1>13, OneMore, CallsKeep DEF c
<1>14. CASE ~ CuratorAtWork
  BY <1>1, <1>4, <1>12, <1>14, HandKeeps DEF c
<1> QED BY <1>13, <1>14

LEMMA CuratorStep == ASSUME CurationInv, Curator PROVE CurationInv' /\ CitedNow
<1> DEFINE held == records.session
<1>1. records \in RecordsT /\ held \in SessionT /\ files.signals \in SUBSET Signals
  BY WorldIs DEF RecordsT, FilesT
<1>2. ASSUME NEW named \in SUBSET files.signals, NEW m \in CuratorMoves,
             NEW g \in Gatherings \cup {<<>>}, CuratorDelivers(Given(named, m), g)
      PROVE  CurationInv' /\ CitedNow
  <2> DEFINE gave == Given(named, m)
             then == [held EXCEPT !.gave = gave, !.gathers = g, !.parsed = FALSE]
  <2>1. gave \in Standings
    <3>1. m \in Standing /\ Unmoved \in Standing
      BY CuratorMovesFit DEF Standing
    <3> QED BY <3>1 DEF Given, Standings
  <2>2. Reports([records EXCEPT !.session.gave = gave, !.session.gathers = g,
                                !.session.parsed = FALSE])
    BY <1>2 DEF CuratorDelivers
  <2> HIDE DEF gave
  <2>3. then \in SessionT /\ then.took = held.took
    <3> HIDE DEF held
    <3> QED BY <1>1, <2>1 DEF SessionT, Covers
  <2>4. [records EXCEPT !.session.gave = gave, !.session.gathers = g, !.session.parsed = FALSE]
          = [records EXCEPT !.session = then]
    BY <1>1 DEF RecordsT
  <2> HIDE DEF then
  <2>5. Reports([records EXCEPT !.session = then])
    BY <2>2, <2>4
  <2> QED BY <2>3, <2>5, SessionReports
<1>3. ASSUME NEW kind \in {"done", "gone"}, CuratorExits(kind) PROVE CurationInv' /\ CitedNow
  <2> DEFINE then == [held EXCEPT !.at = kind]
  <2>1. then \in SessionT /\ then.took = held.took
    <3> HIDE DEF held
    <3> QED BY <1>1 DEF SessionT
  <2>2. [records EXCEPT !.session.at = kind] = [records EXCEPT !.session = then]
    BY <1>1 DEF RecordsT
  <2> HIDE DEF then
  <2>3. Reports([records EXCEPT !.session = then])
    BY <1>3, <2>2 DEF CuratorExits
  <2> QED BY <2>1, <2>3, SessionReports
<1>4. ASSUME NEW named \in SUBSET files.signals, NEW m \in CuratorMoves, PageCurates(named, m)
      PROVE  CurationInv' /\ CitedNow
  BY <1>4, PageCuratesStep
<1> QED BY <1>2, <1>3, <1>4 DEF Curator

-----------------------------------------------------------------------------
(* The operator's hands, and what arrives                                   *)

LEMMA CapturedKeeps ==
  ASSUME NEW c \in Asked, NEW h \in Hist(c), NEW p \in Captures, NEW source \in Sources
  PROVE  Captured(h, p, source) \in Hist(c) /\ Last(Captured(h, p, source)).r.stands = Last(h).r.stands
<1> DEFINE w == Last(h)
           kept == [w.k EXCEPT !.captures = @ \cup {<<p, source>>}]
           filed == IF <<p, source>> \in w.f.captures THEN h ELSE Filed(h, kept)
           x == Last(filed)
           v == [x EXCEPT !.r.capture[p] = source]
<1>1. w \in Ends(c) /\ w \in Worlds
  BY LastIs
<1>2. w.k \in FilesT /\ Attaches(w, c.known)
  BY <1>1 DEF Worlds, Ends, Fit
<1> HIDE DEF w
<1>3. kept \in FilesT /\ kept.moves = w.k.moves
  BY <1>2 DEF FilesT
<1>4. \A s \in Signals : kept.moves[s].word = "attach" =>
        kept.moves[s].to \in c.known /\ w.r.life[kept.moves[s].to] # "none"
  BY <1>2, <1>3 DEF Attaches
<1> HIDE DEF kept
<1>5. filed \in Hist(c) /\ x.r.stands = w.r.stands
  <2>1. CASE <<p, source>> \in w.f.captures
    BY <2>1 DEF w
  <2>2. CASE <<p, source>> \notin w.f.captures
    <3> DEFINE y == Last(Filed(h, kept))
    <3>1. Filed(h, kept) \in Hist(c) /\ SameRecords(w, y)
      BY <1>3, <1>4, FiledKeeps DEF w
    <3> HIDE DEF y
    <3>2. y.r.stands = w.r.stands
      BY <1>1, <3>1 DEF SameRecords, Worlds, RecordsT
    <3> QED BY <2>2, <3>1, <3>2 DEF y
  <2> QED BY <2>1, <2>2
<1> HIDE DEF filed
<1>6. x \in Ends(c) /\ x \in Worlds
  BY <1>5, LastIs
<1>7. v \in Worlds /\ Calm(x, v) /\ v.f = x.f
  BY <1>6 DEF Worlds, RecordsT, Calm
<1>8. Captured(h, p, source) = Wrote(filed, v)
  BY DEF Captured, filed, kept, w
<1> HIDE DEF v
<1>9. Wrote(filed, v) \in Hist(c) /\ Last(Wrote(filed, v)) = v
  BY <1>5, <1>7, CalmWrites
<1> QED BY <1>5, <1>7, <1>8, <1>9 DEF Calm, w

LEMMA CaptureByHandStep ==
  ASSUME CurationInv, NEW p \in Captures, NEW forwarded \in BOOLEAN, CaptureByHand(p, forwarded)
  PROVE  CurationInv' /\ CitedNow
<1> DEFINE c == CallAsked(Living)
           kept == Captured(<<World(TRUE)>>, p, "own")
           all == IF forwarded THEN kept ELSE EnsureSignal(kept, p)
<1>1. c \in Asked /\ Living \in SUBSET Intents
  BY AskedOfThese DEF Living
<1>2. <<World(TRUE)>> \in Hist(c)
  BY StartOfCall
<1> HIDE DEF c
<1>3. kept \in Hist(c)
  BY <1>1, <1>2, CapturedKeeps DEF Sources
<1> HIDE DEF kept
<1>4. all \in Hist(c)
  BY <1>1, <1>3, EnsureSignalKeeps
<1>5. Calls(all) /\ UNCHANGED hands
  BY DEF CaptureByHand, kept
<1> HIDE DEF all
<1> QED BY <1>1, <1>4, <1>5, OneMore, CallsKeep DEF c

LEMMA AdaptsStep ==
  ASSUME CurationInv, NEW p \in Captures, Adapts(p)
  PROVE  CurationInv' /\ CitedNow
<1> DEFINE all == Captured(<<World(TRUE)>>, p, "captured")
           w == Last(all)
<1>1. PassAsked \in Asked /\ <<World(TRUE)>> \in Hist(PassAsked)
      /\ Last(<<World(TRUE)>>).r.stands = records.stands
  <2>1. World(TRUE).r = records
    BY DEF World
  <2>2. PassAsked \in Asked
    BY AskedOfThese, {} \in SUBSET Intents
  <2> QED BY <2>1, <2>2, StartOfPass
<1>2. all \in Hist(PassAsked) /\ w.r.stands = records.stands
  BY <1>1, CapturedKeeps DEF Sources
<1>3. ((Lands(all) /\ UNCHANGED faults) \/ PassStops(all)) /\ UNCHANGED hands
  BY DEF Adapts
<1> HIDE DEF all
<1>4. CASE Lands(all) /\ UNCHANGED faults
  <2>1. w \in Fit(Living, records.stands, FALSE)
    BY <1>2 DEF Hist, Ends, PassAsked
  <2>2. files' = w.f /\ checkout' = w.k /\ records' = w.r
    BY <1>4 DEF Lands
  <2>3. Living \in SUBSET Intents
    BY DEF Living
  <2>4. hands' \in 0..MaxHands /\ faults' \in 0..MaxFaults
    BY <1>3, <1>4, OneMore
  <2> HIDE DEF w
  <2>5. CurationInv'
    BY <2>1, <2>2, <2>3, <2>4, FitLands
  <2> QED BY <1>2, <2>2, <2>5, StillCited
<1>5. CASE PassStops(all)
  BY <1>2, <1>3, <1>5, PassStopsKeeps
<1> QED BY <1>3, <1>4, <1>5

\* open-intent: the intent is there before any signal is attached to it.
LEMMA OpenIntentStep ==
  ASSUME CurationInv, NEW p \in Captures, NEW i \in Opened, OpenIntent(p, i)
  PROVE  CurationInv' /\ CitedNow
<1> DEFINE c == CallAsked(Living)
           d == CallAsked(Living \cup {i})
           w == World(TRUE)
           x == [w EXCEPT !.r.life[i] = "proposed"]
           y == [x EXCEPT !.r.life[i] = "open"]
           named == Wrote(<<w>>, x)
           open == Wrote(named, y)
           m == MoveTo("attach", i)
           all == MadeAll(open, UnmovedOf(p), m)
<1>1. i \in Intents /\ Living \in SUBSET Intents
  BY DEF Intents, Living
<1>2. c \in Asked /\ d \in Asked /\ d.known = Intents /\ d.alive = Living \cup {i}
  BY <1>1, AskedOfThese DEF CallAsked
<1>3. <<w>> \in Hist(c) /\ w \in Ends(c) /\ w \in Worlds /\ w.r = records /\ Answered(w)
  BY StartOfCall, WorldIs DEF World
<1>4. records.life[i] = "none" /\ Hand(all)
  <2>1. Last(named) = x
    <3> HIDE DEF w, x
    <3>1. <<w>> \in Seq({w, x}) /\ Last(<<w>>) = w
      BY OneIsSeq
    <3> QED BY <3>1 DEF Wrote, Last
  <2> QED BY <2>1 DEF OpenIntent, MadeAll
<1>5. /\ x \in Worlds /\ x.f = w.f /\ x.k = w.k /\ x.r.session = w.r.session
      /\ x.r.stands = w.r.stands /\ x.r.answer = w.r.answer /\ x.r.cites = w.r.cites
      /\ x.r.life = [w.r.life EXCEPT ![i] = "proposed"]
  BY <1>3 DEF Worlds, RecordsT, Lives
<1> HIDE DEF w
<1>6. /\ w.r.life \in [Intents -> Lives] /\ w.r.answer \in [Intents -> Answers]
      /\ w.r.answer[i] = "none"
  BY <1>1, <1>3, <1>4 DEF Worlds, RecordsT, Answered, Answers
<1>7. x \in Ends(c)
  <2>1. Answered(x)
    BY <1>3, <1>5, <1>6 DEF Answered
  <2>2. \A j \in Intents : w.r.life[j] # "none" => x.r.life[j] # "none"
    BY <1>5, <1>6
  <2> HIDE DEF c, x
  <2> QED BY <1>2, <1>3, <1>5, <2>1, <2>2, EndsOn
<1> HIDE DEF x
<1>8. /\ y \in Worlds /\ y.f = w.f /\ y.k = w.k /\ y.r.session = w.r.session
      /\ y.r.stands = w.r.stands /\ y.r.answer = w.r.answer /\ y.r.cites = w.r.cites
      /\ y.r.life = [w.r.life EXCEPT ![i] = "open"]
  BY <1>5, <1>6 DEF Worlds, RecordsT, Lives
<1> HIDE DEF y
<1>9. y \in Ends(c) /\ y.r.life[i] # "none"
  <2>1. Answered(y)
    BY <1>3, <1>6, <1>8 DEF Answered
  <2>2. (\A j \in Intents : w.r.life[j] # "none" => y.r.life[j] # "none") /\ y.r.life[i] # "none"
    BY <1>1, <1>6, <1>8
  <2> HIDE DEF c
  <2> QED BY <1>2, <1>3, <1>8, <2>1, <2>2, EndsOn
<1>10. named \in Hist(c)
  <2> HIDE DEF c
  <2> QED BY <1>2, <1>3, <1>7, WroteKeeps
<1> HIDE DEF named
<1>11. open \in Hist(c) /\ Last(open) = y
  <2> HIDE DEF c
  <2> QED BY <1>2, <1>9, <1>10, WroteKeeps
<1>12. open \in Hist(d)
  BY <1>9, <1>11 DEF Hist, Ends, CallAsked
<1> HIDE DEF open
<1>13. m \in Standing /\ m.word = "attach" /\ m.to = i
  BY <1>1 DEF MoveTo, Standing, Moves
<1>14. UnmovedOf(p) \in SUBSET Signals
  BY WorldIs DEF UnmovedOf, FilesT, RecordsT
<1> HIDE DEF m, c, d
<1>15. all \in Hist(d)
  BY <1>1, <1>2, <1>12, <1>13, <1>14, ApplyMovesKeep
<1> HIDE DEF all
<1> QED BY <1>1, <1>4, <1>15, HandKeeps DEF d

LEMMA MoveByHandStep ==
  ASSUME CurationInv, NEW s \in Signals,
         NEW m \in {MoveTo(w, Nobody) : w \in Words} \cup {MoveTo("attach", i) : i \in Intents},
         MoveByHand(s, m)
  PROVE  CurationInv' /\ CitedNow
<1> DEFINE c == CallAsked(Living)
           h == <<World(TRUE)>>
<1>1. c \in Asked /\ c.known = Intents /\ Living \in SUBSET Intents
  BY AskedOfThese DEF CallAsked, Living
<1>2. h \in Hist(c) /\ Last(h).r = records
  BY StartOfCall DEF World
<1>3. m \in Standing /\ m.word # "join" /\ (m.word = "attach" => m.to \in Intents)
  BY CurationAssumption DEF MoveTo, Standing, Moves
<1>4. m.word = "attach" => Last(h).r.life[m.to] # "none"
  BY <1>2 DEF MoveByHand
<1>5. Hand(ApplyMove(h, s, m))
  BY DEF MoveByHand
<1> HIDE DEF c, h
<1>6. ApplyMove(h, s, m) \in Hist(c)
  BY <1>1, <1>2, <1>3, <1>4, ApplyMoveKeeps
<1> QED BY <1>1, <1>5, <1>6, HandKeeps DEF c

LEMMA ReviveStep ==
  ASSUME CurationInv, NEW s \in Signals, Revive(s)
  PROVE  CurationInv' /\ CitedNow
<1> DEFINE c == CallAsked(Living)
           cleared == WriteMove(<<World(TRUE)>>, s, Unmoved)
           w == Last(cleared)
           v == [w EXCEPT !.r.stands[s] = Unmoved]
           all == Wrote(cleared, v)
<1>1. c \in Asked /\ Living \in SUBSET Intents
  BY AskedOfThese DEF Living
<1>2. <<World(TRUE)>> \in Hist(c)
  BY StartOfCall
<1>3. Unmoved \in Standing /\ Unmoved.word = "none"
  BY DEF Standing, Unmoved
<1>4. Hand(all)
  BY DEF Revive
<1> HIDE DEF c
<1>5. cleared \in Hist(c)
  BY <1>1, <1>2, <1>3, WriteMoveKeeps
<1> HIDE DEF cleared
<1>6. w \in Ends(c) /\ w \in Worlds
  BY <1>1, <1>5, LastIs
<1> HIDE DEF w
<1>7. /\ v \in Worlds /\ v.f = w.f /\ v.k = w.k /\ v.r.session = w.r.session
      /\ v.r.life = w.r.life /\ v.r.answer = w.r.answer /\ v.r.cites = w.r.cites
      /\ v.r.stands = [w.r.stands EXCEPT ![s] = Unmoved]
  BY <1>3, <1>6 DEF Worlds, RecordsT, Standings
<1>8. w.r.stands \in [Signals -> Standing]
  BY <1>6 DEF Worlds, RecordsT, Standings
<1> HIDE DEF v
<1>9. v \in Ends(c)
  <2>1. /\ Attaches(w, c.known) /\ Answered(w) /\ (c.last => Marked(w, c.was))
        /\ \A i \in c.alive : w.r.life[i] # "none"
    BY <1>6 DEF Ends, Fit
  <2>2. Attaches(v, c.known) /\ Answered(v)
    BY <1>7, <2>1 DEF Attaches, Answered
  <2>3. c.last => Marked(v, c.was)
    BY <1>3, <1>7, <1>8, <2>1 DEF Marked
  <2> QED BY <1>7, <2>1, <2>2, <2>3 DEF Ends, Fit
<1>10. all \in Hist(c)
  BY <1>1, <1>5, <1>9, WroteKeeps
<1> HIDE DEF all
<1> QED BY <1>1, <1>4, <1>10, HandKeeps DEF c

LEMMA AnswerStep ==
  ASSUME CurationInv, NEW i \in Intents, NEW answer \in {"yes", "drop", "split"}, Answer(i, answer)
  PROVE  CurationInv' /\ CitedNow
<1> DEFINE r == [records EXCEPT !.answer[i] = answer]
<1>1. records \in RecordsT /\ Answered(World(TRUE)) /\ World(TRUE).r = records
  BY WorldIs DEF World
<1>2. /\ r \in RecordsT /\ r.session = records.session /\ r.life = records.life
      /\ r.stands = records.stands /\ r.cites = records.cites
      /\ r.answer = [records.answer EXCEPT ![i] = answer]
  BY <1>1 DEF RecordsT, Answers
<1>3. Reports(r) /\ records.life[i] = "proposed"
  BY DEF Answer
<1>4. records.answer \in [Intents -> Answers]
  BY <1>1 DEF RecordsT
<1> HIDE DEF r
<1>5. \A j \in Intents : r.answer[j] # "none" => r.life[j] = "proposed"
  BY <1>1, <1>2, <1>3, <1>4 DEF Answered
<1> QED BY <1>2, <1>3, <1>5, ReportKeeps

LEMMA ElaboratesStep ==
  ASSUME CurationInv, NEW i \in Intents, NEW k \in DOMAIN records.elabs[i],
         NEW to \in {"working", "done"}, Elaborates(i, k, to)
  PROVE  CurationInv' /\ CitedNow
<1> DEFINE q == records.elabs[i]
           e == [q[k] EXCEPT !.at = to]
           p == [q EXCEPT ![k] = e]
           r == [records EXCEPT !.elabs[i] = p]
<1>1. records \in RecordsT /\ Answered(World(TRUE)) /\ World(TRUE).r = records
  BY WorldIs DEF World
<1>2. records.elabs \in [Intents -> Elabs]
  BY <1>1 DEF RecordsT
<1>3. Reports(r)
  <2>1. [records EXCEPT !.elabs[i][k].at = to] = r
    BY <1>1, <1>2 DEF RecordsT
  <2> HIDE DEF r
  <2> QED BY <2>1 DEF Elaborates
<1>4. p \in Elabs
  <2> HIDE DEF q
  <2>1. q \in Elabs /\ k \in DOMAIN q
    BY <1>2 DEF q
  <2>2. q \in Seq(ElabT) /\ Len(q) <= MaxElabs /\ q[k] \in ElabT
        /\ \A l, n \in DOMAIN q : l # n => q[l].cites \cap q[n].cites = {}
    BY <2>1 DEF Elabs
  <2>3. e \in ElabT /\ e.cites = q[k].cites
    BY <2>2 DEF ElabT
  <2> HIDE DEF e
  <2>4. /\ p \in Seq(ElabT) /\ Len(p) = Len(q) /\ DOMAIN p = DOMAIN q /\ p[k] = e
        /\ \A l \in DOMAIN q \ {k} : p[l] = q[l]
    BY <2>1, <2>2, <2>3
  <2> HIDE DEF p
  <2>5. \A l, n \in DOMAIN p : l # n => p[l].cites \cap p[n].cites = {}
    BY <2>1, <2>2, <2>3, <2>4
  <2> QED BY <2>2, <2>4, <2>5 DEF Elabs
<1> HIDE DEF p
<1>5. /\ r \in RecordsT /\ r.session = records.session /\ r.life = records.life
      /\ r.stands = records.stands /\ r.cites = records.cites /\ r.answer = records.answer
  BY <1>1, <1>4 DEF RecordsT
<1> HIDE DEF r
<1>6. \A j \in Intents : r.answer[j] # "none" => r.life[j] = "proposed"
  BY <1>1, <1>5 DEF Answered
<1> QED BY <1>3, <1>5, <1>6, ReportKeeps

LEMMA OperatorStep == ASSUME CurationInv, Operator PROVE CurationInv' /\ CitedNow
BY CaptureByHandStep, OpenIntentStep, MoveByHandStep, ReviveStep, AnswerStep DEF Operator

LEMMA InitCurated == Init => CurationInv
<1> SUFFICES ASSUME Init PROVE CurationInv
  OBVIOUS
<1>1. NoMoves \in Standings /\ \A s \in Signals : NoMoves[s].word # "attach"
  BY NoMovesMade
<1>2. files \in FilesT /\ checkout \in FilesT /\ files.moves = NoMoves /\ checkout.moves = NoMoves
  BY <1>1 DEF Init, FilesT
<1>3. /\ NoReader \in ReaderT /\ <<>> \in Elabs /\ 0 \in 0..MaxRuns
      /\ NoSession \in SessionT /\ NoSession.took = NoMoves
  <2>1. NoReader \in ReaderT
    BY BoundOnReads DEF NoReader, ReaderT
  <2>2. MaxElabs \in Nat /\ MaxRuns \in Nat
    BY CurationAssumption
  <2>3. <<>> \in Elabs
    BY <2>2 DEF Elabs
  <2> QED BY <2>1, <2>2, <2>3, NoMovesMade
<1>4. records \in RecordsT
  BY <1>1, <1>3 DEF Init, RecordsT, Lives, Answers
<1>5. /\ records.session.took = NoMoves
      /\ \A i \in Intents : records.answer[i] = "none" /\ records.cites[i] = {}
  BY <1>3 DEF Init
<1>6. World(TRUE) \in Worlds
  BY <1>2, <1>4 DEF World, Worlds
<1>7. Attaches(World(TRUE), Intents) /\ Answered(World(TRUE))
  BY <1>1, <1>2, <1>5 DEF World, Attaches, Answered
<1>8. hands \in 0..MaxHands /\ faults \in 0..MaxFaults
  BY CurationAssumption DEF Init
<1> QED BY <1>6, <1>7, <1>8 DEF CurationInv, Fit

\* Every step keeps the invariant, and has what it marks cited.
LEMMA StepCurated ==
  ASSUME CurationInv, [Next]_vars
  PROVE  CurationInv' /\ CitedNow
<1>1. CASE UNCHANGED vars
  <2>1. CurationInv'
    BY <1>1 DEF vars, CurationInv, World
  <2> QED BY <1>1, <2>1, StillCited DEF vars
<1>2. ASSUME NEW due \in Due, PassLands(due) \/ PassCut(due) \/ PassInOutage(due)
      PROVE  CurationInv' /\ CitedNow
  BY <1>2, PassStep
<1>3. CASE Next
  BY <1>2, <1>3, ReaderStep, CuratorStep, OperatorStep, AdaptsStep, ElaboratesStep DEF Next
<1> QED BY <1>1, <1>3

LEMMA AlwaysCurated == Spec => []CurationInv
<1>1. Init => CurationInv
  BY InitCurated
<1>2. CurationInv /\ [Next]_vars => CurationInv'
  BY StepCurated
<1> QED BY <1>1, <1>2, PTL DEF Spec

\* Every file, record and delivery keeps its form, nothing passes its bound, and
\* only a proposed intent waits with an answer.
THEOREM CurationTyped == Spec => []TypeOK
<1>1. CurationInv => TypeOK
  <2> SUFFICES ASSUME CurationInv PROVE TypeOK
    OBVIOUS
  <2>1. /\ files \in FilesT /\ checkout \in FilesT /\ records \in RecordsT
        /\ Answered(World(TRUE)) /\ World(TRUE).r = records
    BY WorldIs DEF World
  <2>2. {files, checkout} \subseteq [captures : SUBSET (Captures \X Sources),
                                     signals : SUBSET Signals,
                                     moves : [Signals -> Moves \cup {Unmoved}]]
    BY <2>1 DEF FilesT, Standings, Standing
  <2>3. /\ records.capture \in [Captures -> Sources \cup {"none", "reading", "read"}]
        /\ records.signals \subseteq Signals
        /\ records.stands \in [Signals -> Moves \cup {Unmoved}]
        /\ records.life \in [Intents -> {"none", "proposed", "open", "dropped"}]
        /\ records.answer \in [Intents -> {"none", "yes", "drop", "split"}]
        /\ records.cites \in [Intents -> SUBSET Signals]
        /\ records.run \in {"idle", "running", "applying", "failed"}
        /\ records.session \in SessionT /\ records.elabs \in [Intents -> Elabs]
        /\ records.runs \in 0..MaxRuns
    BY <2>1 DEF RecordsT, Standings, Standing, Lives, Answers
  <2>4. \A i \in Intents : records.answer[i] # "none" => records.life[i] = "proposed"
    BY <2>1 DEF Answered
  <2>5. records.session.took \in [Signals -> Moves \cup {Unmoved}]
    BY <2>3 DEF SessionT, Standings, Standing
  <2>6. \A i \in Intents : Len(records.elabs[i]) <= MaxElabs
    BY <2>3 DEF Elabs
  <2>7. records.runs <= MaxRuns /\ hands <= MaxHands /\ faults <= MaxFaults
    <3>1. MaxRuns \in Nat /\ MaxHands \in Nat /\ MaxFaults \in Nat
      BY CurationAssumption
    <3> QED BY <2>3, <3>1 DEF CurationInv
  <2> QED BY <2>2, <2>3, <2>4, <2>5, <2>6, <2>7 DEF TypeOK
<1> QED BY <1>1, AlwaysCurated, PTL

\* Material that joined a proposal, was gathered over, or came back after a stop
\* is counted once: no two elaborations of an intent cite one signal.
THEOREM ElaborationsShareNothing == Spec => []NothingCitedTwice
<1>1. CurationInv => NothingCitedTwice
  <2> SUFFICES ASSUME CurationInv PROVE NothingCitedTwice
    OBVIOUS
  <2>1. records.elabs \in [Intents -> Elabs]
    BY WorldIs DEF RecordsT
  <2> QED BY <2>1 DEF NothingCitedTwice, Elabs
<1> QED BY <1>1, AlwaysCurated, PTL

\* A step of a host whose checkout holds no move it has not pushed marks no
\* signal as gone to an intent that does not cite it, wherever the step is
\* stopped and whatever stopped before it.
THEOREM MarksAreCited == Spec => CitedWhenMarked
<1> DEFINE Cited == checkout.moves = files.moves =>
                      \A s \in Signals : LET m == records'.stands[s] IN
                        m # records.stands[s] /\ m.word \in {"join", "attach"}
                          => s \in records'.cites[m.to]
<1>1. CurationInv /\ [Next]_vars => [Cited]_vars
  BY StepCurated DEF CitedNow
<1> HIDE DEF Cited
<1>2. Spec => [][Cited]_vars
  BY <1>1, AlwaysCurated, PTL DEF Spec
<1> QED BY <1>2 DEF CitedWhenMarked, Cited

-----------------------------------------------------------------------------
(* A chat sink.  The proof speaks of the channel, the clock, what stands,  *)
(* the mark and what a host is in the middle of: whether a decision was    *)
(* shown does not depend on what the wire heard.                           *)


------------------------------------------------------------------------------
(* What is kept *)

\* The channel is a history that is only added to, whatever its entries are.
IsHistory(s) == \E S : s \in Seq(S)

\* What a host has in hand has these fields.
IsWork(w) == \E S : w \in [in : S, giving : S, posted : S]

Typed ==
  /\ IsHistory(channel)
  /\ now \in Nat /\ raised \in Seq(Nat) /\ standing \subseteq DOMAIN raised
  /\ \A d \in DOMAIN raised : raised[d] <= now
  /\ DOMAIN work = Hosts /\ \A h \in Hosts : IsWork(work[h])
  /\ mark = [at |-> mark.at, delivery |-> mark.delivery]

\* A rendering was posted at a time that has come, and by it every decision of
\* an earlier time that still stands was shown.
PostsShow ==
  \A n \in Posts :
    /\ channel[n].at \in Nat /\ channel[n].at <= now
    /\ \A d \in standing : raised[d] < channel[n].at => Shown(d)

\* The mark is the time of some rendering, and so is what is to be marked.
MarkIsAPosts ==
  /\ mark.at = Never \/ \E n \in Posts : mark.at = channel[n].at
  /\ \A h \in Hosts : work[h].in = "marking" => work[h].posted \in Posts

\* The inductive invariant.  The mark alone would not do: a push may be lost
\* after the rendering was posted, another host present meanwhile, and the
\* mark be put of a rendering that is not the last.
ShownInv == Typed /\ PostsShow /\ MarkIsAPosts

------------------------------------------------------------------------------
(* The channel *)

\* An entry is added at the end and the others stay.
LEMMA EntryAdded ==
  ASSUME NEW s, IsHistory(s), NEW e
  PROVE  /\ IsHistory(Append(s, e))
         /\ Len(s) \in Nat /\ Len(Append(s, e)) = Len(s) + 1
         /\ DOMAIN Append(s, e) = DOMAIN s \cup {Len(s) + 1}
         /\ Len(s) + 1 \notin DOMAIN s
         /\ \A n \in DOMAIN s : Append(s, e)[n] = s[n]
         /\ Append(s, e)[Len(s) + 1] = e
<1>1. PICK S : s \in Seq(S)
  BY DEF IsHistory
<1>2. s \in Seq(S \cup {e})
  BY <1>1
<1>3. Append(s, e) \in Seq(S \cup {e})
  BY <1>2
<1> QED BY <1>2, <1>3 DEF IsHistory

\* Where the channel only grew by entries that are no renderings, and nothing
\* new stands, what was shown is as it was.
LEMMA ChannelGrows ==
  ASSUME ShownInv, NEW e, channel' = Append(channel, e),
         UNCHANGED <<Wire!clock, standing>>, e.what # "post"
  PROVE  /\ IsHistory(channel') /\ PostsShow'
         /\ Posts' = Posts /\ \A n \in Posts : channel'[n] = channel[n]
<1>1. /\ IsHistory(channel') /\ Ids' = Ids \cup {Len(channel) + 1}
      /\ Len(channel) + 1 \notin Ids
      /\ \A n \in Ids : channel'[n] = channel[n]
      /\ channel'[Len(channel) + 1] = e
  BY EntryAdded DEF ShownInv, Typed, Ids
<1>2. Posts' = Posts /\ \A n \in Posts : channel'[n] = channel[n]
  BY <1>1 DEF Posts
<1>3. \A d : Shown(d) => Shown(d)'
  BY <1>2 DEF Shown
<1>4. PostsShow'
  BY <1>2, <1>3 DEF ShownInv, PostsShow, Wire!clock
<1> QED BY <1>1, <1>2, <1>4

\* A rendering that is posted shows all that stands.
LEMMA RenderingPosted ==
  ASSUME ShownInv, channel' = Append(channel, Wire!Rendering), UNCHANGED <<Wire!clock, standing>>
  PROVE  /\ IsHistory(channel') /\ PostsShow'
         /\ Posts' = Posts \cup {Len(channel')}
         /\ \A n \in Posts : channel'[n] = channel[n]
<1> DEFINE last == Len(channel) + 1
<1>1. /\ IsHistory(channel') /\ Ids' = Ids \cup {last} /\ last \notin Ids
      /\ \A n \in Ids : channel'[n] = channel[n]
      /\ channel'[last] = Wire!Rendering /\ Len(channel') = last
  BY EntryAdded DEF ShownInv, Typed, Ids
<1>2. Wire!Rendering.what = "post" /\ Wire!Rendering.at = now /\ Wire!Rendering.shows = standing
  BY DEF Wire!Rendering
<1> HIDE DEF last
<1>3. Posts' = Posts \cup {last} /\ \A n \in Posts : channel'[n] = channel[n]
  BY <1>1, <1>2 DEF Posts
<1>4. \A d \in standing : Shown(d)'
  BY <1>1, <1>2, <1>3 DEF Shown
<1>5. \A n \in Posts' : channel'[n].at \in Nat /\ channel'[n].at <= now
  <2> SUFFICES ASSUME NEW n \in Posts' PROVE channel'[n].at \in Nat /\ channel'[n].at <= now
    OBVIOUS
  <2>1. \A m \in Posts : channel[m].at \in Nat /\ channel[m].at <= now
    BY DEF ShownInv, PostsShow
  <2>2. now \in Nat
    BY DEF ShownInv, Typed
  <2>3. CASE n \in Posts
    BY <1>3, <2>1, <2>3
  <2>4. CASE n = last
    BY <1>1, <1>2, <2>2, <2>4
  <2> QED BY <1>3, <2>3, <2>4
<1>6. PostsShow'
  BY <1>4, <1>5 DEF PostsShow, Wire!clock
<1> QED BY <1>1, <1>3, <1>6

\* Where neither the channel nor the clock moved and what stands stood.
LEMMA ChannelRests ==
  ASSUME ShownInv, UNCHANGED <<channel, Wire!clock>>, standing' \subseteq standing
  PROVE  /\ IsHistory(channel') /\ PostsShow'
         /\ Posts' = Posts /\ \A n \in Posts : channel'[n] = channel[n]
BY DEF ShownInv, Typed, PostsShow, Posts, Ids, Shown, Wire!clock

------------------------------------------------------------------------------
(* What a host has in hand *)

\* What is in hand, with other things in it.
GoneOn(w, in, rest) == [w EXCEPT !.in = in, !.giving = rest]
Turned(w, in) == [w EXCEPT !.in = in]
ToMark(w, post) == [w EXCEPT !.in = "marking", !.posted = post]

LEMMA WorkWith ==
  ASSUME NEW w, IsWork(w), NEW in, NEW rest
  PROVE  /\ IsWork(GoneOn(w, in, rest)) /\ GoneOn(w, in, rest).in = in
         /\ IsWork(Turned(w, in)) /\ Turned(w, in).in = in
         /\ IsWork(ToMark(w, rest)) /\ ToMark(w, rest).posted = rest
<1>1. PICK S : w \in [in : S, giving : S, posted : S]
  BY DEF IsWork
<1> DEFINE T == S \cup {in, rest, "marking"}
<1>2. w \in [in : T, giving : T, posted : T] /\ in \in T /\ rest \in T /\ "marking" \in T
  BY <1>1
<1> HIDE DEF T
<1>3. GoneOn(w, in, rest) \in [in : T, giving : T, posted : T] /\ GoneOn(w, in, rest).in = in
  BY <1>2 DEF GoneOn
<1>4. Turned(w, in) \in [in : T, giving : T, posted : T] /\ Turned(w, in).in = in
  BY <1>2 DEF Turned
<1>5. ToMark(w, rest) \in [in : T, giving : T, posted : T] /\ ToMark(w, rest).posted = rest
  BY <1>2 DEF ToMark
<1> QED BY <1>3, <1>4, <1>5 DEF IsWork

\* A host goes on to something that is not the marking of a rendering.
LEMMA WorkGoesOn ==
  ASSUME ShownInv, NEW h \in Hosts, NEW w, IsWork(w), w.in # "marking",
         work' = [work EXCEPT ![h] = w], Posts \subseteq Posts'
  PROVE  /\ DOMAIN work' = Hosts /\ \A k \in Hosts : IsWork(work'[k])
         /\ \A k \in Hosts : work'[k].in = "marking" => work'[k].posted \in Posts'
BY DEF ShownInv, Typed, MarkIsAPosts

LEMMA HandGoesOn ==
  ASSUME ShownInv, NEW h \in Hosts, NEW rest, Wire!GoesOnWith(h, rest), Posts \subseteq Posts'
  PROVE  /\ DOMAIN work' = Hosts /\ \A k \in Hosts : IsWork(work'[k])
         /\ \A k \in Hosts : work'[k].in = "marking" => work'[k].posted \in Posts'
<1> DEFINE to == IF rest = <<>> THEN "idle" ELSE "hearing"
<1>1. IsWork(work[h]) /\ to # "marking"
  BY DEF ShownInv, Typed
<1>2. work' = [work EXCEPT ![h] = GoneOn(work[h], to, rest)]
  BY DEF Wire!GoesOnWith, GoneOn
<1> HIDE DEF to
<1>3. IsWork(GoneOn(work[h], to, rest)) /\ GoneOn(work[h], to, rest).in = to
  BY <1>1, WorkWith
<1> QED BY <1>1, <1>2, <1>3, WorkGoesOn

------------------------------------------------------------------------------
(* Every step *)

LEMMA InitShown == Wire!Init => ShownInv
<1> SUFFICES ASSUME Wire!Init PROVE ShownInv
  OBVIOUS
<1>1. IsHistory(channel)
  <2>1. channel \in Seq({})
    BY DEF Wire!Init
  <2> QED BY <2>1 DEF IsHistory
<1>2. Ids = {}
  BY DEF Wire!Init, Ids
<1>3. \A h \in Hosts : IsWork(work[h]) /\ work[h].in = "idle"
  <2>1. Wire!Idle \in [in : {"idle", <<>>, Never}, giving : {"idle", <<>>, Never},
                  posted : {"idle", <<>>, Never}]
    BY DEF Wire!Idle, Wire!Never, Never
  <2>2. IsWork(Wire!Idle) /\ Wire!Idle.in = "idle"
    BY <2>1 DEF IsWork, Wire!Idle
  <2> QED BY <2>2 DEF Wire!Init
<1>4. raised \in Seq(Nat) /\ now \in Nat /\ standing = {} /\ DOMAIN raised = {}
  BY DEF Wire!Init
<1>5. mark.at = Never /\ mark = [at |-> mark.at, delivery |-> mark.delivery]
  BY DEF Wire!Init, Never
<1>6. DOMAIN work = Hosts
  BY DEF Wire!Init
<1>7. Typed
  BY <1>1, <1>3, <1>4, <1>5, <1>6 DEF Typed
<1> QED BY <1>2, <1>3, <1>5, <1>7 DEF ShownInv, PostsShow, MarkIsAPosts, Posts

\* What a step leaves alone: what it does not write of the state the invariant
\* is about.
Elsewhere == UNCHANGED <<Wire!clock, standing, mark>>

\* A step that writes no rendering and no mark, and takes nothing to be marked.
LEMMA QuietStep ==
  ASSUME ShownInv, IsHistory(channel'), PostsShow',
         Posts' = Posts, \A n \in Posts : channel'[n] = channel[n],
         Elsewhere,
         DOMAIN work' = Hosts /\ \A k \in Hosts : IsWork(work'[k]),
         \A k \in Hosts : work'[k].in = "marking" => work'[k].posted \in Posts'
  PROVE  ShownInv'
<1>1. Typed'
  BY DEF ShownInv, Typed, Elsewhere, Wire!clock
<1>2. MarkIsAPosts'
  BY DEF ShownInv, MarkIsAPosts, Elsewhere
<1> QED BY <1>1, <1>2 DEF ShownInv

\* Nothing of it is written at all, but for a decision that stands no longer.
LEMMA WireStep ==
  ASSUME ShownInv, UNCHANGED <<channel, now, raised, mark, work>>, standing' \subseteq standing
  PROVE  ShownInv'
<1>1. /\ IsHistory(channel') /\ PostsShow'
      /\ Posts' = Posts /\ \A n \in Posts : channel'[n] = channel[n]
  BY ChannelRests DEF Wire!clock
<1>2. Typed' /\ MarkIsAPosts'
  BY <1>1 DEF ShownInv, Typed, MarkIsAPosts
<1> QED BY <1>1, <1>2 DEF ShownInv

\* The hand goes on to something, and the channel rests or gains an entry that
\* is no rendering.
LEMMA HandStep ==
  ASSUME ShownInv, Elsewhere, NEW h \in Hosts,
         \/ channel' = channel
         \/ \E e : e.what # "post" /\ channel' = Append(channel, e),
         \/ UNCHANGED work
         \/ \E rest : Wire!GoesOnWith(h, rest)
         \/ \E w : IsWork(w) /\ w.in # "marking" /\ work' = [work EXCEPT ![h] = w]
  PROVE  ShownInv'
<1>1. /\ IsHistory(channel') /\ PostsShow'
      /\ Posts' = Posts /\ \A n \in Posts : channel'[n] = channel[n]
  BY ChannelRests, ChannelGrows DEF Elsewhere, Wire!clock
<1>2. /\ DOMAIN work' = Hosts /\ \A k \in Hosts : IsWork(work'[k])
      /\ \A k \in Hosts : work'[k].in = "marking" => work'[k].posted \in Posts'
  <2>1. CASE UNCHANGED work
    BY <1>1, <2>1 DEF ShownInv, Typed, MarkIsAPosts
  <2>2. CASE \E rest : Wire!GoesOnWith(h, rest)
    BY <1>1, <2>2, HandGoesOn
  <2>3. CASE \E w : IsWork(w) /\ w.in # "marking" /\ work' = [work EXCEPT ![h] = w]
    BY <1>1, <2>3, WorkGoesOn
  <2> QED BY <2>1, <2>2, <2>3
<1> QED BY <1>1, <1>2, QuietStep

LEMMA DeliversStep ==
  ASSUME ShownInv, NEW h \in Hosts, Wire!Delivers(h)
  PROVE  ShownInv'
<1> DEFINE last == Len(channel')
           hand == work[h]
<1>1. /\ IsHistory(channel') /\ PostsShow'
      /\ Posts' = Posts \cup {last} /\ \A n \in Posts : channel'[n] = channel[n]
  BY RenderingPosted DEF Wire!Delivers
<1>2. IsWork(hand)
  BY DEF ShownInv, Typed
<1>3. work' = [work EXCEPT ![h] = ToMark(hand, last)]
  BY DEF Wire!Delivers, ToMark
<1> HIDE DEF hand, last
<1>4. IsWork(ToMark(hand, last)) /\ ToMark(hand, last).posted = last
  BY <1>2, WorkWith
<1>5. DOMAIN work' = Hosts /\ \A k \in Hosts : IsWork(work'[k])
  BY <1>3, <1>4 DEF ShownInv, Typed
<1>6. \A k \in Hosts : work'[k].in = "marking" => work'[k].posted \in Posts'
  BY <1>1, <1>3, <1>4 DEF ShownInv, Typed, MarkIsAPosts
<1>7. Typed'
  BY <1>1, <1>5 DEF ShownInv, Typed, Wire!Delivers, Wire!clock
<1>8. MarkIsAPosts'
  BY <1>1, <1>6 DEF ShownInv, MarkIsAPosts, Wire!Delivers
<1> QED BY <1>1, <1>7, <1>8 DEF ShownInv

LEMMA MarksStep ==
  ASSUME ShownInv, NEW h \in Hosts, Wire!Marks(h)
  PROVE  ShownInv'
<1>1. /\ IsHistory(channel') /\ PostsShow'
      /\ Posts' = Posts /\ \A n \in Posts : channel'[n] = channel[n]
  BY ChannelRests DEF Wire!Marks
<1>2. IsWork(Wire!Idle) /\ Wire!Idle.in # "marking"
  <2>1. Wire!Idle \in [in : {"idle", <<>>, Never}, giving : {"idle", <<>>, Never},
                  posted : {"idle", <<>>, Never}]
    BY DEF Wire!Idle, Wire!Never, Never
  <2> QED BY <2>1 DEF IsWork, Wire!Idle
<1>3. /\ DOMAIN work' = Hosts /\ \A k \in Hosts : IsWork(work'[k])
      /\ \A k \in Hosts : work'[k].in = "marking" => work'[k].posted \in Posts'
  BY <1>1, <1>2, WorkGoesOn DEF Wire!Marks
<1>4. /\ mark'.at = Never \/ \E n \in Posts' : mark'.at = channel'[n].at
      /\ mark' = [at |-> mark'.at, delivery |-> mark'.delivery]
  <2>1. CASE UNCHANGED mark
    BY <1>1, <2>1 DEF ShownInv, Typed, MarkIsAPosts
  <2>2. CASE mark' = [at |-> channel[work[h].posted].at, delivery |-> work[h].posted]
    <3>1. work[h].posted \in Posts
      BY DEF ShownInv, MarkIsAPosts, Wire!Marks
    <3> QED BY <1>1, <2>2, <3>1
  <2> QED BY <2>1, <2>2 DEF Wire!Marks
<1>5. Typed'
  BY <1>1, <1>3, <1>4 DEF ShownInv, Typed, Wire!Marks, Wire!clock
<1>6. MarkIsAPosts'
  BY <1>3, <1>4 DEF MarkIsAPosts
<1> QED BY <1>1, <1>5, <1>6 DEF ShownInv

\* A decision raised now is of no earlier time than any rendering.
LEMMA RaisesStep ==
  ASSUME ShownInv, Wire!Raises
  PROVE  ShownInv'
<1> DEFINE new == Len(raised')
<1>1. /\ raised \in Seq(Nat) /\ now \in Nat /\ raised' = Append(raised, now)
  BY DEF ShownInv, Typed, Wire!Raises
<1>2. /\ raised' \in Seq(Nat) /\ new = Len(raised) + 1
      /\ DOMAIN raised' = DOMAIN raised \cup {new} /\ new \notin DOMAIN raised
      /\ raised'[new] = now /\ \A d \in DOMAIN raised : raised'[d] = raised[d]
  BY <1>1
<1>3. UNCHANGED <<channel, now, mark, work>> /\ standing' = standing \cup {new}
  BY DEF Wire!Raises
<1> HIDE DEF new
<1>4. Typed'
  <2>1. now' = now /\ standing' \subseteq DOMAIN raised'
    BY <1>2, <1>3 DEF ShownInv, Typed
  <2>2. \A d \in DOMAIN raised' : raised'[d] <= now'
    BY <1>1, <1>2, <2>1 DEF ShownInv, Typed
  <2> QED BY <1>1, <1>2, <1>3, <2>1, <2>2 DEF ShownInv, Typed
<1>5. Posts' = Posts /\ \A d : Shown(d)' = Shown(d)
  BY <1>3 DEF Posts, Ids, Shown
<1>6. PostsShow'
  <2> SUFFICES ASSUME NEW n \in Posts
               PROVE  /\ channel[n].at \in Nat /\ channel[n].at <= now
                      /\ \A d \in standing' : raised'[d] < channel[n].at => Shown(d)
    BY <1>3, <1>5 DEF PostsShow
  <2>1. /\ channel[n].at \in Nat /\ channel[n].at <= now
        /\ \A d \in standing : raised[d] < channel[n].at => Shown(d)
    BY DEF ShownInv, PostsShow
  <2>2. ~ (raised'[new] < channel[n].at)
    BY <1>1, <1>2, <2>1
  <2>3. \A d \in standing : raised'[d] = raised[d]
    BY <1>2 DEF ShownInv, Typed
  <2> QED BY <1>3, <2>1, <2>2, <2>3
<1>7. MarkIsAPosts'
  BY <1>3, <1>5 DEF ShownInv, MarkIsAPosts
<1> QED BY <1>4, <1>6, <1>7 DEF ShownInv

LEMMA TurnsOverStep ==
  ASSUME ShownInv, Wire!TurnsOver
  PROVE  ShownInv'
<1>1. UNCHANGED <<channel, raised, standing, mark, work>> /\ now' = now + 1
  BY DEF Wire!TurnsOver
<1>2. Posts' = Posts /\ \A d : Shown(d)' = Shown(d)
  BY <1>1 DEF Posts, Ids, Shown
<1>3. Typed'
  <2>1. \A d \in DOMAIN raised : raised[d] <= now'
    BY <1>1 DEF ShownInv, Typed
  <2>2. now' \in Nat
    BY <1>1 DEF ShownInv, Typed
  <2> QED BY <1>1, <2>1, <2>2 DEF ShownInv, Typed
<1>4. PostsShow'
  <2>1. \A n \in Posts : channel[n].at \in Nat /\ channel[n].at <= now'
    BY <1>1 DEF ShownInv, PostsShow, Typed
  <2> QED BY <1>1, <1>2, <2>1 DEF ShownInv, PostsShow
<1>5. MarkIsAPosts'
  BY <1>1, <1>2 DEF ShownInv, MarkIsAPosts
<1> QED BY <1>3, <1>4, <1>5 DEF ShownInv

LEMMA IdleIsWork == IsWork(Wire!Idle) /\ Wire!Idle.in = "idle"
<1>1. Wire!Idle \in [in : {"idle", <<>>, Never}, giving : {"idle", <<>>, Never},
                posted : {"idle", <<>>, Never}]
  BY DEF Wire!Idle, Wire!Never, Never
<1> QED BY <1>1 DEF IsWork, Wire!Idle

LEMMA StepShown == ASSUME ShownInv, [Wire!Next]_(Wire!vars) PROVE ShownInv'
<1>1. ASSUME NEW h \in Hosts, Wire!Wires(h)
      PROVE  ShownInv'
  <2>1. UNCHANGED <<channel, now, raised, standing, mark, work>>
    BY <1>1 DEF Wire!Wires, Wire!Starts, Wire!Connects, Wire!Arrives, Wire!Waited, Wire!clock
  <2> QED BY <2>1, WireStep
<1>2. ASSUME NEW h \in Hosts, Wire!Turns(h)
      PROVE  ShownInv'
  <2>1. CASE Wire!LetsGo(h) \/ Wire!TakesPresenter(h) \/ Wire!Applies(h)
    <3>1. UNCHANGED <<channel, now, raised, mark, work>> /\ standing' \subseteq standing
      BY <2>1 DEF Wire!LetsGo, Wire!TakesPresenter, Wire!Applies, Wire!clock
    <3> QED BY <3>1, WireStep
  <2>2. CASE Wire!Hears(h)
    <3>1. PICK giving :
            work' = [work EXCEPT ![h] =
                       [Wire!Idle EXCEPT !.in = IF giving = <<>> THEN "idle" ELSE "hearing",
                                    !.giving = giving]]
      BY <2>2 DEF Wire!Hears
    <3> DEFINE to == IF giving = <<>> THEN "idle" ELSE "hearing"
    <3>2. work' = [work EXCEPT ![h] = GoneOn(Wire!Idle, to, giving)] /\ to # "marking"
      BY <3>1 DEF GoneOn
    <3> HIDE DEF to
    <3>3. IsWork(GoneOn(Wire!Idle, to, giving)) /\ GoneOn(Wire!Idle, to, giving).in = to
      BY IdleIsWork, WorkWith
    <3>4. UNCHANGED channel /\ Elsewhere
      BY <2>2 DEF Wire!Hears, Elsewhere
    <3> QED BY <3>2, <3>3, <3>4, HandStep
  <2>3. CASE Wire!Records(h)
    <3>1. UNCHANGED channel /\ Elsewhere
      BY <2>3 DEF Wire!Records, Elsewhere
    <3>2. (\E rest : Wire!GoesOnWith(h, rest)) \/ work' = [work EXCEPT ![h] = Turned(work[h], "replying")]
      BY <2>3 DEF Wire!Records, Wire!GivesNext, Turned
    <3>3. IsWork(Turned(work[h], "replying")) /\ Turned(work[h], "replying").in = "replying"
      BY WorkWith DEF ShownInv, Typed
    <3> QED BY <3>1, <3>2, <3>3, HandStep
  <2>4. CASE Wire!RepliesTo(h)
    <3>1. \E e : e.what # "post" /\ channel' = Append(channel, e)
      <4>1. [what |-> "reply", of |-> Wire!Given(h)[1], number |-> Wire!Given(h)[2]].what # "post"
        OBVIOUS
      <4> QED BY <2>4, <4>1 DEF Wire!RepliesTo
    <3>2. Elsewhere /\ \E rest : Wire!GoesOnWith(h, rest)
      BY <2>4 DEF Wire!RepliesTo, Wire!GivesNext, Elsewhere
    <3> QED BY <3>1, <3>2, HandStep
  <2>5. CASE Wire!Delivers(h)
    BY <2>5, DeliversStep
  <2>6. CASE Wire!Marks(h)
    BY <2>6, MarksStep
  <2> QED BY <1>2, <2>1, <2>2, <2>3, <2>4, <2>5, <2>6 DEF Wire!Turns
<1>3. ASSUME NEW h \in Hosts, Wire!Faulty(h)
      PROVE  ShownInv'
  <2>1. CASE Wire!Disconnects(h) \/ Wire!WaitedFails(h)
    <3>1. UNCHANGED <<channel, now, raised, standing, mark, work>>
      BY <2>1 DEF Wire!Disconnects, Wire!WaitedFails, Wire!clock
    <3> QED BY <3>1, WireStep
  <2>2. CASE Wire!Stops(h)
    <3>1. UNCHANGED channel /\ Elsewhere /\ work' = [work EXCEPT ![h] = Wire!Idle]
      BY <2>2 DEF Wire!Stops, Elsewhere
    <3> QED BY <3>1, IdleIsWork, HandStep
  <2>3. CASE Wire!ReplyFails(h)
    <3>1. UNCHANGED channel /\ Elsewhere /\ \E rest : Wire!GoesOnWith(h, rest)
      BY <2>3 DEF Wire!ReplyFails, Elsewhere
    <3> QED BY <3>1, HandStep
  <2>4. CASE Wire!DeliveryFails(h)
    <3>1. [what |-> "piece"].what # "post"
      OBVIOUS
    <3>2. /\ Elsewhere /\ UNCHANGED work
          /\ \/ channel' = channel
             \/ \E e : e.what # "post" /\ channel' = Append(channel, e)
      BY <2>4, <3>1 DEF Wire!DeliveryFails, Elsewhere
    <3> QED BY <3>2, HandStep
  <2> QED BY <1>3, <2>1, <2>2, <2>3, <2>4 DEF Wire!Faulty
<1>4. ASSUME NEW m \in Messages, Wire!Says(m)
      PROVE  ShownInv'
  <2>1. PICK k \in Kinds, d \in 0..MaxRaised :
          channel' = Append(channel, [what |-> "said", of |-> m, kind |-> k, number |-> d])
    BY <1>4 DEF Wire!Says
  <2>2. [what |-> "said", of |-> m, kind |-> k, number |-> d].what # "post"
    OBVIOUS
  <2>3. Elsewhere /\ UNCHANGED work
    BY <1>4 DEF Wire!Says, Elsewhere
  <2>4. /\ IsHistory(channel') /\ PostsShow'
        /\ Posts' = Posts /\ \A n \in Posts : channel'[n] = channel[n]
    BY <2>1, <2>2, <2>3, ChannelGrows DEF Elsewhere
  <2> QED BY <2>3, <2>4, QuietStep DEF ShownInv, Typed, MarkIsAPosts
<1>5. CASE UNCHANGED Wire!vars
  <2>1. UNCHANGED <<channel, now, raised, standing, mark, work>>
    BY <1>5 DEF Wire!vars, Wire!clock
  <2> QED BY <2>1, WireStep
<1> QED BY <1>1, <1>2, <1>3, <1>4, <1>5, RaisesStep, TurnsOverStep DEF Wire!Next

\* The mark never passes over a decision of an earlier turn that no rendering
\* showed, however many hosts present in turn, and whichever deliveries fail,
\* are lost with their push or are marked late (chat.rs deliver).
THEOREM MarkPassesOverNothing == Wire!Spec => []ShownBeforeTheMark
<1>1. ShownInv /\ [Wire!Next]_(Wire!vars) => ShownInv'
  BY StepShown
<1>2. ShownInv => ShownBeforeTheMark
  <2> SUFFICES ASSUME ShownInv, NEW d \in standing, raised[d] < mark.at
               PROVE  Shown(d)
    BY DEF ShownBeforeTheMark
  <2>1. raised[d] \in Nat
    BY DEF ShownInv, Typed
  <2>2. mark.at # Never
    BY <2>1 DEF Never
  <2>3. PICK n \in Posts : mark.at = channel[n].at
    BY <2>2 DEF ShownInv, MarkIsAPosts
  <2> QED BY <2>3 DEF ShownInv, PostsShow
<1> QED BY InitShown, <1>1, <1>2, PTL DEF Wire!Spec

------------------------------------------------------------------------------
(* Numbers in their order, and sequences put end to end                      *)

\* The numbers of a set in order: its greatest comes after the others'.
Ordered(S) ==
  \E f \in [1..Cardinality(S) -> S] :
    \A i, j \in 1..Cardinality(S) : i < j => f[i] < f[j]

LEMMA GreatestLast ==
  ASSUME NEW S, IsFiniteSet(S), S \subseteq Nat, NEW m \in S,
         \A x \in S : x <= m, Ordered(S \ {m})
  PROVE  Ordered(S)
<1> DEFINE n == Cardinality(S \ {m})
<1>1. n \in Nat /\ Cardinality(S) = n + 1
  <2>1. IsFiniteSet(S \ {m}) /\ Cardinality(S \ {m}) = Cardinality(S) - 1
    BY FS_RemoveElement
  <2> QED BY <2>1, FS_CardinalityType
<1>2. PICK f \in [1..n -> S \ {m}] : \A i, j \in 1..n : i < j => f[i] < f[j]
  BY DEF Ordered
<1> HIDE DEF n
<1> DEFINE g == [i \in 1..(n + 1) |-> IF i = n + 1 THEN m ELSE f[i]]
<1>3. \A i \in 1..(n + 1) : i # n + 1 => i \in 1..n
  BY <1>1
<1>4. g \in [1..(n + 1) -> S]
  BY <1>2, <1>3
<1>5. ASSUME NEW i \in 1..(n + 1), NEW j \in 1..(n + 1), i < j PROVE g[i] < g[j]
  <2>1. i \in 1..n /\ g[i] = f[i] /\ f[i] \in S \ {m}
    BY <1>1, <1>2, <1>5
  <2>2. CASE j = n + 1
    <3>1. f[i] \in Nat /\ m \in Nat /\ f[i] <= m /\ f[i] # m
      BY <2>1
    <3>2. f[i] < m
      BY <3>1
    <3> QED BY <2>1, <2>2, <3>2
  <2>3. CASE j # n + 1
    BY <1>2, <1>3, <1>5, <2>1, <2>3
  <2> QED BY <2>2, <2>3
<1> HIDE DEF g
<1> QED BY <1>1, <1>4, <1>5 DEF Ordered

LEMMA GreatestNumber ==
  ASSUME NEW S, IsFiniteSet(S), S \subseteq Nat, S # {}
  PROVE  \E m \in S : \A x \in S : x <= m
<1> DEFINE Above(k) == {x \in S : k < x}
           Sizes == {Cardinality(Above(k)) : k \in S}
<1>1. \A k \in S : IsFiniteSet(Above(k)) /\ Cardinality(Above(k)) \in Nat
  BY FS_Subset, FS_CardinalityType
<1>2. Sizes \subseteq Nat /\ Sizes # {}
  BY <1>1
<1> HIDE DEF Sizes
<1>3. PICK c \in Sizes : \A d \in Sizes : c <= d
  BY <1>2, LeastNumber
<1>4. PICK m \in S : c = Cardinality(Above(m))
  BY <1>3 DEF Sizes
<1>5. ASSUME NEW x \in S, ~ (x <= m) PROVE FALSE
  <2>1. x \in Nat /\ m \in Nat /\ m < x
    BY <1>5
  <2>2. \A y \in Nat : x < y => m < y
    BY <2>1
  <2>3. Above(x) \subseteq Above(m) \ {x}
    <3>1. x \notin Above(x)
      BY <2>1
    <3>2. \A y \in Above(x) : y \in S /\ m < y
      BY <2>2
    <3> QED BY <3>1, <3>2
  <2>4. x \in Above(m)
    BY <2>1
  <2>5. IsFiniteSet(Above(m) \ {x}) /\ Cardinality(Above(m) \ {x}) = c - 1
    BY <1>1, <1>4, <2>4, FS_RemoveElement
  <2>6. Cardinality(Above(x)) <= c - 1
    BY <2>3, <2>5, FS_Subset
  <2>7. Cardinality(Above(x)) \in Sizes /\ Cardinality(Above(x)) \in Nat /\ c \in Nat
    BY <1>1, <1>4 DEF Sizes
  <2> HIDE DEF Above
  <2>8. c <= Cardinality(Above(x))
    BY <1>3, <2>7
  <2> QED BY <2>6, <2>7, <2>8
<1> QED BY <1>5

LEMMA NumbersInOrder ==
  ASSUME NEW S, IsFiniteSet(S), S \subseteq Nat
  PROVE  Ordered(S)
<1> DEFINE T == {n \in Nat : \A U \in SUBSET S : Cardinality(U) = n => Ordered(U)}
<1>1. 0 \in T
  <2> SUFFICES ASSUME NEW U \in SUBSET S, Cardinality(U) = 0 PROVE Ordered(U)
    OBVIOUS
  <2>1. U = {} /\ 1..0 = {}
    <3>1. IsFiniteSet(U)
      BY FS_Subset
    <3> QED BY <3>1, FS_EmptySet
  <2>2. [i \in 1..0 |-> i] \in [1..0 -> U]
    BY <2>1
  <2> QED BY <2>1, <2>2 DEF Ordered
<1>2. ASSUME NEW n \in T PROVE n + 1 \in T
  <2> SUFFICES ASSUME NEW U \in SUBSET S, Cardinality(U) = n + 1 PROVE Ordered(U)
    OBVIOUS
  <2>1. IsFiniteSet(U) /\ U \subseteq Nat
    BY FS_Subset
  <2>4. U # {}
    <3>1. n + 1 # 0
      OBVIOUS
    <3> QED BY <3>1, FS_EmptySet
  <2>2. PICK m \in U : \A x \in U : x <= m
    BY <2>1, <2>4, GreatestNumber
  <2>3. Cardinality(U \ {m}) = n /\ U \ {m} \in SUBSET S
    <3>1. Cardinality(U \ {m}) = Cardinality(U) - 1
      BY <2>1, FS_RemoveElement
    <3> QED BY <3>1
  <2> QED BY <2>1, <2>2, <2>3, GreatestLast
<1>3. T = Nat
  <2> HIDE DEF T
  <2>1. T \subseteq Nat
    BY DEF T
  <2> QED BY <1>1, <1>2, <2>1, Counting
<1> QED BY <1>3, FS_CardinalityType

\* In order are the numbers of the set and no others.
LEMMA AscendingIs ==
  ASSUME NEW S, IsFiniteSet(S), S \subseteq Nat
  PROVE  /\ Wire!Ascending(S) \in [1..Wire!Cardinality(S) -> S] /\ Wire!Cardinality(S) \in Nat
         /\ Wire!Ascending(S) \in Seq(S) /\ Wire!Range(Wire!Ascending(S)) = S
<1> DEFINE n == Cardinality(S)
           f == Wire!Ascending(S)
<1>0. Wire!Cardinality(S) = n
  BY DEF Wire!Cardinality, Cardinality
<1>1. n \in Nat
  BY FS_CardinalityType
<1>2. f \in [1..n -> S] /\ \A i, j \in 1..n : i < j => f[i] < f[j]
  BY <1>0, NumbersInOrder DEF Wire!Ascending, Ordered
<1> HIDE DEF f
<1>3. ASSUME NEW i \in 1..n, NEW j \in 1..n, f[i] = f[j] PROVE i = j
  <2>1. f[i] \in Nat /\ f[j] \in Nat
    BY <1>2
  <2>2. ~ (f[i] < f[j]) /\ ~ (f[j] < f[i])
    BY <1>3, <2>1
  <2>3. ~ (i < j) /\ ~ (j < i)
    BY <1>2, <2>2
  <2> QED BY <1>1, <2>3
<1>4. f \in Injection(1..n, S)
  BY <1>2, <1>3 DEF Injection, IsInjective
<1>5. IsFiniteSet(1..n) /\ Cardinality(1..n) = n
  BY <1>1, FS_Interval
<1>6. f \in Surjection(1..n, S)
  BY <1>4, <1>5, FS_Injection
<1>7. Wire!Range(f) = S
  BY <1>2, <1>6 DEF Surjection, Wire!Range
<1>8. f \in Seq(S)
  BY <1>1, <1>2
<1> QED BY <1>0, <1>1, <1>2, <1>7, <1>8 DEF f

\* Sequences put end to end: what is in any of them is there, and nothing else.
LEMMA FlattenIs ==
  ASSUME NEW T, NEW seqs \in Seq(Seq(T))
  PROVE  /\ Wire!FlattenSeq(seqs) \in Seq(T)
         /\ Wire!Range(Wire!FlattenSeq(seqs)) = UNION {Wire!Range(seqs[k]) : k \in DOMAIN seqs}
<1> DEFINE n == Len(seqs)
           Body(f, m) == [i \in 1..m |-> IF i = 1 THEN seqs[i] ELSE f[i - 1] \o seqs[i]]
           Can == {m \in 0..n : \E f : f = Body(f, m)}
           flatten == CHOOSE f : f = Body(f, n)
           Upto(i) == UNION {Wire!Range(seqs[k]) : k \in 1..i}
<1>1. n \in Nat /\ DOMAIN seqs = 1..n /\ \A k \in 1..n : seqs[k] \in Seq(T)
  OBVIOUS
<1>2. 0 \in Can
  <2>1. \A f : Body(f, 0) = [i \in {} |-> i]
    OBVIOUS
  <2>2. \E f : f = Body(f, 0)
    BY <2>1
  <2>3. 0 \in 0..n
    BY <1>1
  <2> QED BY <2>2, <2>3
<1>3. ASSUME NEW m \in Can, m # n PROVE m + 1 \in Can
  <2>1. PICK f : f = Body(f, m)
    OBVIOUS
  <2> DEFINE g == [i \in 1..(m + 1) |-> IF i \in 1..m THEN f[i]
                                          ELSE IF i = 1 THEN seqs[i] ELSE f[i - 1] \o seqs[i]]
  <2>2. m \in Nat /\ m + 1 \in 0..n
    <3>1. m \in 0..n
      OBVIOUS
    <3>2. n \in Nat
      BY <1>1
    <3> HIDE DEF Can, n
    <3> QED BY <1>3, <3>1, <3>2
  <2>3. \A i \in 1..(m + 1) : i # 1 => i - 1 \in 1..m
    BY <2>2
  <2>4. \A i \in 1..m : g[i] = f[i]
    BY <2>2
  <2>5. \A i \in 1..m : f[i] = IF i = 1 THEN seqs[i] ELSE f[i - 1] \o seqs[i]
    BY <2>1
  <2>6. \A i \in 1..(m + 1) : g[i] = IF i = 1 THEN seqs[i] ELSE g[i - 1] \o seqs[i]
    BY <2>3, <2>4, <2>5
  <2>7. g = Body(g, m + 1)
    BY <2>6
  <2> HIDE DEF g
  <2> QED BY <2>2, <2>7
<1>4. n \in Can
  <2> DEFINE N == {m \in Nat : m <= n => m \in Can}
  <2>1. 0 \in N /\ N \subseteq Nat
    BY <1>2
  <2>2. ASSUME NEW m \in N PROVE m + 1 \in N
    <3> HIDE DEF Can, n
    <3>1. m + 1 <= n => m <= n /\ m # n
      BY <1>1
    <3>2. m + 1 <= n => m \in Can
      BY <3>1
    <3>3. m + 1 <= n => m + 1 \in Can
      BY <1>3, <3>1, <3>2
    <3> QED BY <3>3
  <2> HIDE DEF N, Can
  <2>3. N = Nat
    BY <2>1, <2>2, Counting
  <2> QED BY <1>1, <2>3 DEF N
<1>5. flatten = Body(flatten, n)
  BY <1>4
<1> HIDE DEF flatten
<1>6. \A i \in 1..n : flatten[i] = IF i = 1 THEN seqs[i] ELSE flatten[i - 1] \o seqs[i]
  BY <1>5
<1> DEFINE Good == {i \in Nat : i \in 1..n => flatten[i] \in Seq(T) /\ Wire!Range(flatten[i]) = Upto(i)}
<1>7. ASSUME NEW i \in Good PROVE i + 1 \in Good
  <2> SUFFICES ASSUME i + 1 \in 1..n
               PROVE  flatten[i + 1] \in Seq(T) /\ Wire!Range(flatten[i + 1]) = Upto(i + 1)
    OBVIOUS
  <2>1. CASE i = 0
    <3>1. flatten[1] = seqs[1] /\ seqs[1] \in Seq(T)
      BY <1>1, <1>6, <2>1
    <3>2. 1..1 = {1}
      OBVIOUS
    <3>3. Upto(1) = Wire!Range(seqs[1])
      BY <3>2
    <3> QED BY <2>1, <3>1, <3>3
  <2>2. CASE i # 0
    <3>1. i \in 1..n /\ i + 1 # 1 /\ (i + 1) - 1 = i
      BY <1>1, <2>2
    <3>2. flatten[i + 1] = flatten[i] \o seqs[i + 1]
      BY <1>6, <3>1
    <3>3. flatten[i] \in Seq(T) /\ seqs[i + 1] \in Seq(T) /\ Wire!Range(flatten[i]) = Upto(i)
      BY <1>1, <3>1
    <3>4. Wire!Range(flatten[i] \o seqs[i + 1]) = Wire!Range(flatten[i]) \cup Wire!Range(seqs[i + 1])
      <4> DEFINE a == flatten[i]
                 b == seqs[i + 1]
      <4>1. a \in Seq(T) /\ b \in Seq(T)
        BY <3>3
      <4> HIDE DEF a, b
      <4>2. /\ DOMAIN (a \o b) = 1..(Len(a) + Len(b)) /\ Len(a) \in Nat /\ Len(b) \in Nat
            /\ DOMAIN a = 1..Len(a) /\ DOMAIN b = 1..Len(b)
            /\ \A k \in 1..(Len(a) + Len(b)) :
                 (a \o b)[k] = IF k <= Len(a) THEN a[k] ELSE b[k - Len(a)]
        BY <4>1
      <4>3. Wire!Range(a \o b) \subseteq Wire!Range(a) \cup Wire!Range(b)
        BY <4>2 DEF Wire!Range
      <4>4. Wire!Range(a) \subseteq Wire!Range(a \o b)
        BY <4>2 DEF Wire!Range
      <4>5. ASSUME NEW k \in 1..Len(b) PROVE b[k] \in Wire!Range(a \o b)
        <5>1. k + Len(a) \in 1..(Len(a) + Len(b)) /\ ~ (k + Len(a) <= Len(a))
              /\ (k + Len(a)) - Len(a) = k
          BY <4>2
        <5>2. (a \o b)[k + Len(a)] = b[k]
          BY <4>2, <5>1
        <5> QED BY <4>2, <5>1, <5>2 DEF Wire!Range
      <4>6. Wire!Range(b) \subseteq Wire!Range(a \o b)
        BY <4>2, <4>5 DEF Wire!Range
      <4>7. Wire!Range(a \o b) = Wire!Range(a) \cup Wire!Range(b)
        BY <4>3, <4>4, <4>6
      <4> QED BY <4>7 DEF a, b
    <3>5. 1..(i + 1) = 1..i \cup {i + 1}
      BY <3>1
    <3>6. Upto(i + 1) = Upto(i) \cup Wire!Range(seqs[i + 1])
      BY <3>5
    <3>7. flatten[i] \o seqs[i + 1] \in Seq(T)
      BY <3>3
    <3> QED BY <3>2, <3>3, <3>4, <3>6, <3>7
  <2> QED BY <2>1, <2>2
<1>8. Good = Nat
  <2>1. 0 \in Good /\ Good \subseteq Nat
    OBVIOUS
  <2> HIDE DEF Good
  <2> QED BY <1>7, <2>1, Counting
<1>9. CASE n = 0
  <2>1. Wire!FlattenSeq(seqs) = seqs /\ seqs = <<>>
    BY <1>9 DEF Wire!FlattenSeq
  <2>2. <<>> \in Seq(T) /\ Wire!Range(<<>>) = {} /\ DOMAIN <<>> = {}
    BY DEF Wire!Range
  <2> QED BY <2>1, <2>2
<1>10. CASE n # 0
  <2>1. Wire!FlattenSeq(seqs) = flatten[n]
    BY <1>10 DEF Wire!FlattenSeq, flatten
  <2>2. n \in 1..n
    BY <1>1, <1>10
  <2>3. flatten[n] \in Seq(T) /\ Wire!Range(flatten[n]) = Upto(n)
    <3> HIDE DEF n
    <3> QED BY <1>1, <1>8, <2>2
  <2> QED BY <1>1, <2>1, <2>3
<1> QED BY <1>9, <1>10

------------------------------------------------------------------------------
(* What a channel, its sink and its hosts are                                *)

\* A host's side of the wire, and what it has in hand.
Side ==
  [up : BOOLEAN, connected : BOOLEAN, from : 0..Len(channel), unread : BOOLEAN,
   gateway : 0..Len(channel), after : 0..Len(channel), handed : SUBSET Wire!Said,
   waiting : Seq(Wire!Said)]
Giveable == Messages \X (0..MaxRaised)
Holding ==
  [in : {"idle", "hearing", "replying", "marking"}, giving : Seq(Giveable),
   posted : {Wire!Never} \cup Wire!Posts]

\* A message is written once, and what is given was asked by one: of no decision,
\* where the sink accepts no such message.
SaidOnce == \A n, k \in Wire!Said : channel[n].of = channel[k].of => n = k
IsAsked(g) ==
  \E n \in Wire!Said : channel[n].of = g[1] /\ (channel[n].kind = "other" => g[2] = 0)

\* A host that hears or replies has something to give, and no other has; what
\* is to be marked was posted.
Fits(w) ==
  /\ w.in \in {"hearing", "replying"} <=> w.giving # <<>>
  /\ w.in = "marking" => w.posted \in Wire!Posts
  /\ \A g \in Wire!Range(w.giving) : IsAsked(g)

PostedInTime == \A n \in Wire!Posts : channel[n].at <= now

WireTyped ==
  /\ Wire!TypeOK /\ Len(raised) <= MaxRaised /\ PostedInTime /\ SaidOnce
  /\ \A h \in Hosts : Fits(work[h])

LEMMA TypesAre ==
  Wire!TypeOK <=>
    /\ channel \in Seq(Wire!Entry) /\ now \in 1..MaxNow /\ raised \in Seq(1..now)
    /\ standing \subseteq DOMAIN raised /\ recorded \subseteq Giveable
    /\ mark \in [at : 0..now, delivery : {Wire!Never} \cup Wire!Posts]
    /\ presenter \in Hosts \cup {NoHolder}
    /\ wire \in [Hosts -> Side] /\ work \in [Hosts -> Holding]
    /\ skipped \subseteq Hosts \X Messages /\ lost \in 0..MaxLost
BY DEF Wire!TypeOK, Side, Holding, Giveable

LEMMA EntriesAre ==
  ASSUME channel \in Seq(Wire!Entry), NEW n \in Wire!Ids
  PROVE  /\ channel[n].what = "said" => /\ channel[n].of \in Messages /\ channel[n].kind \in Kinds
                                        /\ channel[n].number \in 0..MaxRaised
         /\ channel[n].what = "reply" => channel[n].of \in Messages /\ channel[n].number \in 0..MaxRaised
         /\ channel[n].what = "post" => channel[n].at \in 1..MaxNow
<1>1. channel[n] \in Wire!Entry
  BY DEF Wire!Ids
<1> QED BY <1>1 DEF Wire!Entry

\* What the channel's end is, and that it holds finitely many messages.
LEMMA IdsAre ==
  ASSUME channel \in Seq(Wire!Entry)
  PROVE  /\ Len(channel) \in Nat /\ Wire!Ids = 1..Len(channel)
         /\ Wire!Said \subseteq Wire!Ids /\ Wire!Posts \subseteq Wire!Ids
         /\ \A S : S \subseteq Wire!Ids => IsFiniteSet(S) /\ S \subseteq Nat
<1>1. Len(channel) \in Nat /\ Wire!Ids = 1..Len(channel)
  BY DEF Wire!Ids
<1>2. IsFiniteSet(Wire!Ids) /\ Wire!Ids \subseteq Nat
  BY <1>1, FS_Interval
<1>3. \A S : S \subseteq Wire!Ids => IsFiniteSet(S) /\ S \subseteq Nat
  BY <1>2, FS_Subset
<1> QED BY <1>1, <1>3 DEF Wire!Said, Wire!Posts

\* A step that adds nothing to the channel, or one entry at its end.
Onward ==
  \/ channel' = channel
  \/ \E e \in Wire!Entry : channel' = Append(channel, e)

LEMMA OnwardIs ==
  ASSUME channel \in Seq(Wire!Entry), Onward
  PROVE  /\ channel' \in Seq(Wire!Entry) /\ Len(channel') \in Nat /\ Len(channel) <= Len(channel')
         /\ Wire!Ids \subseteq Wire!Ids' /\ \A n \in Wire!Ids : channel'[n] = channel[n]
         /\ \A n \in Wire!Ids' \ Wire!Ids : n = Len(channel') /\ n = Len(channel) + 1 /\ channel' # channel
         /\ Wire!Said \subseteq Wire!Said' /\ Wire!Posts \subseteq Wire!Posts'
         /\ Wire!Said' \cap Wire!Ids = Wire!Said /\ Wire!Posts' \cap Wire!Ids = Wire!Posts
<1>1. CASE channel' = channel
  BY <1>1 DEF Wire!Ids, Wire!Said, Wire!Posts
<1>2. CASE \E e \in Wire!Entry : channel' = Append(channel, e)
  <2>1. PICK e \in Wire!Entry : channel' = Append(channel, e)
    BY <1>2
  <2>2. /\ channel' \in Seq(Wire!Entry) /\ Len(channel) \in Nat
        /\ Len(channel') = Len(channel) + 1
        /\ DOMAIN channel = 1..Len(channel) /\ DOMAIN channel' = 1..(Len(channel) + 1)
        /\ \A n \in 1..Len(channel) : channel'[n] = channel[n]
    BY <2>1
  <2>3. /\ Wire!Ids \subseteq Wire!Ids' /\ \A n \in Wire!Ids : channel'[n] = channel[n]
        /\ \A n \in Wire!Ids' \ Wire!Ids : n = Len(channel) + 1
    BY <2>2 DEF Wire!Ids
  <2>4. /\ Wire!Said \subseteq Wire!Said' /\ Wire!Posts \subseteq Wire!Posts'
        /\ Wire!Said' \cap Wire!Ids = Wire!Said /\ Wire!Posts' \cap Wire!Ids = Wire!Posts
    BY <2>3 DEF Wire!Said, Wire!Posts
  <2>5. channel' # channel
    BY <2>2
  <2> QED BY <2>2, <2>3, <2>4, <2>5
<1> QED BY <1>1, <1>2 DEF Onward

LEMMA SidesGrow ==
  ASSUME channel \in Seq(Wire!Entry), Onward
  PROVE  Side \subseteq Side' /\ Holding \subseteq Holding'
<1>1. /\ Len(channel) \in Nat /\ Len(channel') \in Nat /\ Len(channel) <= Len(channel')
      /\ Wire!Said \subseteq Wire!Said' /\ Wire!Posts \subseteq Wire!Posts'
  BY OnwardIs, IdsAre
<1>2. 0..Len(channel) \subseteq 0..Len(channel')
  BY <1>1
<1>3. Seq(Wire!Said) \subseteq Seq(Wire!Said') /\ SUBSET Wire!Said \subseteq SUBSET Wire!Said'
  BY <1>1
<1>4. Side \subseteq Side'
  <2> SUFFICES ASSUME NEW w \in Side PROVE w \in Side'
    OBVIOUS
  <2>1. /\ w = [up |-> w.up, connected |-> w.connected, from |-> w.from, unread |-> w.unread,
                gateway |-> w.gateway, after |-> w.after, handed |-> w.handed, waiting |-> w.waiting]
        /\ w.up \in BOOLEAN /\ w.connected \in BOOLEAN /\ w.unread \in BOOLEAN
        /\ w.from \in 0..Len(channel) /\ w.gateway \in 0..Len(channel) /\ w.after \in 0..Len(channel)
        /\ w.handed \in SUBSET Wire!Said /\ w.waiting \in Seq(Wire!Said)
    BY DEF Side
  <2> QED BY <1>2, <1>3, <2>1 DEF Side
<1>5. Holding \subseteq Holding'
  BY <1>1 DEF Holding, Giveable
<1> QED BY <1>4, <1>5

\* The types of a step that raises nothing and does not turn the clock.
LEMMA TypedOn ==
  ASSUME Wire!TypeOK, Onward, UNCHANGED Wire!clock, standing' \subseteq standing,
         recorded' \subseteq Giveable, mark' \in [at : 0..now, delivery : {Wire!Never} \cup Wire!Posts],
         presenter' \in Hosts \cup {NoHolder}, wire' \in [Hosts -> Side'],
         work' \in [Hosts -> Holding'], skipped' \subseteq Hosts \X Messages,
         lost' \in 0..MaxLost
  PROVE  Wire!TypeOK'
<1>1. channel \in Seq(Wire!Entry)
  BY TypesAre
<1>2. channel' \in Seq(Wire!Entry) /\ Wire!Posts \subseteq Wire!Posts'
  BY <1>1, OnwardIs
<1>3. mark' \in [at : 0..now', delivery : {Wire!Never} \cup Wire!Posts']
  BY <1>2 DEF Wire!clock
<1>4. /\ now' \in 1..MaxNow /\ raised' \in Seq(1..now') /\ standing' \subseteq DOMAIN raised'
  BY TypesAre DEF Wire!clock
<1>5. Giveable' = Giveable
  BY DEF Giveable
<1> QED BY <1>2, <1>3, <1>4, <1>5 DEF Wire!TypeOK, Side, Holding, Giveable

------------------------------------------------------------------------------
(* What is in hand                                                           *)

LEMMA AskedOn ==
  ASSUME channel \in Seq(Wire!Entry), Onward, NEW g, IsAsked(g)
  PROVE  \E n \in Wire!Said' : channel'[n].of = g[1] /\ (channel'[n].kind = "other" => g[2] = 0)
<1>1. PICK n \in Wire!Said : channel[n].of = g[1] /\ (channel[n].kind = "other" => g[2] = 0)
  BY DEF IsAsked
<1>2. n \in Wire!Said' /\ channel'[n] = channel[n]
  BY IdsAre, OnwardIs
<1> QED BY <1>1, <1>2

LEMMA HandsStill ==
  ASSUME WireTyped, Onward, UNCHANGED work
  PROVE  work' \in [Hosts -> Holding'] /\ \A k \in Hosts : Fits(work[k])'
<1>1. channel \in Seq(Wire!Entry) /\ work \in [Hosts -> Holding]
  BY TypesAre DEF WireTyped
<1>2. work' \in [Hosts -> Holding']
  BY <1>1, SidesGrow
<1>3. ASSUME NEW k \in Hosts PROVE Fits(work[k])'
  <2>1. Fits(work[k]) /\ work'[k] = work[k]
    BY DEF WireTyped
  <2>2. Wire!Posts \subseteq Wire!Posts'
    BY <1>1, OnwardIs
  <2>3. \A g \in Wire!Range(work'[k].giving) : IsAsked(g)'
    BY <1>1, <2>1, AskedOn DEF Fits, IsAsked
  <2> QED BY <2>1, <2>2, <2>3 DEF Fits
<1> QED BY <1>2, <1>3

\* One host's hand goes on to something that fits.
LEMMA HandGoesTo ==
  ASSUME WireTyped, Onward, NEW h \in Hosts, NEW w, work' = [work EXCEPT ![h] = w],
         w \in Holding', w.in \in {"hearing", "replying"} <=> w.giving # <<>>,
         w.in = "marking" => w.posted \in Wire!Posts',
         \A g \in Wire!Range(w.giving) : IsAsked(g)
  PROVE  work' \in [Hosts -> Holding'] /\ \A k \in Hosts : Fits(work[k])'
<1>1. channel \in Seq(Wire!Entry) /\ work \in [Hosts -> Holding]
  BY TypesAre DEF WireTyped
<1>2. Holding \subseteq Holding' /\ Wire!Posts \subseteq Wire!Posts'
  BY <1>1, SidesGrow, OnwardIs
<1>3. work' \in [Hosts -> Holding']
  BY <1>1, <1>2
<1>4. ASSUME NEW k \in Hosts PROVE Fits(work[k])'
  <2>1. CASE k = h
    <3>1. work'[k] = w
      BY <1>1, <2>1
    <3>2. \A g \in Wire!Range(work'[k].giving) : IsAsked(g)'
      BY <1>1, <3>1, AskedOn DEF IsAsked
    <3> QED BY <3>1, <3>2 DEF Fits
  <2>2. CASE k # h
    <3>1. work'[k] = work[k] /\ Fits(work[k])
      BY <1>1, <2>2 DEF WireTyped
    <3>2. \A g \in Wire!Range(work'[k].giving) : IsAsked(g)'
      BY <1>1, <3>1, AskedOn DEF Fits, IsAsked
    <3> QED BY <1>2, <3>1, <3>2 DEF Fits
  <2> QED BY <2>1, <2>2
<1> QED BY <1>3, <1>4

\* What is in hand, with less of it to give.
GivenOn(w, in, rest) == [w EXCEPT !.in = in, !.giving = rest]

LEMMA GoesOnTo ==
  ASSUME WireTyped, Onward, NEW h \in Hosts, NEW rest \in Seq(Giveable),
         Wire!Range(rest) \subseteq Wire!Range(work[h].giving), Wire!GoesOnWith(h, rest)
  PROVE  /\ work' \in [Hosts -> Holding'] /\ \A k \in Hosts : Fits(work[k])'
         /\ work'[h].giving = rest /\ work'[h].in \in {"idle", "hearing"}
         /\ \A k \in Hosts : k # h => work'[k] = work[k]
<1> DEFINE to == IF rest = <<>> THEN "idle" ELSE "hearing"
           w == GivenOn(work[h], to, rest)
<1>1. channel \in Seq(Wire!Entry) /\ work \in [Hosts -> Holding] /\ work[h] \in Holding
  BY TypesAre DEF WireTyped
<1>2. work' = [work EXCEPT ![h] = w]
  BY DEF Wire!GoesOnWith, GivenOn
<1>3. w \in Holding /\ w.in = to /\ w.giving = rest /\ w.posted = work[h].posted
  BY <1>1 DEF Holding, GivenOn
<1>4. \A g \in Wire!Range(rest) : IsAsked(g)
  BY DEF WireTyped, Fits
<1>5. w \in Holding'
  BY <1>1, <1>3, SidesGrow
<1> HIDE DEF w
<1>6. work' \in [Hosts -> Holding'] /\ \A k \in Hosts : Fits(work[k])'
  BY <1>2, <1>3, <1>4, <1>5, HandGoesTo
<1> QED BY <1>1, <1>2, <1>3, <1>6

\* Nothing in hand, and a rendering to be marked.
LEMMA IdleFits ==
  ASSUME WireTyped
  PROVE  /\ Wire!Idle \in Holding /\ Wire!Idle.in = "idle" /\ Wire!Idle.posted = Wire!Never
         /\ Wire!Idle.giving = <<>> /\ Wire!Range(Wire!Idle.giving) = {}
BY DEF Wire!Idle, Holding, Wire!Never, Wire!Range

LEMMA GoesIdle ==
  ASSUME WireTyped, Onward, NEW h \in Hosts, work' = [work EXCEPT ![h] = Wire!Idle]
  PROVE  work' \in [Hosts -> Holding'] /\ \A k \in Hosts : Fits(work[k])'
<1>1. channel \in Seq(Wire!Entry)
  BY TypesAre DEF WireTyped
<1>2. Wire!Idle \in Holding'
  BY <1>1, IdleFits, SidesGrow
<1> QED BY <1>2, IdleFits, HandGoesTo

\* What a host that hears or replies gives next, and what comes after.
LEMMA GivenIs ==
  ASSUME WireTyped, NEW h \in Hosts, work[h].in \in {"hearing", "replying"}
  PROVE  /\ Wire!Given(h) \in Giveable /\ IsAsked(Wire!Given(h))
         /\ Wire!Given(h) \in Wire!Range(work[h].giving)
         /\ Wire!Given(h) = work[h].giving[1] /\ Len(work[h].giving) \in Nat \ {0}
         /\ Tail(work[h].giving) \in Seq(Giveable)
         /\ Wire!Range(Tail(work[h].giving)) \subseteq Wire!Range(work[h].giving)
         /\ Wire!Range(work[h].giving) = {Wire!Given(h)} \cup Wire!Range(Tail(work[h].giving))
<1> DEFINE s == work[h].giving
<1>1. s \in Seq(Giveable) /\ s # <<>> /\ \A g \in Wire!Range(s) : IsAsked(g)
  BY TypesAre DEF WireTyped, Fits, Holding
<1>2. Wire!Given(h) = s[1]
  BY <1>1 DEF Wire!Given
<1> HIDE DEF s
<1>3. /\ Len(s) \in Nat \ {0} /\ DOMAIN s = 1..Len(s) /\ 1 \in DOMAIN s /\ s[1] \in Giveable
      /\ Tail(s) \in Seq(Giveable) /\ DOMAIN Tail(s) = 1..(Len(s) - 1)
      /\ \A k \in 1..(Len(s) - 1) : Tail(s)[k] = s[k + 1]
  BY <1>1
<1>4. Wire!Range(Tail(s)) \subseteq Wire!Range(s)
  <2>1. \A k \in 1..(Len(s) - 1) : k + 1 \in 1..Len(s)
    BY <1>3
  <2> QED BY <1>3, <2>1 DEF Wire!Range
<1>5. s[1] \in Wire!Range(s)
  BY <1>3 DEF Wire!Range
<1>6. ASSUME NEW k \in DOMAIN s, k # 1 PROVE s[k] \in Wire!Range(Tail(s))
  <2>1. k - 1 \in 1..(Len(s) - 1) /\ (k - 1) + 1 = k
    BY <1>3, <1>6
  <2>2. Tail(s)[k - 1] = s[k]
    BY <1>3, <2>1
  <2> QED BY <1>3, <2>1, <2>2 DEF Wire!Range
<1>7. Wire!Range(s) \subseteq {s[1]} \cup Wire!Range(Tail(s))
  BY <1>6 DEF Wire!Range
<1>8. Wire!Range(s) = {s[1]} \cup Wire!Range(Tail(s))
  BY <1>4, <1>5, <1>7
<1> QED BY <1>1, <1>2, <1>3, <1>4, <1>5, <1>8 DEF s

------------------------------------------------------------------------------
(* Every step keeps the types                                                *)

LEMMA StepTyped ==
  ASSUME WireTyped, Onward, UNCHANGED Wire!clock, standing' \subseteq standing,
         recorded' \subseteq Giveable, mark' \in [at : 0..now, delivery : {Wire!Never} \cup Wire!Posts],
         presenter' \in Hosts \cup {NoHolder}, wire' \in [Hosts -> Side'],
         work' \in [Hosts -> Holding'], \A k \in Hosts : Fits(work[k])',
         skipped' \subseteq Hosts \X Messages, lost' \in 0..MaxLost,
         \A n \in Wire!Posts' : n \in Wire!Posts \/ channel'[n].at <= now, SaidOnce'
  PROVE  WireTyped'
<1>1. Wire!TypeOK'
  BY TypedOn DEF WireTyped
<1>2. PostedInTime'
  <2>1. channel \in Seq(Wire!Entry)
    BY TypesAre DEF WireTyped
  <2>2. \A n \in Wire!Posts : channel'[n] = channel[n]
    BY <2>1, IdsAre, OnwardIs
  <2> QED BY <2>2 DEF WireTyped, PostedInTime, Wire!clock
<1> QED BY <1>1, <1>2 DEF WireTyped, Wire!clock

LEMMA SidesStill ==
  ASSUME WireTyped, Onward, UNCHANGED wire
  PROVE  wire' \in [Hosts -> Side']
BY TypesAre, SidesGrow DEF WireTyped

LEMMA SideGoesTo ==
  ASSUME WireTyped, Onward, NEW h \in Hosts, NEW w \in Side', wire' = [wire EXCEPT ![h] = w]
  PROVE  /\ wire' \in [Hosts -> Side'] /\ wire'[h] = w
         /\ \A k \in Hosts : k # h => wire'[k] = wire[k]
BY TypesAre, SidesGrow DEF WireTyped

\* Nothing new was said, and of what was posted nothing is late.
LEMMA NothingSaid ==
  ASSUME WireTyped,
         \/ channel' = channel
         \/ \E e \in Wire!Entry : channel' = Append(channel, e) /\ e.what # "said"
                                  /\ (e.what = "post" => e.at <= now)
  PROVE  /\ Onward /\ Wire!Said' = Wire!Said /\ SaidOnce'
         /\ \A n \in Wire!Posts' : n \in Wire!Posts \/ channel'[n].at <= now
<1>1. channel \in Seq(Wire!Entry) /\ SaidOnce
  BY TypesAre DEF WireTyped
<1>2. CASE channel' = channel
  <2>1. Wire!Said' = Wire!Said /\ Wire!Posts' = Wire!Posts
    BY <1>2 DEF Wire!Said, Wire!Posts, Wire!Ids
  <2> QED BY <1>1, <1>2, <2>1 DEF Onward, SaidOnce
<1>3. CASE \E e \in Wire!Entry : channel' = Append(channel, e) /\ e.what # "said"
                                  /\ (e.what = "post" => e.at <= now)
  <2>1. PICK e \in Wire!Entry : /\ channel' = Append(channel, e) /\ e.what # "said"
                                /\ e.what = "post" => e.at <= now
    BY <1>3
  <2>2. Onward
    BY <2>1 DEF Onward
  <2>3. \A n \in Wire!Ids' \ Wire!Ids : channel'[n] = e
    <3>1. \A n \in Wire!Ids' \ Wire!Ids : n = Len(channel) + 1
      BY <1>1, <2>2, OnwardIs
    <3>2. channel'[Len(channel) + 1] = e
      BY <1>1, <2>1
    <3> QED BY <3>1, <3>2
  <2>4. Wire!Said' = Wire!Said
    <3>1. \A n \in Wire!Said' : n \in Wire!Ids
      BY <2>1, <2>3 DEF Wire!Said
    <3> QED BY <1>1, <2>2, <3>1, OnwardIs
  <2>5. \A n \in Wire!Said : channel'[n] = channel[n]
    BY <1>1, <2>2, OnwardIs, IdsAre
  <2>6. SaidOnce'
    BY <1>1, <2>4, <2>5 DEF SaidOnce
  <2>7. \A n \in Wire!Posts' : n \in Wire!Posts \/ channel'[n].at <= now
    <3>1. \A n \in Wire!Posts' : n \in Wire!Ids => n \in Wire!Posts
      BY <1>1, <2>2, OnwardIs
    <3>2. \A n \in Wire!Posts' : n \in Wire!Ids' /\ channel'[n].what = "post"
      BY DEF Wire!Posts
    <3> QED BY <2>1, <2>3, <3>1, <3>2
  <2> QED BY <2>2, <2>4, <2>6, <2>7
<1> QED BY <1>2, <1>3

LEMMA FaultCounted ==
  ASSUME Wire!ChatAssumption, Wire!TypeOK, lost < MaxLost, lost' = lost + 1
  PROVE  lost' \in 0..MaxLost
BY TypesAre DEF Wire!ChatAssumption

\* A step of one host's side of the wire, and of what it skips.
LEMMA SideStepTyped ==
  ASSUME WireTyped, NEW h \in Hosts, NEW w \in Side, wire' = [wire EXCEPT ![h] = w],
         UNCHANGED <<channel, Wire!clock, standing, recorded, mark, presenter, work>>,
         skipped' \subseteq Hosts \X Messages, lost' \in 0..MaxLost
  PROVE  WireTyped'
<1>1. /\ Onward /\ SaidOnce' /\ Side' = Side
      /\ \A n \in Wire!Posts' : n \in Wire!Posts \/ channel'[n].at <= now
  BY NothingSaid DEF Side, Wire!Said, Wire!Ids
<1>2. work' \in [Hosts -> Holding'] /\ \A k \in Hosts : Fits(work[k])'
  BY <1>1, HandsStill
<1>3. wire' \in [Hosts -> Side']
  BY <1>1, SideGoesTo
<1>4. /\ recorded \subseteq Giveable /\ mark \in [at : 0..now, delivery : {Wire!Never} \cup Wire!Posts]
      /\ presenter \in Hosts \cup {NoHolder}
  BY TypesAre DEF WireTyped
<1> QED BY <1>1, <1>2, <1>3, <1>4, StepTyped

\* A host's side, field by field.
LEMMA SideIs ==
  ASSUME WireTyped, NEW h \in Hosts
  PROVE  /\ wire[h] \in Side /\ wire[h].up \in BOOLEAN /\ wire[h].connected \in BOOLEAN
         /\ wire[h].from \in 0..Len(channel) /\ wire[h].unread \in BOOLEAN
         /\ wire[h].gateway \in 0..Len(channel) /\ wire[h].after \in 0..Len(channel)
         /\ wire[h].handed \subseteq Wire!Said /\ wire[h].waiting \in Seq(Wire!Said)
         /\ Wire!Range(wire[h].waiting) \subseteq Wire!Said
         /\ channel \in Seq(Wire!Entry) /\ Len(channel) \in Nat
         /\ skipped \subseteq Hosts \X Messages /\ lost \in 0..MaxLost
<1>1. /\ wire[h] \in Side /\ channel \in Seq(Wire!Entry)
      /\ skipped \subseteq Hosts \X Messages /\ lost \in 0..MaxLost
  BY TypesAre DEF WireTyped
<1>2. wire[h].waiting \in Seq(Wire!Said)
  BY <1>1 DEF Side
<1> DEFINE s == wire[h].waiting
<1>3. Wire!Range(s) \subseteq Wire!Said
  <2>1. s \in Seq(Wire!Said)
    BY <1>2
  <2> HIDE DEF s
  <2> QED BY <2>1 DEF Wire!Range
<1> QED BY <1>1, <1>2, <1>3 DEF Side

LEMMA UnreadIs ==
  ASSUME WireTyped, NEW h \in Hosts, NEW ns
  PROVE  Wire!Unread(h, ns) \subseteq Hosts \X Messages
<1>1. channel \in Seq(Wire!Entry)
  BY TypesAre DEF WireTyped
<1>2. \A k \in Wire!Said : channel[k].of \in Messages
  BY <1>1, EntriesAre DEF Wire!Said
<1> QED BY <1>2 DEF Wire!Unread

LEMMA StartsTyped ==
  ASSUME WireTyped, NEW h \in Hosts, Wire!Starts(h) PROVE WireTyped'
<1> DEFINE w == [Wire!Deaf EXCEPT !.up = TRUE, !.after = mark.delivery]
<1>1. mark.delivery \in {Wire!Never} \cup Wire!Posts /\ channel \in Seq(Wire!Entry)
  BY TypesAre DEF WireTyped
<1>2. mark.delivery \in 0..Len(channel) /\ 0 \in 0..Len(channel)
  BY <1>1, IdsAre DEF Wire!Never
<1>3. w \in Side
  <2>1. <<>> \in Seq(Wire!Said) /\ {} \in SUBSET Wire!Said
    OBVIOUS
  <2>2. Wire!Deaf \in Side
    BY <1>2, <2>1 DEF Side, Wire!Deaf, Wire!Never
  <2> QED BY <1>2, <2>2 DEF Side
<1>4. wire' = [wire EXCEPT ![h] = w]
  BY DEF Wire!Starts
<1> HIDE DEF w
<1> QED BY <1>3, <1>4, SideIs, SideStepTyped DEF Wire!Starts

LEMMA ConnectsTyped ==
  ASSUME WireTyped, NEW h \in Hosts, Wire!Connects(h) PROVE WireTyped'
<1> DEFINE from == IF wire[h].unread THEN wire[h].from ELSE wire[h].after
           w == [wire[h] EXCEPT !.connected = TRUE, !.gateway = Len(channel),
                                !.from = from, !.unread = from # Wire!Never]
<1>1. from \in 0..Len(channel) /\ Len(channel) \in 0..Len(channel)
  BY SideIs
<1>2. wire' = [wire EXCEPT ![h] = w]
  BY DEF Wire!Connects
<1> HIDE DEF from
<1>3. w \in Side
  BY <1>1, SideIs DEF Side
<1>4. skipped' \subseteq Hosts \X Messages
  BY SideIs, UnreadIs DEF Wire!Connects
<1> HIDE DEF w
<1> QED BY <1>2, <1>3, <1>4, SideIs, SideStepTyped DEF Wire!Connects

\* What the gateway hands over waits, if it is said and was not handed over.
HandedNew(w, n) == IF channel[n].what # "said" \/ n \in w.handed THEN {} ELSE {n}

LEMMA HandOverIs ==
  ASSUME WireTyped, NEW h \in Hosts, NEW n \in Wire!Ids
  PROVE  LET x == Wire!HandOver(wire[h], n)
             new == HandedNew(wire[h], n)
         IN /\ x \in Side /\ x.handed = wire[h].handed \cup new
            /\ Wire!Range(x.waiting) = Wire!Range(wire[h].waiting) \cup new
            /\ x.connected = wire[h].connected /\ x.unread = wire[h].unread
            /\ x.from = wire[h].from
<1> DEFINE v == Wire!Seen(wire[h], n)
           q == wire[h].waiting
           x == Wire!HandOver(wire[h], n)
<1>1. n \in 0..Len(channel)
  BY SideIs, IdsAre
<1>2. /\ v \in Side /\ v.handed = wire[h].handed /\ v.waiting = q /\ v.from = wire[h].from
      /\ v.connected = wire[h].connected /\ v.unread = wire[h].unread
  BY <1>1, SideIs DEF Side, Wire!Seen
<1>3. CASE channel[n].what # "said" \/ n \in wire[h].handed
  <2>1. x = v /\ HandedNew(wire[h], n) = {}
    BY <1>3 DEF Wire!HandOver, HandedNew
  <2> HIDE DEF v
  <2> QED BY <1>2, <2>1
<1>4. CASE ~ (channel[n].what # "said" \/ n \in wire[h].handed)
  <2>1. /\ x = [v EXCEPT !.handed = @ \cup {n}, !.waiting = Append(@, n)]
        /\ HandedNew(wire[h], n) = {n}
    BY <1>4 DEF Wire!HandOver, HandedNew
  <2>2. n \in Wire!Said /\ q \in Seq(Wire!Said) /\ wire[h].handed \subseteq Wire!Said
    BY <1>4, SideIs DEF Wire!Said
  <2> HIDE DEF v, q, x
  <2>3. Append(q, n) \in Seq(Wire!Said) /\ wire[h].handed \cup {n} \in SUBSET Wire!Said
    BY <2>2
  <2>4. Wire!Range(Append(q, n)) = Wire!Range(q) \cup {n}
    <3>1. /\ DOMAIN Append(q, n) = 1..(Len(q) + 1) /\ DOMAIN q = 1..Len(q) /\ Len(q) \in Nat
          /\ \A i \in 1..Len(q) : Append(q, n)[i] = q[i]
          /\ Append(q, n)[Len(q) + 1] = n
      BY <2>2
    <3> QED BY <3>1 DEF Wire!Range
  <2>5. /\ x \in Side /\ x.handed = wire[h].handed \cup {n} /\ x.waiting = Append(q, n)
        /\ x.connected = v.connected /\ x.unread = v.unread /\ x.from = v.from
    BY <1>2, <2>1, <2>3 DEF Side
  <2> QED BY <1>2, <2>1, <2>4, <2>5 DEF x, q
<1> QED BY <1>3, <1>4

LEMMA ArrivesTyped ==
  ASSUME WireTyped, NEW h \in Hosts, Wire!Arrives(h) PROVE WireTyped'
<1> DEFINE n == wire[h].gateway + 1
           x == Wire!HandOver(wire[h], n)
           w == [x EXCEPT !.gateway = n]
<1>1. n \in 0..Len(channel) /\ n \in Wire!Ids
  BY SideIs, IdsAre DEF Wire!Arrives
<1>2. wire' = [wire EXCEPT ![h] = w]
  BY DEF Wire!Arrives
<1> HIDE DEF n
<1>3. x \in Side
  BY <1>1, HandOverIs
<1> HIDE DEF x
<1>4. w \in Side
  BY <1>1, <1>3 DEF Side
<1> HIDE DEF w
<1> QED BY <1>2, <1>4, SideIs, SideStepTyped DEF Wire!Arrives

\* What is read of the history is in hand or waits, with what waited.
LEMMA HandOverAllIs ==
  ASSUME WireTyped, NEW h \in Hosts, NEW read \in SUBSET Wire!Said
  PROVE  LET w == Wire!HandOverAll(wire[h], read) IN
         /\ w \in Side /\ w.handed = wire[h].handed \cup read
         /\ Wire!Range(w.waiting) = Wire!Range(wire[h].waiting) \cup (read \ wire[h].handed)
         /\ w.unread = FALSE /\ w.connected = wire[h].connected /\ w.gateway = wire[h].gateway
<1> DEFINE new == read \ wire[h].handed
           all == Wire!Range(wire[h].waiting) \cup new
           q == Wire!Ascending(all)
           w == Wire!HandOverAll(wire[h], read)
<1>1. all \subseteq Wire!Said
  BY SideIs
<1>2. q \in Seq(all) /\ Wire!Range(q) = all
  <2>1. IsFiniteSet(all) /\ all \subseteq Nat
    BY <1>1, SideIs, IdsAre
  <2> HIDE DEF all
  <2> QED BY <2>1, AscendingIs
<1>3. q \in Seq(Wire!Said)
  <2> HIDE DEF all, q
  <2> QED BY <1>1, <1>2
<1>4. w = [wire[h] EXCEPT !.unread = FALSE, !.after = Len(channel), !.handed = @ \cup new,
                          !.waiting = q]
  BY DEF Wire!HandOverAll
<1>5. Len(channel) \in 0..Len(channel)
  BY SideIs
<1>6. wire[h].handed \cup new = wire[h].handed \cup read
      /\ wire[h].handed \cup new \in SUBSET Wire!Said
  BY SideIs
<1> HIDE DEF w, q, new
<1>7. w \in Side /\ w.handed = wire[h].handed \cup new /\ w.waiting = q /\ w.unread = FALSE
      /\ w.connected = wire[h].connected /\ w.gateway = wire[h].gateway
  BY <1>3, <1>4, <1>5, <1>6, SideIs DEF Side
<1> QED BY <1>2, <1>6, <1>7 DEF w, new

LEMMA WaitedTyped ==
  ASSUME WireTyped, NEW h \in Hosts, Wire!Waited(h) PROVE WireTyped'
<1> DEFINE read == {n \in {k \in Wire!Said : Wire!Replies(channel[k].of) = {}} : n > wire[h].from}
           w == Wire!HandOverAll(wire[h], read)
<1>1. wire' = [wire EXCEPT ![h] = w] /\ read \in SUBSET Wire!Said
  BY DEF Wire!Waited
<1> HIDE DEF read
<1>2. w \in Side
  BY <1>1, HandOverAllIs
<1> HIDE DEF w
<1> QED BY <1>1, <1>2, SideIs, SideStepTyped DEF Wire!Waited

LEMMA WaitedFailsTyped ==
  ASSUME Wire!ChatAssumption, WireTyped, NEW h \in Hosts, Wire!WaitedFails(h) PROVE WireTyped'
<1> DEFINE w == [wire[h] EXCEPT !.unread = FALSE]
<1>1. w \in Side /\ wire' = [wire EXCEPT ![h] = w]
  BY SideIs DEF Side, Wire!WaitedFails
<1>2. skipped' \subseteq Hosts \X Messages /\ lost' \in 0..MaxLost
  BY SideIs, UnreadIs, FaultCounted DEF Wire!WaitedFails, WireTyped
<1> HIDE DEF w
<1> QED BY <1>1, <1>2, SideStepTyped DEF Wire!WaitedFails

LEMMA DisconnectsTyped ==
  ASSUME Wire!ChatAssumption, WireTyped, NEW h \in Hosts, Wire!Disconnects(h) PROVE WireTyped'
<1> DEFINE w == [wire[h] EXCEPT !.connected = FALSE]
<1>1. w \in Side /\ wire' = [wire EXCEPT ![h] = w]
  BY SideIs DEF Side, Wire!Disconnects
<1>2. skipped' \subseteq Hosts \X Messages /\ lost' \in 0..MaxLost
  BY SideIs, FaultCounted DEF Wire!Disconnects, WireTyped
<1> HIDE DEF w
<1> QED BY <1>1, <1>2, SideStepTyped DEF Wire!Disconnects

LEMMA LetsGoTyped ==
  ASSUME WireTyped, NEW h \in Hosts, Wire!LetsGo(h) PROVE WireTyped'
<1> DEFINE w == [wire[h] EXCEPT !.waiting = <<>>]
<1>1. w \in Side /\ wire' = [wire EXCEPT ![h] = w]
  <2>1. <<>> \in Seq(Wire!Said)
    OBVIOUS
  <2>2. w \in Side
    BY <2>1, SideIs DEF Side
  <2> QED BY <2>2 DEF Wire!LetsGo
<1>2. \A n \in Wire!Range(wire[h].waiting) : channel[n].of \in Messages
  BY SideIs, EntriesAre DEF Wire!Said
<1>3. skipped' \subseteq Hosts \X Messages
  BY <1>2, SideIs DEF Wire!LetsGo
<1> HIDE DEF w
<1> QED BY <1>1, <1>3, SideIs, SideStepTyped DEF Wire!LetsGo

\* A step of one host's hand and of the channel.
LEMMA HandStepTyped ==
  ASSUME WireTyped, Onward, UNCHANGED <<Wire!clock, wire, skipped>>, standing' \subseteq standing,
         work' \in [Hosts -> Holding'], \A k \in Hosts : Fits(work[k])',
         recorded' \subseteq Giveable, mark' \in [at : 0..now, delivery : {Wire!Never} \cup Wire!Posts],
         presenter' \in Hosts \cup {NoHolder}, lost' \in 0..MaxLost,
         \A n \in Wire!Posts' : n \in Wire!Posts \/ channel'[n].at <= now, SaidOnce'
  PROVE  WireTyped'
<1>1. wire' \in [Hosts -> Side'] /\ skipped' \subseteq Hosts \X Messages
  BY SidesStill, TypesAre DEF WireTyped
<1> QED BY <1>1, StepTyped

LEMMA StopsTyped ==
  ASSUME Wire!ChatAssumption, WireTyped, NEW h \in Hosts, Wire!Stops(h) PROVE WireTyped'
<1>1. /\ Onward /\ SaidOnce' /\ Side' = Side
      /\ \A n \in Wire!Posts' : n \in Wire!Posts \/ channel'[n].at <= now
  BY NothingSaid DEF Side, Wire!Said, Wire!Ids, Wire!Stops
<1>2. work' \in [Hosts -> Holding'] /\ \A k \in Hosts : Fits(work[k])'
  BY <1>1, GoesIdle DEF Wire!Stops
<1>3. Wire!Deaf \in Side
  <2>1. <<>> \in Seq(Wire!Said) /\ {} \in SUBSET Wire!Said /\ 0 \in 0..Len(channel)
    BY SideIs
  <2> QED BY <2>1 DEF Side, Wire!Deaf, Wire!Never
<1>4. wire' \in [Hosts -> Side']
  BY <1>1, <1>3, SideGoesTo DEF Wire!Stops
<1>5. /\ recorded \subseteq Giveable /\ mark \in [at : 0..now, delivery : {Wire!Never} \cup Wire!Posts]
      /\ presenter \in Hosts \cup {NoHolder} /\ skipped \subseteq Hosts \X Messages
  BY TypesAre DEF WireTyped
<1>6. skipped' \subseteq Hosts \X Messages /\ lost' \in 0..MaxLost
  BY <1>5, FaultCounted DEF Wire!Stops, WireTyped
<1> QED BY <1>1, <1>2, <1>4, <1>5, <1>6, StepTyped DEF Wire!Stops

\* What a message asks for: of each thing one or more, unless it is for all.
LEMMA AskedIs ==
  ASSUME Wire!ChatAssumption, WireTyped, NEW n \in Wire!Said
  PROVE  /\ Wire!Asked(n) \in Seq(Giveable) /\ \A g \in Wire!Range(Wire!Asked(n)) : IsAsked(g)
         /\ \A g \in Wire!Range(Wire!Asked(n)) : g[1] = channel[n].of
         /\ channel[n].kind # "all" => Wire!Range(Wire!Asked(n)) # {}
<1> DEFINE m == channel[n].of
           c == Wire!Cardinality(standing)
           ds == Wire!Ascending(standing)
<1>1. /\ channel \in Seq(Wire!Entry) /\ standing \subseteq DOMAIN raised /\ raised \in Seq(1..now)
      /\ Len(raised) <= MaxRaised /\ MaxRaised \in Nat
  BY TypesAre DEF WireTyped, Wire!ChatAssumption
<1>2. m \in Messages /\ channel[n].number \in 0..MaxRaised /\ 0 \in 0..MaxRaised
  BY <1>1, EntriesAre DEF Wire!Said
<1>3. standing \subseteq 0..MaxRaised /\ IsFiniteSet(standing) /\ standing \subseteq Nat
  <2>1. DOMAIN raised = 1..Len(raised) /\ Len(raised) \in Nat
    BY <1>1
  <2>2. DOMAIN raised \subseteq 0..MaxRaised /\ IsFiniteSet(DOMAIN raised)
    <3>1. IsFiniteSet(1..Len(raised))
      BY <2>1, FS_Interval
    <3>2. 1..Len(raised) \subseteq 0..MaxRaised
      BY <1>1, <2>1
    <3> QED BY <2>1, <3>1, <3>2
  <2> QED BY <1>1, <2>2, FS_Subset
<1>4. ds \in [1..c -> standing] /\ c \in Nat
  BY <1>3, AscendingIs
<1> HIDE DEF c, ds
<1>5. \A g : g[1] = m /\ (channel[n].kind = "other" => g[2] = 0) => IsAsked(g)
  BY DEF IsAsked
<1>6. CASE channel[n].kind = "answer"
  <2>1. Wire!Asked(n) = <<<<m, channel[n].number>>>>
    BY <1>6 DEF Wire!Asked
  <2>2. Wire!Range(Wire!Asked(n)) = {<<m, channel[n].number>>}
    BY <2>1 DEF Wire!Range
  <2>3. Wire!Asked(n) \in Seq(Giveable)
    BY <1>2, <2>1 DEF Giveable
  <2> HIDE DEF m
  <2> QED BY <1>5, <1>6, <2>2, <2>3 DEF m
<1>7. CASE channel[n].kind = "all"
  <2>1. Wire!Asked(n) = [k \in 1..c |-> <<m, ds[k]>>]
    BY <1>7 DEF Wire!Asked, c, ds
  <2>2. \A k \in 1..c : <<m, ds[k]>> \in Giveable
    BY <1>2, <1>3, <1>4 DEF Giveable
  <2>3. Wire!Asked(n) \in Seq(Giveable)
    <3>1. Wire!Asked(n) \in [1..c -> Giveable]
      BY <2>1, <2>2
    <3> HIDE DEF Giveable
    <3> QED BY <1>4, <3>1
  <2>4. Wire!Range(Wire!Asked(n)) = {<<m, ds[k]>> : k \in 1..c}
    BY <2>1 DEF Wire!Range
  <2>5. \A g \in Wire!Range(Wire!Asked(n)) : g[1] = m
    BY <2>4
  <2> QED BY <1>5, <1>7, <2>3, <2>5
<1>8. CASE channel[n].kind \notin {"answer", "all"}
  <2>1. Wire!Asked(n) = <<<<m, 0>>>>
    BY <1>8 DEF Wire!Asked
  <2>2. Wire!Range(Wire!Asked(n)) = {<<m, 0>>}
    BY <2>1 DEF Wire!Range
  <2>3. Wire!Asked(n) \in Seq(Giveable)
    BY <1>2, <2>1 DEF Giveable
  <2> HIDE DEF m
  <2> QED BY <1>5, <1>8, <2>2, <2>3 DEF m
<1> QED BY <1>6, <1>7, <1>8

\* What a host takes up is what each message that waited asks for.
Taken(h) == Wire!FlattenSeq([k \in DOMAIN wire[h].waiting |-> Wire!Asked(wire[h].waiting[k])])

LEMMA TakenIs ==
  ASSUME Wire!ChatAssumption, WireTyped, NEW h \in Hosts
  PROVE  /\ Taken(h) \in Seq(Giveable) /\ \A g \in Wire!Range(Taken(h)) : IsAsked(g)
         /\ \A n \in Wire!Range(wire[h].waiting) : Wire!Range(Wire!Asked(n)) \subseteq Wire!Range(Taken(h))
<1> DEFINE q == wire[h].waiting
           asked == [k \in DOMAIN q |-> Wire!Asked(q[k])]
<1>1. q \in Seq(Wire!Said) /\ Wire!Range(q) \subseteq Wire!Said
  BY SideIs
<1> HIDE DEF q
<1>2. /\ Len(q) \in Nat /\ DOMAIN q = 1..Len(q) /\ \A k \in DOMAIN q : q[k] \in Wire!Said
  BY <1>1
<1>3. \A k \in DOMAIN q : /\ Wire!Asked(q[k]) \in Seq(Giveable)
                          /\ \A g \in Wire!Range(Wire!Asked(q[k])) : IsAsked(g)
  BY <1>2, AskedIs
<1>4. asked \in Seq(Seq(Giveable)) /\ DOMAIN asked = DOMAIN q
  BY <1>2, <1>3
<1>5. \A k \in DOMAIN q : asked[k] = Wire!Asked(q[k])
  OBVIOUS
<1> HIDE DEF asked
<1>6. /\ Wire!FlattenSeq(asked) \in Seq(Giveable)
      /\ Wire!Range(Wire!FlattenSeq(asked)) = UNION {Wire!Range(asked[k]) : k \in DOMAIN asked}
  BY <1>4, FlattenIs
<1>7. Taken(h) = Wire!FlattenSeq(asked)
  BY DEF Taken, asked, q
<1>8. \A g \in Wire!Range(Taken(h)) : IsAsked(g)
  BY <1>3, <1>4, <1>5, <1>6, <1>7
<1>9. \A n \in Wire!Range(q) : Wire!Range(Wire!Asked(n)) \subseteq Wire!Range(Taken(h))
  <2> TAKE n \in Wire!Range(q)
  <2>1. PICK k \in DOMAIN q : n = q[k]
    BY DEF Wire!Range
  <2> QED BY <1>4, <1>5, <1>6, <1>7, <2>1
<1> QED BY <1>6, <1>7, <1>8, <1>9 DEF q

LEMMA HearsIs ==
  ASSUME Wire!ChatAssumption, WireTyped, NEW h \in Hosts, Wire!Hears(h)
  PROVE  /\ work' \in [Hosts -> Holding'] /\ \A k \in Hosts : Fits(work[k])'
         /\ work'[h].giving = Taken(h) /\ work'[h].in \in {"idle", "hearing"}
         /\ \A k \in Hosts : k # h => work'[k] = work[k]
<1> DEFINE to == IF Taken(h) = <<>> THEN "idle" ELSE "hearing"
           w == [Wire!Idle EXCEPT !.in = to, !.giving = Taken(h)]
<1>1. Onward /\ Wire!Said' = Wire!Said
  BY NothingSaid DEF Wire!Hears
<1>2. Taken(h) \in Seq(Giveable) /\ \A g \in Wire!Range(Taken(h)) : IsAsked(g)
  BY TakenIs
<1>3. work' = [work EXCEPT ![h] = w]
  BY DEF Wire!Hears, Taken
<1>4. channel \in Seq(Wire!Entry) /\ work \in [Hosts -> Holding]
  BY TypesAre DEF WireTyped
<1>5. w \in Holding /\ w.in = to /\ w.giving = Taken(h)
  BY <1>2 DEF Wire!Idle, Holding
<1>6. w \in Holding'
  BY <1>1, <1>4, <1>5, SidesGrow
<1> HIDE DEF w
<1>7. work' \in [Hosts -> Holding'] /\ \A k \in Hosts : Fits(work[k])'
  BY <1>1, <1>2, <1>3, <1>5, <1>6, HandGoesTo
<1> QED BY <1>3, <1>4, <1>5, <1>7

LEMMA HearsTyped ==
  ASSUME Wire!ChatAssumption, WireTyped, NEW h \in Hosts, Wire!Hears(h) PROVE WireTyped'
<1> DEFINE w == [wire[h] EXCEPT !.waiting = <<>>]
<1>1. /\ Onward /\ SaidOnce' /\ Side' = Side
      /\ \A n \in Wire!Posts' : n \in Wire!Posts \/ channel'[n].at <= now
  BY NothingSaid DEF Side, Wire!Said, Wire!Ids, Wire!Hears
<1>2. w \in Side
  <2>1. <<>> \in Seq(Wire!Said)
    OBVIOUS
  <2> QED BY <2>1, SideIs DEF Side
<1>3. wire' = [wire EXCEPT ![h] = w]
  BY DEF Wire!Hears
<1> HIDE DEF w
<1>4. wire' \in [Hosts -> Side']
  BY <1>1, <1>2, <1>3, SideGoesTo
<1>5. /\ recorded \subseteq Giveable /\ mark \in [at : 0..now, delivery : {Wire!Never} \cup Wire!Posts]
      /\ presenter \in Hosts \cup {NoHolder} /\ skipped \subseteq Hosts \X Messages
      /\ lost \in 0..MaxLost
  BY TypesAre DEF WireTyped
<1> QED BY <1>1, <1>4, <1>5, HearsIs, StepTyped DEF Wire!Hears

\* A message that is given was said once, so what it asked for tells its kind.
LEMMA KindIs ==
  ASSUME SaidOnce, NEW n \in Wire!Said
  PROVE  Wire!KindOf(channel[n].of) = channel[n].kind
<1> DEFINE k == CHOOSE k \in Wire!Said : channel[k].of = channel[n].of
<1>1. k \in Wire!Said /\ channel[k].of = channel[n].of
  OBVIOUS
<1>2. k = n
  BY <1>1 DEF SaidOnce
<1> QED BY <1>2 DEF Wire!KindOf

\* What recording does: the hand goes on, or is to reply to what it recorded.
LEMMA RecordsIs ==
  ASSUME WireTyped, NEW h \in Hosts, Wire!Records(h)
  PROVE  LET g == Wire!Given(h) IN
         /\ work' \in [Hosts -> Holding'] /\ \A k \in Hosts : Fits(work[k])'
         /\ \A k \in Hosts : k # h => work'[k] = work[k]
         /\ work[h].in = "hearing" /\ g \in Giveable /\ IsAsked(g)
         /\ recorded \subseteq recorded' /\ recorded' \subseteq recorded \cup {g}
         /\ Wire!KindOf(g[1]) # "other" => g \in recorded'
         /\ \/ /\ work'[h].in \in {"idle", "hearing"}
               /\ work'[h].giving = Tail(work[h].giving)
            \/ /\ work'[h].in = "replying" /\ work'[h].giving = work[h].giving
               /\ Wire!KindOf(g[1]) = "other" \/ g \notin recorded
<1>1. Onward /\ UNCHANGED channel
  BY DEF Wire!Records, Onward
<1>2. /\ work[h].in = "hearing" /\ Wire!Given(h) \in Giveable /\ IsAsked(Wire!Given(h))
      /\ Tail(work[h].giving) \in Seq(Giveable)
      /\ Wire!Range(Tail(work[h].giving)) \subseteq Wire!Range(work[h].giving)
  BY GivenIs DEF Wire!Records, Wire!Giving
<1>3. /\ recorded \subseteq recorded' /\ recorded' \subseteq recorded \cup {Wire!Given(h)}
      /\ Wire!KindOf(Wire!Given(h)[1]) # "other" => Wire!Given(h) \in recorded'
  BY DEF Wire!Records
<1>4. CASE Wire!GivesNext(h)
  BY <1>1, <1>2, <1>3, <1>4, GoesOnTo DEF Wire!GivesNext
<1>5. CASE /\ work' = [work EXCEPT ![h].in = "replying"]
           /\ Wire!KindOf(Wire!Given(h)[1]) = "other" \/ Wire!Given(h) \notin recorded
  <2> DEFINE w == [work[h] EXCEPT !.in = "replying"]
  <2>1. work \in [Hosts -> Holding] /\ work[h] \in Holding /\ channel \in Seq(Wire!Entry) /\ Fits(work[h])
    BY TypesAre DEF WireTyped
  <2>2. w \in Holding /\ w.in = "replying" /\ w.giving = work[h].giving /\ w.posted = work[h].posted
    BY <2>1 DEF Holding
  <2>3. work' = [work EXCEPT ![h] = w]
    BY <1>5
  <2>4. w \in Holding'
    BY <1>1, <2>1, <2>2, SidesGrow
  <2> HIDE DEF w
  <2>5. work' \in [Hosts -> Holding'] /\ \A k \in Hosts : Fits(work[k])'
    BY <1>1, <1>2, <2>1, <2>2, <2>3, <2>4, HandGoesTo DEF Fits
  <2>6. work'[h] = w /\ \A k \in Hosts : k # h => work'[k] = work[k]
    BY <2>1, <2>3
  <2> QED BY <1>2, <1>3, <1>5, <2>2, <2>5, <2>6
<1> QED BY <1>4, <1>5 DEF Wire!Records

LEMMA RecordsTyped ==
  ASSUME WireTyped, NEW h \in Hosts, Wire!Records(h) PROVE WireTyped'
<1>1. Onward /\ SaidOnce' /\ \A n \in Wire!Posts' : n \in Wire!Posts \/ channel'[n].at <= now
  BY NothingSaid DEF Wire!Records
<1>2. /\ recorded \subseteq Giveable /\ mark \in [at : 0..now, delivery : {Wire!Never} \cup Wire!Posts]
      /\ presenter \in Hosts \cup {NoHolder} /\ lost \in 0..MaxLost
  BY TypesAre DEF WireTyped
<1>3. recorded' \subseteq Giveable
  BY <1>2, RecordsIs
<1> QED BY <1>1, <1>2, <1>3, RecordsIs, HandStepTyped DEF Wire!Records

\* The reply that is written, and what is left to give.
ReplyOf(g) == [what |-> "reply", of |-> g[1], number |-> g[2]]

LEMMA RepliesIs ==
  ASSUME WireTyped, NEW h \in Hosts, Wire!RepliesTo(h)
  PROVE  /\ ReplyOf(Wire!Given(h)) \in Wire!Entry /\ channel' = Append(channel, ReplyOf(Wire!Given(h)))
         /\ Onward /\ Wire!Said' = Wire!Said /\ SaidOnce'
         /\ \A n \in Wire!Posts' : n \in Wire!Posts \/ channel'[n].at <= now
         /\ work' \in [Hosts -> Holding'] /\ \A k \in Hosts : Fits(work[k])'
         /\ \A k \in Hosts : k # h => work'[k] = work[k]
         /\ work'[h].in \in {"idle", "hearing"} /\ work'[h].giving = Tail(work[h].giving)
<1>1. /\ Wire!Given(h) \in Giveable /\ Tail(work[h].giving) \in Seq(Giveable)
      /\ Wire!Range(Tail(work[h].giving)) \subseteq Wire!Range(work[h].giving)
  BY GivenIs DEF Wire!RepliesTo
<1>2. ReplyOf(Wire!Given(h)) \in Wire!Entry /\ ReplyOf(Wire!Given(h)).what = "reply"
  BY <1>1 DEF ReplyOf, Wire!Entry, Giveable
<1>3. channel' = Append(channel, ReplyOf(Wire!Given(h)))
  BY DEF Wire!RepliesTo, ReplyOf
<1>4. /\ Onward /\ Wire!Said' = Wire!Said /\ SaidOnce'
      /\ \A n \in Wire!Posts' : n \in Wire!Posts \/ channel'[n].at <= now
  BY <1>2, <1>3, NothingSaid
<1> QED BY <1>1, <1>2, <1>3, <1>4, GoesOnTo DEF Wire!RepliesTo, Wire!GivesNext

LEMMA RepliesToTyped ==
  ASSUME WireTyped, NEW h \in Hosts, Wire!RepliesTo(h) PROVE WireTyped'
<1>1. /\ recorded \subseteq Giveable /\ mark \in [at : 0..now, delivery : {Wire!Never} \cup Wire!Posts]
      /\ presenter \in Hosts \cup {NoHolder} /\ lost \in 0..MaxLost
  BY TypesAre DEF WireTyped
<1> QED BY <1>1, RepliesIs, HandStepTyped DEF Wire!RepliesTo

\* A reply that fails gives up nothing but what its message asked for.
LEMMA ReplyFailsIs ==
  ASSUME WireTyped, NEW h \in Hosts, Wire!ReplyFails(h)
  PROVE  /\ work' \in [Hosts -> Holding'] /\ \A k \in Hosts : Fits(work[k])'
         /\ \A k \in Hosts : k # h => work'[k] = work[k]
         /\ work'[h].in \in {"idle", "hearing"}
         /\ \A g \in Wire!Range(work[h].giving) :
              g \in Wire!Range(work'[h].giving) \/ g[1] = Wire!Given(h)[1]
<1> DEFINE s == work[h].giving
<1>1. PICK next \in 1..(Len(s) + 1) :
         /\ \A k \in 1..(next - 1) : s[k][1] = Wire!Given(h)[1]
         /\ Wire!GoesOnWith(h, SubSeq(s, next, Len(s)))
  BY DEF Wire!ReplyFails
<1>2. Onward
  BY DEF Wire!ReplyFails, Onward
<1>3. s \in Seq(Giveable) /\ Len(s) \in Nat \ {0}
  BY GivenIs, TypesAre DEF Wire!ReplyFails, WireTyped, Holding
<1> HIDE DEF s
<1> DEFINE r == SubSeq(s, next, Len(s))
<1>4. /\ r \in Seq(Giveable) /\ DOMAIN r = 1..(Len(s) - next + 1) /\ DOMAIN s = 1..Len(s)
      /\ \A i \in 1..(Len(s) - next + 1) : r[i] = s[next + i - 1]
  <2>1. next \in Int /\ Len(s) \in Int /\ 1 <= next /\ next <= Len(s) + 1
    BY <1>3
  <2>2. \A i \in next..Len(s) : s[i] \in Giveable
    BY <1>3
  <2>3. /\ r \in Seq(Giveable) /\ Len(r) = (IF next <= Len(s) THEN Len(s) - next + 1 ELSE 0)
        /\ \A i \in 1..(Len(s) - next + 1) : r[i] = s[next + i - 1]
    BY <1>3, <2>1, <2>2, SubSeqProperties
  <2>4. Len(r) = Len(s) - next + 1
    BY <2>1, <2>3
  <2> QED BY <1>3, <2>3, <2>4
<1> HIDE DEF r
<1>5. Wire!Range(r) \subseteq Wire!Range(s)
  <2>1. \A i \in 1..(Len(s) - next + 1) : next + i - 1 \in 1..Len(s)
    BY <1>3
  <2> QED BY <1>4, <2>1 DEF Wire!Range
<1>6. ASSUME NEW g \in Wire!Range(s) PROVE g \in Wire!Range(r) \/ g[1] = Wire!Given(h)[1]
  <2>1. PICK k \in 1..Len(s) : g = s[k]
    BY <1>4 DEF Wire!Range
  <2>2. CASE k < next
    <3>1. k \in 1..(next - 1)
      BY <2>2
    <3> QED BY <1>1, <2>1, <3>1
  <2>3. CASE ~ (k < next)
    <3>1. k - next + 1 \in 1..(Len(s) - next + 1) /\ next + (k - next + 1) - 1 = k
      BY <1>3, <2>3
    <3>2. r[k - next + 1] = g
      BY <1>4, <2>1, <3>1
    <3> QED BY <1>4, <3>1, <3>2 DEF Wire!Range
  <2> QED BY <2>2, <2>3
<1>7. Wire!GoesOnWith(h, r) /\ Wire!Range(r) \subseteq Wire!Range(work[h].giving)
  BY <1>1, <1>5 DEF r, s
<1>8. /\ work' \in [Hosts -> Holding'] /\ \A k \in Hosts : Fits(work[k])'
      /\ work'[h].giving = r /\ work'[h].in \in {"idle", "hearing"}
      /\ \A k \in Hosts : k # h => work'[k] = work[k]
  BY <1>2, <1>4, <1>7, GoesOnTo
<1> QED BY <1>6, <1>8 DEF s

LEMMA ReplyFailsTyped ==
  ASSUME Wire!ChatAssumption, WireTyped, NEW h \in Hosts, Wire!ReplyFails(h) PROVE WireTyped'
<1>1. Onward /\ SaidOnce' /\ \A n \in Wire!Posts' : n \in Wire!Posts \/ channel'[n].at <= now
  BY NothingSaid DEF Wire!ReplyFails
<1>2. /\ recorded \subseteq Giveable /\ mark \in [at : 0..now, delivery : {Wire!Never} \cup Wire!Posts]
      /\ presenter \in Hosts \cup {NoHolder}
  BY TypesAre DEF WireTyped
<1>3. lost' \in 0..MaxLost
  BY FaultCounted DEF Wire!ReplyFails, WireTyped
<1> QED BY <1>1, <1>2, <1>3, ReplyFailsIs, HandStepTyped DEF Wire!ReplyFails

LEMMA WireParts ==
  ASSUME WireTyped
  PROVE  /\ recorded \subseteq Giveable /\ mark \in [at : 0..now, delivery : {Wire!Never} \cup Wire!Posts]
         /\ presenter \in Hosts \cup {NoHolder} /\ lost \in 0..MaxLost
         /\ channel \in Seq(Wire!Entry) /\ now \in 1..MaxNow /\ standing \subseteq DOMAIN raised
         /\ raised \in Seq(1..now) /\ Len(raised) \in Nat /\ DOMAIN raised = 1..Len(raised)
         /\ work \in [Hosts -> Holding]
<1>1. raised \in Seq(1..now)
  BY TypesAre DEF WireTyped
<1> QED BY <1>1, TypesAre DEF WireTyped

LEMMA TakesPresenterTyped ==
  ASSUME WireTyped, NEW h \in Hosts, Wire!TakesPresenter(h) PROVE WireTyped'
<1>1. Onward /\ SaidOnce' /\ \A n \in Wire!Posts' : n \in Wire!Posts \/ channel'[n].at <= now
  BY NothingSaid DEF Wire!TakesPresenter
<1>2. work' \in [Hosts -> Holding'] /\ \A k \in Hosts : Fits(work[k])'
  BY <1>1, HandsStill DEF Wire!TakesPresenter
<1> QED BY <1>1, <1>2, WireParts, HandStepTyped DEF Wire!TakesPresenter

LEMMA AppliesTyped ==
  ASSUME WireTyped, NEW h \in Hosts, Wire!Applies(h) PROVE WireTyped'
<1>1. Onward /\ SaidOnce' /\ \A n \in Wire!Posts' : n \in Wire!Posts \/ channel'[n].at <= now
  BY NothingSaid DEF Wire!Applies
<1>2. work' \in [Hosts -> Holding'] /\ \A k \in Hosts : Fits(work[k])'
  BY <1>1, HandsStill DEF Wire!Applies
<1>3. standing' \subseteq standing
  BY DEF Wire!Applies
<1> QED BY <1>1, <1>2, <1>3, WireParts, HandStepTyped DEF Wire!Applies

\* The rendering is the channel's last entry, and is to be marked.
LEMMA DeliversIs ==
  ASSUME Wire!ChatAssumption, WireTyped, NEW h \in Hosts, Wire!Delivers(h)
  PROVE  /\ Wire!Rendering \in Wire!Entry /\ channel' = Append(channel, Wire!Rendering)
         /\ Onward /\ Wire!Said' = Wire!Said /\ SaidOnce'
         /\ \A n \in Wire!Posts' : n \in Wire!Posts \/ channel'[n].at <= now
         /\ Len(channel') \in Wire!Posts'
<1>1. Wire!Rendering \in Wire!Entry /\ Wire!Rendering.what = "post" /\ Wire!Rendering.at <= now
  <2>1. standing \subseteq 1..MaxRaised
    <3>1. Len(raised) <= MaxRaised /\ MaxRaised \in Nat
      BY DEF WireTyped, Wire!ChatAssumption
    <3>2. 1..Len(raised) \subseteq 1..MaxRaised
      BY <3>1, WireParts
    <3> QED BY <3>2, WireParts
  <2>2. now \in 1..MaxNow /\ now <= now
    BY WireParts DEF Wire!ChatAssumption
  <2> QED BY <2>1, <2>2 DEF Wire!Rendering, Wire!Entry
<1>2. channel' = Append(channel, Wire!Rendering)
  BY DEF Wire!Delivers
<1>3. /\ Onward /\ Wire!Said' = Wire!Said /\ SaidOnce'
      /\ \A n \in Wire!Posts' : n \in Wire!Posts \/ channel'[n].at <= now
  BY <1>1, <1>2, NothingSaid
<1> HIDE DEF Wire!Rendering
<1>4. Len(channel') \in Wire!Ids' /\ channel'[Len(channel')] = Wire!Rendering
  BY <1>1, <1>2, WireParts DEF Wire!Ids
<1> QED BY <1>1, <1>2, <1>3, <1>4 DEF Wire!Posts

LEMMA DeliversTyped ==
  ASSUME Wire!ChatAssumption, WireTyped, NEW h \in Hosts, Wire!Delivers(h) PROVE WireTyped'
<1> DEFINE l == Len(channel')
           v == [work[h] EXCEPT !.in = "marking", !.posted = l]
           w == [wire[h] EXCEPT !.after = IF @ = Wire!Never THEN l ELSE @]
<1>1. /\ Onward /\ SaidOnce' /\ \A n \in Wire!Posts' : n \in Wire!Posts \/ channel'[n].at <= now
      /\ l \in Wire!Posts'
  BY DeliversIs
<1>2. wire[h] \in Side' /\ l \in 0..l
  <2>1. l \in Nat /\ Side \subseteq Side'
    BY <1>1, WireParts, OnwardIs, SidesGrow
  <2> QED BY <2>1, SideIs
<1>3. w \in Side'
  <2> HIDE DEF l
  <2>1. wire[h].after \in 0..Len(channel')
    BY <1>2 DEF Side
  <2>2. w.after \in 0..Len(channel')
    BY <1>2, <2>1 DEF l, Side
  <2> QED BY <1>2, <2>2 DEF Side
<1>4. wire' = [wire EXCEPT ![h] = w]
  BY DEF Wire!Delivers
<1>5. wire' \in [Hosts -> Side']
  <2> HIDE DEF w
  <2> QED BY <1>1, <1>3, <1>4, SideGoesTo
<1>6. work[h] \in Holding' /\ work[h].in = "idle" /\ work[h].giving = <<>> /\ Fits(work[h])
  <2>1. Holding \subseteq Holding' /\ Fits(work[h]) /\ work[h].in = "idle"
    BY <1>1, WireParts, SidesGrow DEF WireTyped, Wire!Delivers
  <2> QED BY <2>1, WireParts DEF Fits
<1>7. v \in Holding' /\ v.in = "marking" /\ v.posted = l /\ v.giving = <<>>
  <2> HIDE DEF l
  <2> QED BY <1>1, <1>6 DEF Holding
<1>8. work' = [work EXCEPT ![h] = v]
  BY DEF Wire!Delivers
<1>9. work' \in [Hosts -> Holding'] /\ \A k \in Hosts : Fits(work[k])'
  <2>1. \A g \in Wire!Range(v.giving) : IsAsked(g)
    <3>1. Wire!Range(v.giving) = {}
      BY <1>7 DEF Wire!Range
    <3> QED BY <3>1
  <2> HIDE DEF v
  <2> QED BY <1>1, <1>7, <1>8, <2>1, HandGoesTo
<1>10. skipped' \subseteq Hosts \X Messages
  BY TypesAre DEF WireTyped, Wire!Delivers
<1> QED BY <1>1, <1>5, <1>9, <1>10, WireParts, StepTyped DEF Wire!Delivers

LEMMA DeliveryFailsTyped ==
  ASSUME Wire!ChatAssumption, WireTyped, NEW h \in Hosts, Wire!DeliveryFails(h) PROVE WireTyped'
<1> DEFINE piece == [what |-> "piece"]
<1>1. piece \in Wire!Entry /\ piece.what # "said" /\ piece.what # "post"
  BY DEF Wire!Entry
<1>2. channel' = channel \/ channel' = Append(channel, piece)
  BY DEF Wire!DeliveryFails
<1> HIDE DEF piece
<1>3. Onward /\ SaidOnce' /\ \A n \in Wire!Posts' : n \in Wire!Posts \/ channel'[n].at <= now
  BY <1>1, <1>2, NothingSaid
<1>4. work' \in [Hosts -> Holding'] /\ \A k \in Hosts : Fits(work[k])'
  BY <1>3, HandsStill DEF Wire!DeliveryFails
<1>5. lost' \in 0..MaxLost
  BY FaultCounted DEF Wire!DeliveryFails, WireTyped
<1> QED BY <1>3, <1>4, <1>5, WireParts, HandStepTyped DEF Wire!DeliveryFails

LEMMA MarksTyped ==
  ASSUME Wire!ChatAssumption, WireTyped, NEW h \in Hosts, Wire!Marks(h) PROVE WireTyped'
<1>1. Onward /\ SaidOnce' /\ \A n \in Wire!Posts' : n \in Wire!Posts \/ channel'[n].at <= now
  BY NothingSaid DEF Wire!Marks
<1>2. work' \in [Hosts -> Holding'] /\ \A k \in Hosts : Fits(work[k])'
  BY <1>1, GoesIdle DEF Wire!Marks
<1>3. mark' \in [at : 0..now, delivery : {Wire!Never} \cup Wire!Posts] /\ lost' \in 0..MaxLost
  <2>1. CASE mark' = [at |-> channel[work[h].posted].at, delivery |-> work[h].posted] /\ UNCHANGED lost
    <3>1. work[h].posted \in Wire!Posts
      BY DEF Wire!Marks, WireTyped, Fits
    <3>2. channel[work[h].posted].at \in 1..MaxNow /\ channel[work[h].posted].at <= now
      BY <3>1, WireParts, EntriesAre DEF Wire!Posts, WireTyped, PostedInTime
    <3>3. channel[work[h].posted].at \in 0..now
      BY <3>2, WireParts DEF Wire!ChatAssumption
    <3> QED BY <2>1, <3>1, <3>3, WireParts
  <2>2. CASE lost < MaxLost /\ lost' = lost + 1 /\ UNCHANGED mark
    BY <2>2, WireParts, FaultCounted DEF WireTyped
  <2> QED BY <2>1, <2>2 DEF Wire!Marks
<1> QED BY <1>1, <1>2, <1>3, WireParts, HandStepTyped DEF Wire!Marks

LEMMA RaisesTyped ==
  ASSUME WireTyped, Wire!ChatAssumption, Wire!Raises PROVE WireTyped'
<1>1. Onward /\ UNCHANGED channel
  BY DEF Wire!Raises, Onward
<1>2. work' \in [Hosts -> Holding'] /\ \A k \in Hosts : Fits(work[k])'
  BY <1>1, HandsStill DEF Wire!Raises
<1>3. wire' \in [Hosts -> Side']
  BY <1>1, SidesStill DEF Wire!Raises
<1>4. /\ raised' \in Seq(1..now) /\ Len(raised') = Len(raised) + 1
      /\ DOMAIN raised' = 1..(Len(raised) + 1)
  <2>1. raised' = Append(raised, now) /\ now \in 1..now
    BY WireParts DEF Wire!Raises, Wire!ChatAssumption
  <2> QED BY <2>1, WireParts
<1>5. standing' \subseteq DOMAIN raised' /\ Len(raised') <= MaxRaised
  <2>1. standing' = standing \cup {Len(raised')} /\ Len(raised) < MaxRaised
    BY DEF Wire!Raises
  <2>2. standing \subseteq 1..Len(raised) /\ Len(raised) \in Nat
    BY WireParts
  <2>3. 1..Len(raised) \subseteq 1..(Len(raised) + 1) /\ Len(raised) + 1 \in 1..(Len(raised) + 1)
    BY <2>2
  <2>4. standing' \subseteq DOMAIN raised'
    <3>1. Len(raised') \in DOMAIN raised'
      BY <1>4, <2>3
    <3> QED BY <1>4, <2>1, <2>2, <2>3, <3>1
  <2>5. MaxRaised \in Nat
    BY DEF Wire!ChatAssumption
  <2>6. Len(raised') <= MaxRaised
    BY <1>4, <2>1, <2>2, <2>5
  <2> QED BY <2>4, <2>6
<1>6. Wire!Posts' = Wire!Posts /\ Giveable' = Giveable /\ SaidOnce' /\ PostedInTime'
  BY DEF Wire!Raises, Wire!Posts, Wire!Ids, Giveable, WireTyped, SaidOnce, Wire!Said, PostedInTime
<1>7. Wire!TypeOK'
  <2>1. /\ channel \in Seq(Wire!Entry) /\ now \in 1..MaxNow /\ recorded \subseteq Giveable
        /\ mark \in [at : 0..now, delivery : {Wire!Never} \cup Wire!Posts]
        /\ presenter \in Hosts \cup {NoHolder} /\ skipped \subseteq Hosts \X Messages
        /\ lost \in 0..MaxLost
    BY TypesAre DEF WireTyped
  <2>2. UNCHANGED <<channel, now, recorded, mark, presenter, skipped, lost>>
    BY DEF Wire!Raises
  <2> QED BY <1>2, <1>3, <1>4, <1>5, <1>6, <2>1, <2>2 DEF Wire!TypeOK, Side, Holding, Giveable
<1> QED BY <1>2, <1>5, <1>6, <1>7 DEF WireTyped

LEMMA TurnsOverTyped ==
  ASSUME WireTyped, Wire!ChatAssumption, Wire!TurnsOver PROVE WireTyped'
<1>1. Onward /\ UNCHANGED channel
  BY DEF Wire!TurnsOver, Onward
<1>2. work' \in [Hosts -> Holding'] /\ \A k \in Hosts : Fits(work[k])'
  BY <1>1, HandsStill DEF Wire!TurnsOver
<1>3. wire' \in [Hosts -> Side']
  BY <1>1, SidesStill DEF Wire!TurnsOver
<1>4. /\ now' \in 1..MaxNow /\ now \in Nat /\ now' = now + 1 /\ 1..now \subseteq 1..now'
      /\ 0..now \subseteq 0..now'
  BY WireParts DEF Wire!TurnsOver, Wire!ChatAssumption
<1>5. raised' \in Seq(1..now') /\ mark' \in [at : 0..now', delivery : {Wire!Never} \cup Wire!Posts]
      /\ standing' \subseteq DOMAIN raised'
  <2>1. UNCHANGED <<raised, mark, standing>>
    BY DEF Wire!TurnsOver
  <2> QED BY <1>4, <2>1, WireParts
<1>6. Wire!Posts' = Wire!Posts /\ Giveable' = Giveable /\ SaidOnce'
  BY DEF Wire!TurnsOver, Wire!Posts, Wire!Ids, Giveable, WireTyped, SaidOnce, Wire!Said
<1>7. PostedInTime'
  <2>1. \A n \in Wire!Posts : channel[n].at <= now /\ channel[n].at \in Nat
    BY WireParts, EntriesAre DEF WireTyped, PostedInTime, Wire!Posts
  <2> QED BY <1>1, <1>4, <1>6, <2>1 DEF PostedInTime
<1>8. Wire!TypeOK'
  <2>1. /\ channel \in Seq(Wire!Entry) /\ recorded \subseteq Giveable
        /\ presenter \in Hosts \cup {NoHolder} /\ skipped \subseteq Hosts \X Messages
        /\ lost \in 0..MaxLost
    BY TypesAre DEF WireTyped
  <2>2. UNCHANGED <<channel, recorded, presenter, skipped, lost>>
    BY DEF Wire!TurnsOver
  <2> QED BY <1>2, <1>3, <1>4, <1>5, <1>6, <2>1, <2>2 DEF Wire!TypeOK, Side, Holding, Giveable
<1> QED BY <1>2, <1>6, <1>7, <1>8 DEF WireTyped, Wire!TurnsOver

\* What is said is the channel's last entry, and was not said before.
LEMMA SaysIs ==
  ASSUME Wire!ChatAssumption, WireTyped, NEW m \in Messages, Wire!Says(m)
  PROVE  /\ Onward /\ Len(channel) + 1 \notin Wire!Ids
         /\ Wire!Said' = Wire!Said \cup {Len(channel) + 1}
         /\ channel'[Len(channel) + 1].of = m /\ Len(channel') = Len(channel) + 1
         /\ SaidOnce' /\ Wire!Posts' = Wire!Posts
         /\ \E k \in Kinds, d \in 0..MaxRaised :
              channel' = Append(channel, [what |-> "said", of |-> m, kind |-> k, number |-> d])
<1>1. PICK k \in Kinds, d \in 0..MaxRaised :
        channel' = Append(channel, [what |-> "said", of |-> m, kind |-> k, number |-> d])
  BY DEF Wire!Says
<1> DEFINE e == [what |-> "said", of |-> m, kind |-> k, number |-> d]
           l == Len(channel) + 1
<1>2. e \in Wire!Entry /\ e.what = "said" /\ e.of = m
  BY DEF Wire!Entry
<1>3. channel' = Append(channel, e)
  BY <1>1
<1> HIDE DEF e
<1>4. Onward
  BY <1>2, <1>3 DEF Onward
<1>5. Wire!Ids' = Wire!Ids \cup {l} /\ l \notin Wire!Ids /\ channel'[l] = e /\ Len(channel') = l
      /\ \A n \in Wire!Ids : channel'[n] = channel[n]
  BY <1>3, WireParts DEF Wire!Ids
<1> HIDE DEF l
<1>6. Wire!Said' = Wire!Said \cup {l} /\ Wire!Posts' = Wire!Posts
  BY <1>2, <1>5 DEF Wire!Said, Wire!Posts
<1>7. \A n \in Wire!Said : channel'[n] = channel[n] /\ channel[n].of # m
  BY <1>5 DEF Wire!Says, Wire!IsSaid, Wire!Said
<1>8. SaidOnce'
  BY <1>2, <1>5, <1>6, <1>7 DEF WireTyped, SaidOnce
<1> QED BY <1>1, <1>2, <1>4, <1>5, <1>6, <1>8 DEF l

LEMMA SaysTyped ==
  ASSUME Wire!ChatAssumption, WireTyped, NEW m \in Messages, Wire!Says(m) PROVE WireTyped'
<1>1. Onward /\ SaidOnce' /\ \A n \in Wire!Posts' : n \in Wire!Posts \/ channel'[n].at <= now
  BY SaysIs
<1>2. work' \in [Hosts -> Holding'] /\ \A k \in Hosts : Fits(work[k])'
  BY <1>1, HandsStill DEF Wire!Says
<1> QED BY <1>1, <1>2, WireParts, HandStepTyped DEF Wire!Says

LEMMA WireTypedInit ==
  ASSUME Wire!ChatAssumption, Wire!Init PROVE WireTyped
<1>1. /\ channel = <<>> /\ raised = <<>> /\ standing = {} /\ recorded = {} /\ skipped = {}
      /\ lost = 0 /\ now = 1
  BY DEF Wire!Init
<1>2. Wire!Ids = {} /\ Wire!Said = {} /\ Wire!Posts = {} /\ Len(channel) = 0 /\ Len(raised) = 0
  BY <1>1 DEF Wire!Ids, Wire!Said, Wire!Posts
<1>3. /\ channel \in Seq(Wire!Entry) /\ raised \in Seq(1..now)
      /\ <<>> \in Seq(Wire!Said) /\ <<>> \in Seq(Giveable)
  BY <1>1
<1>4. \A h \in Hosts : wire[h] \in Side
  <2>1. [Wire!Deaf EXCEPT !.up = TRUE] \in Side
    <3>1. 0 \in 0..Len(channel) /\ {} \in SUBSET Wire!Said
      BY <1>2
    <3> QED BY <1>3, <3>1 DEF Wire!Deaf, Side, Wire!Never
  <2> QED BY <2>1 DEF Wire!Init
<1>5. wire \in [Hosts -> Side] /\ work \in [Hosts -> Holding]
  <2>1. Wire!Idle \in Holding
    BY <1>3 DEF Wire!Idle, Holding
  <2> QED BY <1>4, <2>1 DEF Wire!Init
<1>6. mark \in [at : 0..now, delivery : {Wire!Never} \cup Wire!Posts] /\ now \in 1..MaxNow
  BY <1>1 DEF Wire!Init, Wire!ChatAssumption
<1>7. MaxRaised \in Nat /\ MaxLost \in Nat
  BY DEF Wire!ChatAssumption
<1>8. Wire!TypeOK
  <2>1. 0 \in 0..MaxLost
    BY <1>7
  <2>2. standing \subseteq DOMAIN raised /\ recorded \subseteq Giveable /\ lost \in 0..MaxLost
        /\ skipped \subseteq Hosts \X Messages /\ presenter \in Hosts \cup {NoHolder}
    BY <1>1, <2>1 DEF Wire!Init
  <2> QED BY <1>3, <1>5, <1>6, <2>2, TypesAre
<1>9. ASSUME NEW h \in Hosts PROVE Fits(work[h])
  <2>1. work[h] = Wire!Idle
    BY DEF Wire!Init
  <2>2. Wire!Range(Wire!Idle.giving) = {} /\ Wire!Idle.in = "idle" /\ Wire!Idle.giving = <<>>
    BY DEF Wire!Idle, Wire!Range
  <2> QED BY <2>1, <2>2 DEF Fits
<1> QED BY <1>1, <1>2, <1>7, <1>8, <1>9 DEF WireTyped, PostedInTime, SaidOnce

LEMMA WireTypedStill ==
  ASSUME WireTyped, UNCHANGED Wire!vars PROVE WireTyped'
<1>1. Side' = Side /\ Holding' = Holding /\ Wire!Posts' = Wire!Posts /\ Wire!Said' = Wire!Said
  BY DEF Wire!vars, Side, Holding, Giveable, Wire!Said, Wire!Posts, Wire!Ids
<1>2. Wire!TypeOK'
  BY <1>1 DEF Wire!vars, WireTyped, Wire!TypeOK, Wire!clock
<1> QED BY <1>1, <1>2 DEF Wire!vars, Wire!clock, WireTyped, PostedInTime, SaidOnce, Fits, IsAsked

LEMMA WireTypedStep ==
  ASSUME Wire!ChatAssumption, WireTyped, [Wire!Next]_(Wire!vars) PROVE WireTyped'
<1>1. CASE \E h \in Hosts : Wire!Wires(h)
  BY <1>1, StartsTyped, ConnectsTyped, ArrivesTyped, WaitedTyped DEF Wire!Wires
<1>2. CASE \E h \in Hosts : Wire!Turns(h)
  BY <1>2, LetsGoTyped, HearsTyped, RecordsTyped, RepliesToTyped, TakesPresenterTyped,
     AppliesTyped, DeliversTyped, MarksTyped DEF Wire!Turns
<1>3. CASE \E h \in Hosts : Wire!Faulty(h)
  BY <1>3, DisconnectsTyped, StopsTyped, WaitedFailsTyped, ReplyFailsTyped,
     DeliveryFailsTyped DEF Wire!Faulty
<1>4. CASE Wire!Raises \/ Wire!TurnsOver \/ \E m \in Messages : Wire!Says(m)
  BY <1>4, RaisesTyped, TurnsOverTyped, SaysTyped
<1>5. CASE UNCHANGED Wire!vars
  BY <1>5, WireTypedStill
<1> QED BY <1>1, <1>2, <1>3, <1>4, <1>5 DEF Wire!Next

\* Every record of the channel, of the sink and of the hosts has its type, a host
\* has read no further than the channel goes, and what it waits for, has taken or
\* is to mark was written there (chat.rs, discord.rs Inbox, Host::hear).  What is
\* assumed of the constants is what a run of Chat evaluates.
THEOREM ChatTyped == Wire!ChatAssumption => (Wire!Spec => []Wire!TypeOK)
<1> SUFFICES ASSUME Wire!ChatAssumption PROVE Wire!Spec => []Wire!TypeOK
  OBVIOUS
<1>1. Wire!Init => WireTyped
  BY WireTypedInit
<1>2. WireTyped /\ [Wire!Next]_(Wire!vars) => WireTyped'
  BY WireTypedStep
<1>3. WireTyped => Wire!TypeOK
  BY DEF WireTyped
<1> QED BY <1>1, <1>2, <1>3, PTL DEF Wire!Spec

------------------------------------------------------------------------------
(* An answer is acknowledged once                                            *)

\* What is replied to is on record, or is what the sink accepts no such message of.
Settled(g) ==
  \E n \in Wire!Said : /\ channel[n].of = g[1]
                       /\ IF channel[n].kind = "other" THEN g[2] = 0 ELSE g \in recorded

Acknowledges(n) == channel[n].what = "reply"
Acknowledged(g) == \E n \in Wire!Ids : Acknowledges(n) /\ channel[n].of = g[1] /\ channel[n].number = g[2]
IsReplying(h) == work[h].in = "replying"

\* A host that is to reply has recorded what it replies to, and it alone.
RepliesAlone ==
  \A h \in Hosts : IsReplying(h) =>
    /\ Settled(Wire!Given(h))
    /\ Wire!Given(h)[2] # 0 =>
         /\ ~Acknowledged(Wire!Given(h))
         /\ \A k \in Hosts : k # h /\ IsReplying(k) => Wire!Given(k) # Wire!Given(h)

RepliesSettled ==
  \A n \in Wire!Ids : Acknowledges(n) => Settled(<<channel[n].of, channel[n].number>>)

AckInv == RepliesSettled /\ RepliesAlone /\ Wire!AcknowledgedOnce

LEMMA SettledOn ==
  ASSUME WireTyped, Onward, recorded \subseteq recorded', NEW g, Settled(g)
  PROVE  Settled(g)'
<1>1. PICK n \in Wire!Said : /\ channel[n].of = g[1]
                             /\ IF channel[n].kind = "other" THEN g[2] = 0 ELSE g \in recorded
  BY DEF Settled
<1>2. n \in Wire!Said' /\ channel'[n] = channel[n]
  BY WireParts, IdsAre, OnwardIs
<1> QED BY <1>1, <1>2 DEF Settled

\* What recording leaves to be settled is settled by it and was not before.
LEMMA SettledIs ==
  ASSUME WireTyped, NEW g, IsAsked(g)
  PROVE  /\ Wire!KindOf(g[1]) = "other" => Settled(g) /\ g[2] = 0
         /\ Wire!KindOf(g[1]) # "other" /\ Settled(g) => g \in recorded
         /\ \E n \in Wire!Said : channel[n].of = g[1] /\ channel[n].kind = Wire!KindOf(g[1])
<1>1. PICK n \in Wire!Said : channel[n].of = g[1] /\ (channel[n].kind = "other" => g[2] = 0)
  BY DEF IsAsked
<1>2. SaidOnce
  BY DEF WireTyped
<1>3. channel[n].kind = Wire!KindOf(g[1])
  BY <1>1, <1>2, KindIs
<1>4. \A k \in Wire!Said : channel[k].of = g[1] => k = n
  BY <1>1, <1>2 DEF SaidOnce
<1> QED BY <1>1, <1>3, <1>4 DEF Settled

\* Steps that acknowledge nothing, and leave nobody to reply who was not.
LEMMA NothingAcknowledged ==
  ASSUME WireTyped, AckInv, Onward, recorded \subseteq recorded',
         \A n \in Wire!Ids' \ Wire!Ids : channel'[n].what # "reply",
         \A k \in Hosts : work'[k].in = "replying" =>
           work[k].in = "replying" /\ work'[k].giving = work[k].giving
  PROVE  AckInv'
<1>1. Wire!Ids \subseteq Wire!Ids' /\ \A n \in Wire!Ids : channel'[n] = channel[n]
  BY WireParts, OnwardIs
<1>2. \A n \in Wire!Ids' : channel'[n].what = "reply" => n \in Wire!Ids /\ Acknowledges(n)
  BY <1>1 DEF Acknowledges
<1>3. RepliesSettled'
  BY <1>1, <1>2, SettledOn DEF AckInv, RepliesSettled, Acknowledges
<1>4. Wire!AcknowledgedOnce'
  BY <1>1, <1>2 DEF AckInv, Wire!AcknowledgedOnce, Acknowledges
<1>5. \A g : Acknowledged(g)' => Acknowledged(g)
  BY <1>1, <1>2 DEF Acknowledged, Acknowledges
<1>6. \A k \in Hosts : IsReplying(k)' => IsReplying(k) /\ Wire!Given(k)' = Wire!Given(k)
  BY DEF IsReplying, Wire!Given
<1>7. RepliesAlone'
  <2> SUFFICES ASSUME NEW h \in Hosts, IsReplying(h)'
               PROVE  /\ Settled(Wire!Given(h))'
                      /\ Wire!Given(h)'[2] # 0 =>
                           /\ ~Acknowledged(Wire!Given(h))'
                           /\ \A k \in Hosts : k # h /\ IsReplying(k)' => Wire!Given(k)' # Wire!Given(h)'
    BY DEF RepliesAlone
  <2>1. IsReplying(h) /\ Wire!Given(h)' = Wire!Given(h)
    BY <1>6
  <2>2. Settled(Wire!Given(h))
    BY <2>1 DEF AckInv, RepliesAlone
  <2>3. Settled(Wire!Given(h))'
    <3> DEFINE g == Wire!Given(h)
    <3>1. \E x : x = Wire!Given(h)
      OBVIOUS
    <3>2. PICK x : x = Wire!Given(h)
      BY <3>1
    <3>3. Settled(x)
      BY <2>2, <3>2
    <3>4. Settled(x)'
      BY <3>3, SettledOn
    <3> QED BY <2>1, <3>2, <3>4 DEF Settled
  <2>4. ASSUME Wire!Given(h)'[2] # 0
        PROVE  /\ ~Acknowledged(Wire!Given(h))'
               /\ \A k \in Hosts : k # h /\ IsReplying(k)' => Wire!Given(k)' # Wire!Given(h)'
    <3>1. /\ ~Acknowledged(Wire!Given(h))
          /\ \A k \in Hosts : k # h /\ IsReplying(k) => Wire!Given(k) # Wire!Given(h)
      BY <2>1, <2>4 DEF AckInv, RepliesAlone
    <3>2. ~Acknowledged(Wire!Given(h))'
      BY <1>1, <1>2, <2>1, <3>1 DEF Acknowledged, Acknowledges
    <3> QED BY <1>6, <2>1, <3>1, <3>2
  <2> QED BY <2>3, <2>4
<1> QED BY <1>3, <1>4, <1>7 DEF AckInv

LEMMA RecordsAck ==
  ASSUME WireTyped, AckInv, NEW h \in Hosts, Wire!Records(h) PROVE AckInv'
<1>1. UNCHANGED channel /\ Onward
  BY DEF Wire!Records, Onward
<1>2. recorded \subseteq recorded' /\ \A k \in Hosts : k # h => work'[k] = work[k]
  BY RecordsIs
<1>3. CASE work'[h].in \in {"idle", "hearing"}
  <2>1. \A k \in Hosts : work'[k].in = "replying" =>
           work[k].in = "replying" /\ work'[k].giving = work[k].giving
    BY <1>2, <1>3
  <2>2. \A n \in Wire!Ids' \ Wire!Ids : channel'[n].what # "reply"
    BY <1>1 DEF Wire!Ids
  <2> QED BY <1>1, <1>2, <2>1, <2>2, NothingAcknowledged
<1>4. CASE /\ work'[h].in = "replying" /\ work'[h].giving = work[h].giving
           /\ Wire!KindOf(Wire!Given(h)[1]) = "other" \/ Wire!Given(h) \notin recorded
  <2>1. PICK g : g = Wire!Given(h)
    OBVIOUS
  <2>2. /\ IsAsked(g) /\ (Wire!KindOf(g[1]) # "other" => g \in recorded') /\ g = Wire!Given(h)'
        /\ Wire!KindOf(g[1]) = "other" \/ g \notin recorded
    BY <1>4, <2>1, RecordsIs DEF Wire!Given
  <2>3. /\ Wire!KindOf(g[1]) = "other" => Settled(g) /\ g[2] = 0
        /\ Wire!KindOf(g[1]) # "other" /\ Settled(g) => g \in recorded
        /\ \E n \in Wire!Said : channel[n].of = g[1] /\ channel[n].kind = Wire!KindOf(g[1])
    BY <2>2, SettledIs
  <2>4. Settled(g)'
    <3>1. CASE Wire!KindOf(g[1]) = "other"
      <4>1. Settled(g)
        BY <2>3, <3>1
      <4> QED BY <1>1, <1>2, <4>1, SettledOn
    <3>2. CASE Wire!KindOf(g[1]) # "other"
      BY <1>1, <2>2, <2>3, <3>2 DEF Settled, Wire!Said, Wire!Ids
    <3> QED BY <3>1, <3>2
  <2>5. g[2] # 0 => ~Settled(g)
    BY <2>2, <2>3
  <2>6. \A k \in Hosts : k # h => (IsReplying(k)' <=> IsReplying(k)) /\ Wire!Given(k)' = Wire!Given(k)
    BY <1>2 DEF IsReplying, Wire!Given
  <2>7. \A x : Acknowledged(x)' <=> Acknowledged(x)
    BY <1>1 DEF Acknowledged, Acknowledges, Wire!Ids
  <2>8. g[2] # 0 => ~Acknowledged(g) /\ \A k \in Hosts : IsReplying(k) => Wire!Given(k) # g
    <3> SUFFICES ASSUME g[2] # 0
                 PROVE  ~Acknowledged(g) /\ \A k \in Hosts : IsReplying(k) => Wire!Given(k) # g
      OBVIOUS
    <3>1. \A k \in Hosts : IsReplying(k) => Settled(Wire!Given(k))
      BY DEF AckInv, RepliesAlone
    <3>2. ~Acknowledged(g)
      <4> SUFFICES ASSUME NEW n \in Wire!Ids, Acknowledges(n), channel[n].of = g[1], channel[n].number = g[2]
                   PROVE  FALSE
        BY DEF Acknowledged
      <4>1. g \in Giveable
        BY <2>1, RecordsIs
      <4>2. <<channel[n].of, channel[n].number>> = g
        BY <4>1 DEF Giveable
      <4> QED BY <2>5, <4>2 DEF AckInv, RepliesSettled
    <3> QED BY <2>5, <3>1, <3>2
  <2>9. RepliesAlone'
    <3> SUFFICES ASSUME NEW k \in Hosts, IsReplying(k)'
                 PROVE  /\ Settled(Wire!Given(k))'
                        /\ Wire!Given(k)'[2] # 0 =>
                             /\ ~Acknowledged(Wire!Given(k))'
                             /\ \A j \in Hosts : j # k /\ IsReplying(j)' => Wire!Given(j)' # Wire!Given(k)'
      BY DEF RepliesAlone
    <3>1. CASE k = h
      <4>1. Settled(Wire!Given(k))'
        BY <2>2, <2>4, <3>1 DEF Settled
      <4>2. g[2] # 0 => ~Acknowledged(Wire!Given(k))'
        BY <2>2, <2>7, <2>8, <3>1 DEF Acknowledged
      <4>3. g[2] # 0 => \A j \in Hosts : j # k /\ IsReplying(j)' => Wire!Given(j)' # Wire!Given(k)'
        BY <2>2, <2>6, <2>8, <3>1
      <4> QED BY <2>2, <3>1, <4>1, <4>2, <4>3
    <3>2. CASE k # h
      <4>1. PICK x : x = Wire!Given(k)
        OBVIOUS
      <4>2. IsReplying(k) /\ x = Wire!Given(k)'
        BY <2>6, <3>2, <4>1
      <4>3. /\ Settled(x)
            /\ x[2] # 0 => ~Acknowledged(x) /\ \A j \in Hosts : j # k /\ IsReplying(j) => Wire!Given(j) # x
        BY <4>1, <4>2 DEF AckInv, RepliesAlone
      <4>4. Settled(x)'
        BY <1>1, <1>2, <4>3, SettledOn
      <4>5. Settled(Wire!Given(k))'
        BY <4>2, <4>4 DEF Settled
      <4>6. x[2] # 0 => ~Acknowledged(Wire!Given(k))'
        BY <2>7, <4>2, <4>3 DEF Acknowledged
      <4>7. x[2] # 0 => g # x
        BY <2>8, <4>1, <4>2
      <4>8. x[2] # 0 => \A j \in Hosts : j # k /\ IsReplying(j)' => Wire!Given(j)' # x
        BY <2>2, <2>6, <4>3, <4>7
      <4> QED BY <4>2, <4>5, <4>6, <4>8
    <3> QED BY <3>1, <3>2
  <2>10. RepliesSettled'
    <3>1. \A n \in Wire!Ids : Acknowledges(n) => Settled(<<channel[n].of, channel[n].number>>)'
      BY <1>1, <1>2, SettledOn DEF AckInv, RepliesSettled
    <3> QED BY <1>1, <3>1 DEF RepliesSettled, Acknowledges, Settled, Wire!Ids
  <2>11. Wire!AcknowledgedOnce'
    BY <1>1 DEF AckInv, Wire!AcknowledgedOnce, Wire!Ids
  <2> QED BY <2>9, <2>10, <2>11 DEF AckInv
<1> QED BY <1>3, <1>4, RecordsIs

LEMMA RepliesToAck ==
  ASSUME WireTyped, AckInv, NEW h \in Hosts, Wire!RepliesTo(h) PROVE AckInv'
<1> DEFINE l == Len(channel) + 1
<1>1. PICK g : g = Wire!Given(h)
  OBVIOUS
<1>2. /\ Onward /\ channel' = Append(channel, ReplyOf(g)) /\ recorded' = recorded
      /\ \A k \in Hosts : k # h => work'[k] = work[k]
      /\ work'[h].in # "replying" /\ work[h].in = "replying"
  BY <1>1, RepliesIs DEF Wire!RepliesTo
<1>3. g \in Giveable /\ g = <<g[1], g[2]>>
  <2>1. g \in Giveable
    BY <1>1, <1>2, GivenIs
  <2> QED BY <2>1 DEF Giveable
<1>4. /\ Wire!Ids' = Wire!Ids \cup {l} /\ l \notin Wire!Ids
      /\ \A n \in Wire!Ids : channel'[n] = channel[n]
      /\ channel'[l].what = "reply" /\ channel'[l].of = g[1] /\ channel'[l].number = g[2]
  <2> DEFINE e == ReplyOf(g)
  <2>1. e.what = "reply" /\ e.of = g[1] /\ e.number = g[2]
    BY DEF ReplyOf
  <2> HIDE DEF e
  <2> QED BY <1>2, <2>1, WireParts DEF Wire!Ids, e
<1> HIDE DEF l
<1>5. /\ Settled(g)
      /\ g[2] # 0 => ~Acknowledged(g) /\ \A k \in Hosts : k # h /\ IsReplying(k) => Wire!Given(k) # g
  BY <1>1, <1>2 DEF AckInv, RepliesAlone, IsReplying
<1>6. \A x : Settled(x) => Settled(x)'
  BY <1>2, SettledOn
<1>7. RepliesSettled'
  <2> SUFFICES ASSUME NEW n \in Wire!Ids', Acknowledges(n)'
               PROVE  Settled(<<channel[n].of, channel[n].number>>)'
    BY DEF RepliesSettled
  <2>1. CASE n = l
    <3>1. Settled(g)'
      BY <1>5, <1>6
    <3>2. g = <<channel'[n].of, channel'[n].number>>
      BY <1>3, <1>4, <2>1
    <3> QED BY <3>1, <3>2 DEF Settled
  <2>2. CASE n # l
    <3>1. n \in Wire!Ids /\ channel'[n] = channel[n] /\ Acknowledges(n)
      BY <1>4, <2>2 DEF Acknowledges
    <3>2. PICK x : x = <<channel[n].of, channel[n].number>>
      OBVIOUS
    <3>3. Settled(x)'
      BY <1>6, <3>1, <3>2 DEF AckInv, RepliesSettled
    <3> QED BY <3>1, <3>2, <3>3 DEF Settled
  <2> QED BY <2>1, <2>2
<1>8. \A x : Acknowledged(x)' => Acknowledged(x) \/ (x[1] = g[1] /\ x[2] = g[2])
  BY <1>4 DEF Acknowledged, Acknowledges
<1>9. RepliesAlone'
  <2> SUFFICES ASSUME NEW k \in Hosts, IsReplying(k)'
               PROVE  /\ Settled(Wire!Given(k))'
                      /\ Wire!Given(k)'[2] # 0 =>
                           /\ ~Acknowledged(Wire!Given(k))'
                           /\ \A j \in Hosts : j # k /\ IsReplying(j)' => Wire!Given(j)' # Wire!Given(k)'
    BY DEF RepliesAlone
  <2>1. PICK x : x = Wire!Given(k)
    OBVIOUS
  <2>2. k # h /\ IsReplying(k) /\ x = Wire!Given(k)'
    BY <1>2, <2>1 DEF IsReplying, Wire!Given
  <2>3. /\ Settled(x)
        /\ x[2] # 0 => ~Acknowledged(x) /\ \A j \in Hosts : j # k /\ IsReplying(j) => Wire!Given(j) # x
    BY <2>1, <2>2 DEF AckInv, RepliesAlone
  <2>4. x \in Giveable /\ x = <<x[1], x[2]>>
    <3>1. x \in Giveable
      BY <2>1, <2>2, GivenIs DEF IsReplying
    <3> QED BY <3>1 DEF Giveable
  <2>5. Settled(Wire!Given(k))'
    BY <1>6, <2>2, <2>3 DEF Settled
  <2>6. x[2] # 0 => g # x
    BY <1>1, <1>2, <2>2, <2>3 DEF IsReplying
  <2>7. x[2] # 0 => ~Acknowledged(Wire!Given(k))'
    <3>1. x[2] # 0 => ~(x[1] = g[1] /\ x[2] = g[2])
      BY <1>3, <2>4, <2>6
    <3>2. x[2] # 0 => ~Acknowledged(x)'
      BY <1>8, <2>3, <3>1
    <3> QED BY <2>2, <3>2 DEF Acknowledged
  <2>8. \A j \in Hosts : IsReplying(j)' => IsReplying(j) /\ Wire!Given(j)' = Wire!Given(j)
    BY <1>2 DEF IsReplying, Wire!Given
  <2>9. x[2] # 0 => \A j \in Hosts : j # k /\ IsReplying(j)' => Wire!Given(j)' # x
    BY <2>3, <2>8
  <2> QED BY <2>2, <2>5, <2>7, <2>9
<1>10. Wire!AcknowledgedOnce'
  <2> SUFFICES ASSUME NEW m \in Wire!Ids', NEW n \in Wire!Ids', channel'[m].what = "reply",
                      channel'[n].what = "reply", m # n, channel'[m].number # 0,
                      <<channel'[m].of, channel'[m].number>> = <<channel'[n].of, channel'[n].number>>
               PROVE  FALSE
    BY DEF Wire!AcknowledgedOnce
  <2>1. channel'[m].of = channel'[n].of /\ channel'[m].number = channel'[n].number
    OBVIOUS
  <2>2. CASE m \in Wire!Ids /\ n \in Wire!Ids
    BY <1>4, <2>2 DEF AckInv, Wire!AcknowledgedOnce
  <2>3. CASE m = l
    <3>1. n \in Wire!Ids /\ channel'[n] = channel[n]
      BY <1>4, <2>3
    <3> QED BY <1>4, <1>5, <2>1, <2>3, <3>1 DEF Acknowledged, Acknowledges
  <2>4. CASE n = l
    <3>1. m \in Wire!Ids /\ channel'[m] = channel[m]
      BY <1>4, <2>4
    <3> QED BY <1>4, <1>5, <2>1, <2>4, <3>1 DEF Acknowledged, Acknowledges
  <2> QED BY <1>4, <2>2, <2>3, <2>4
<1> QED BY <1>7, <1>9, <1>10 DEF AckInv

\* What fires of a host that does not record and does not reply.
LEMMA OthersAck ==
  ASSUME Wire!ChatAssumption, WireTyped, AckInv, [Wire!Next]_(Wire!vars),
         \A h \in Hosts : ~Wire!Records(h) /\ ~Wire!RepliesTo(h)
  PROVE  AckInv'
<1> SUFFICES ASSUME AckInv
             PROVE  /\ Onward /\ recorded \subseteq recorded'
                    /\ \A n \in Wire!Ids' \ Wire!Ids : channel'[n].what # "reply"
                    /\ \A k \in Hosts : work'[k].in = "replying" =>
                         work[k].in = "replying" /\ work'[k].giving = work[k].giving
  BY NothingAcknowledged
<1> DEFINE Silent ==
      /\ Onward /\ recorded \subseteq recorded'
      /\ \A n \in Wire!Ids' \ Wire!Ids : channel'[n].what # "reply"
    Still == \A k \in Hosts : work'[k].in = "replying" =>
               work[k].in = "replying" /\ work'[k].giving = work[k].giving
<1>1. UNCHANGED channel /\ recorded \subseteq recorded' => Silent
  BY DEF Onward, Wire!Ids
<1>2. UNCHANGED work => Still
  OBVIOUS
<1>3. ASSUME NEW h \in Hosts, \A k \in Hosts : k # h => work'[k] = work[k], work'[h].in # "replying"
      PROVE  Still
  BY <1>3
<1>4. \A e \in Wire!Entry :
        channel' = Append(channel, e) /\ e.what # "reply" /\ recorded' = recorded => Silent
  <2> SUFFICES ASSUME NEW e \in Wire!Entry, channel' = Append(channel, e), e.what # "reply",
                      recorded' = recorded
               PROVE  Silent
    OBVIOUS
  <2>1. \A n \in Wire!Ids' \ Wire!Ids : channel'[n] = e
    BY WireParts DEF Wire!Ids
  <2> QED BY <2>1 DEF Onward
<1> HIDE DEF Silent, Still
<1>5. ASSUME NEW h \in Hosts,
             \/ Wire!Starts(h) \/ Wire!Connects(h) \/ Wire!Arrives(h) \/ Wire!Waited(h)
             \/ Wire!LetsGo(h) \/ Wire!TakesPresenter(h) \/ Wire!Applies(h)
             \/ Wire!Disconnects(h) \/ Wire!WaitedFails(h)
      PROVE  Silent /\ Still
  BY <1>1, <1>2, <1>5 DEF Wire!Starts, Wire!Connects, Wire!Arrives, Wire!Waited, Wire!LetsGo,
     Wire!TakesPresenter, Wire!Applies, Wire!Disconnects, Wire!WaitedFails
<1>6. ASSUME NEW h \in Hosts, Wire!Hears(h) PROVE Silent /\ Still
  <2>1. work'[h].in # "replying" /\ \A k \in Hosts : k # h => work'[k] = work[k]
    BY <1>6, HearsIs
  <2> QED BY <1>1, <1>3, <1>6, <2>1 DEF Wire!Hears
<1>7. ASSUME NEW h \in Hosts, Wire!ReplyFails(h) PROVE Silent /\ Still
  <2>1. work'[h].in # "replying" /\ \A k \in Hosts : k # h => work'[k] = work[k]
    BY <1>7, ReplyFailsIs
  <2> QED BY <1>1, <1>3, <1>7, <2>1 DEF Wire!ReplyFails
<1>8. ASSUME NEW h \in Hosts, Wire!Stops(h) \/ Wire!Marks(h) PROVE Silent /\ Still
  <2>1. work' = [work EXCEPT ![h] = Wire!Idle] /\ UNCHANGED <<channel, recorded>>
    BY <1>8 DEF Wire!Stops, Wire!Marks
  <2>2. work'[h].in # "replying" /\ \A k \in Hosts : k # h => work'[k] = work[k]
    BY <2>1, WireParts DEF Wire!Idle
  <2> QED BY <1>1, <1>3, <2>1, <2>2
<1>9. ASSUME NEW h \in Hosts, Wire!Delivers(h) PROVE Silent /\ Still
  <2>1. /\ Wire!Rendering \in Wire!Entry /\ Wire!Rendering.what # "reply"
        /\ channel' = Append(channel, Wire!Rendering)
    BY <1>9, DeliversIs DEF Wire!Rendering
  <2>2. work'[h].in # "replying" /\ \A k \in Hosts : k # h => work'[k] = work[k]
    BY <1>9, WireParts DEF Wire!Delivers, Holding
  <2> QED BY <1>3, <1>4, <1>9, <2>1, <2>2 DEF Wire!Delivers
<1>10. ASSUME NEW h \in Hosts, Wire!DeliveryFails(h) PROVE Silent /\ Still
  <2> DEFINE piece == [what |-> "piece"]
  <2>1. piece \in Wire!Entry /\ piece.what # "reply"
    BY DEF Wire!Entry
  <2>2. (channel' = channel \/ channel' = Append(channel, piece)) /\ UNCHANGED <<recorded, work>>
    BY <1>10 DEF Wire!DeliveryFails
  <2> HIDE DEF piece
  <2> QED BY <1>1, <1>2, <1>4, <2>1, <2>2
<1>11. ASSUME NEW m \in Messages, Wire!Says(m) PROVE Silent /\ Still
  <2>1. PICK k \in Kinds, d \in 0..MaxRaised :
          channel' = Append(channel, [what |-> "said", of |-> m, kind |-> k, number |-> d])
    BY <1>11 DEF Wire!Says
  <2> DEFINE e == [what |-> "said", of |-> m, kind |-> k, number |-> d]
  <2>2. e \in Wire!Entry /\ e.what # "reply" /\ channel' = Append(channel, e)
    BY <2>1 DEF Wire!Entry
  <2>3. UNCHANGED <<recorded, work>>
    BY <1>11 DEF Wire!Says
  <2> HIDE DEF e
  <2> QED BY <1>2, <1>4, <2>2, <2>3
<1>12. ASSUME Wire!Raises \/ Wire!TurnsOver \/ UNCHANGED Wire!vars PROVE Silent /\ Still
  BY <1>1, <1>2, <1>12 DEF Wire!Raises, Wire!TurnsOver, Wire!vars
<1> QED
  BY <1>5, <1>6, <1>7, <1>8, <1>9, <1>10, <1>11, <1>12
  DEF Wire!Next, Wire!Wires, Wire!Turns, Wire!Faulty, Silent, Still

LEMMA AckStep ==
  ASSUME Wire!ChatAssumption, WireTyped, AckInv, [Wire!Next]_(Wire!vars) PROVE AckInv'
BY RecordsAck, RepliesToAck, OthersAck

LEMMA AckInit == ASSUME Wire!Init PROVE AckInv
<1>1. Wire!Ids = {}
  BY DEF Wire!Init, Wire!Ids
<1>2. \A h \in Hosts : ~IsReplying(h)
  BY DEF Wire!Init, IsReplying, Wire!Idle
<1> QED BY <1>1, <1>2 DEF AckInv, RepliesSettled, RepliesAlone, Wire!AcknowledgedOnce

\* What a message answers of a decision is acknowledged once at most, however many
\* hosts hear it, stop, present in turn and read it again: it is recorded before
\* it is replied to, by one host alone (chat.rs answer, discord.rs waited).
THEOREM AcknowledgementsAreSaidOnce == Wire!ChatAssumption => (Wire!Spec => []AcknowledgedOnce)
<1> SUFFICES ASSUME Wire!ChatAssumption PROVE Wire!Spec => []AcknowledgedOnce
  OBVIOUS
<1>1. Wire!Init => WireTyped /\ AckInv
  BY WireTypedInit, AckInit
<1>2. WireTyped /\ AckInv /\ [Wire!Next]_(Wire!vars) => (WireTyped /\ AckInv)'
  BY WireTypedStep, AckStep
<1>3. AckInv => AcknowledgedOnce
  BY DEF AckInv, Wire!AcknowledgedOnce, AcknowledgedOnce, Wire!Ids, Ids
<1> QED BY <1>1, <1>2, <1>3, PTL DEF Wire!Spec

------------------------------------------------------------------------------
(* Nothing that was written falls through                                    *)

AsksOf(n) == channel[n].kind \in {"answer", "forward"}

\* A message that a host took from the wire and still has, or need not have.
Kept(h, n) ==
  \/ n \in Wire!Range(wire[h].waiting) \/ channel[n].of \in Wire!InHand(h)
  \/ Wire!IsHeard(channel[n].of) \/ <<h, channel[n].of>> \in skipped

\* What a host took from the wire is kept, and what it did not is still to come.
HearsAll(h) ==
  \A n \in Wire!Said : AsksOf(n) =>
    /\ n \in wire[h].handed => Kept(h, n)
    /\ wire[h].connected => n \in wire[h].handed \cup Wire!ToCome(h) \/ Kept(h, n)

MissInv == \A h \in Hosts : HearsAll(h)

LEMMA MissInvIs == ASSUME MissInv PROVE Wire!NothingMissed
<1> SUFFICES ASSUME NEW h \in Hosts, NEW n \in Wire!Said, wire[h].connected, AsksOf(n)
             PROVE  n \in Wire!ToCome(h) \/ Kept(h, n)
  BY DEF Wire!NothingMissed, AsksOf, Kept, Wire!IsHeard
<1> QED BY DEF MissInv, HearsAll

\* A host that gives up nothing it has, while one entry at most is written.
LEMMA KeepsOn ==
  ASSUME WireTyped, Onward, NEW h \in Hosts, HearsAll(h),
         \A n \in Wire!Said : Kept(h, n) => Kept(h, n)',
         wire'[h].handed = wire[h].handed,
         wire'[h].connected => /\ wire[h].connected /\ wire'[h].gateway = wire[h].gateway
                               /\ wire'[h].unread = wire[h].unread /\ wire'[h].from = wire[h].from
  PROVE  HearsAll(h)'
<1> SUFFICES ASSUME NEW n \in Wire!Said', AsksOf(n)'
             PROVE  /\ n \in wire'[h].handed => Kept(h, n)'
                    /\ wire'[h].connected => n \in wire'[h].handed \cup Wire!ToCome(h)' \/ Kept(h, n)'
  BY DEF HearsAll
<1>1. CASE n \in Wire!Said
  <2>1. AsksOf(n)
    BY <1>1, WireParts, OnwardIs, IdsAre DEF AsksOf
  <2>2. /\ n \in wire[h].handed => Kept(h, n)
        /\ wire[h].connected => n \in wire[h].handed \cup Wire!ToCome(h) \/ Kept(h, n)
    BY <1>1, <2>1 DEF HearsAll
  <2>3. wire'[h].connected /\ n \in Wire!ToCome(h) => n \in Wire!ToCome(h)'
    BY DEF Wire!ToCome
  <2> QED BY <1>1, <2>2, <2>3
<1>2. CASE n \notin Wire!Said
  <2>1. n \notin wire'[h].handed
    BY <1>2, SideIs
  <2>2. n \notin Wire!Ids /\ n \in Wire!Ids'
    BY <1>2, WireParts, OnwardIs DEF Wire!Said
  <2>3. n = Len(channel) + 1
    BY <2>2, WireParts, OnwardIs
  <2>4. n > wire[h].gateway
    BY <2>3, SideIs
  <2> QED BY <2>1, <2>4 DEF Wire!ToCome
<1> QED BY <1>1, <1>2

\* What keeps a message kept.
LEMMA KeptOn ==
  ASSUME WireTyped, Onward, NEW h \in Hosts, NEW n \in Wire!Said, Kept(h, n),
         n \in Wire!Range(wire[h].waiting) => Kept(h, n)',
         channel[n].of \in Wire!InHand(h) => Kept(h, n)',
         recorded \subseteq recorded',
         <<h, channel[n].of>> \in skipped => <<h, channel[n].of>> \in skipped'
  PROVE  Kept(h, n)'
<1>1. channel'[n] = channel[n]
  BY WireParts, OnwardIs, IdsAre
<1>2. \A m : Wire!IsHeard(m) => Wire!IsHeard(m)'
  BY DEF Wire!IsHeard
<1>3. Wire!IsHeard(channel[n].of) => Kept(h, n)'
  BY <1>1, <1>2 DEF Kept, Wire!IsHeard
<1>4. <<h, channel[n].of>> \in skipped => Kept(h, n)'
  BY <1>1 DEF Kept
<1> QED BY <1>3, <1>4 DEF Kept

\* A host whose wire, hand and skipped messages a step leaves alone.
LEMMA HostStill ==
  ASSUME WireTyped, Onward, NEW h \in Hosts, HearsAll(h), recorded \subseteq recorded',
         wire'[h].handed = wire[h].handed, wire'[h].connected \in {wire[h].connected, FALSE},
         wire'[h].gateway = wire[h].gateway, wire'[h].unread = wire[h].unread,
         wire'[h].from = wire[h].from, wire'[h].waiting = wire[h].waiting,
         work'[h].giving = work[h].giving,
         \A s \in skipped : s[1] = h => s \in skipped'
  PROVE  HearsAll(h)'
<1>1. ASSUME NEW n \in Wire!Said, Kept(h, n) PROVE Kept(h, n)'
  <2>1. channel'[n] = channel[n]
    BY WireParts, OnwardIs, IdsAre
  <2>2. n \in Wire!Range(wire[h].waiting) => Kept(h, n)'
    BY DEF Kept, Wire!Range
  <2>3. channel[n].of \in Wire!InHand(h) => Kept(h, n)'
    BY <2>1 DEF Kept, Wire!InHand
  <2>4. <<h, channel[n].of>> \in skipped => <<h, channel[n].of>> \in skipped'
    OBVIOUS
  <2> QED BY <1>1, <2>2, <2>3, <2>4, KeptOn
<1>2. wire'[h].connected => wire[h].connected
  BY SideIs
<1> QED BY <1>1, <1>2, KeepsOn

\* The hosts that a step of another leaves alone.
LEMMA OthersStill ==
  ASSUME WireTyped, Onward, MissInv, NEW h \in Hosts, recorded \subseteq recorded',
         \A k \in Hosts : k # h => wire'[k] = wire[k] /\ work'[k] = work[k],
         \A s \in skipped : s[1] # h => s \in skipped', HearsAll(h)'
  PROVE  MissInv'
<1> SUFFICES ASSUME NEW k \in Hosts, k # h PROVE HearsAll(k)'
  BY DEF MissInv
<1>1. HearsAll(k) /\ wire'[k] = wire[k] /\ work'[k] = work[k]
  BY DEF MissInv
<1>2. \A s \in skipped : s[1] = k => s \in skipped'
  OBVIOUS
<1> QED BY <1>1, <1>2, HostStill

\* Steps that give up nothing, whoever takes them.
LEMMA NothingGivenUp ==
  ASSUME WireTyped, Onward, MissInv, recorded \subseteq recorded', skipped \subseteq skipped',
         \A h \in Hosts :
           /\ wire'[h].handed = wire[h].handed /\ wire'[h].connected \in {wire[h].connected, FALSE}
           /\ wire'[h].gateway = wire[h].gateway /\ wire'[h].unread = wire[h].unread
           /\ wire'[h].from = wire[h].from /\ wire'[h].waiting = wire[h].waiting
           /\ work'[h].giving = work[h].giving
  PROVE  MissInv'
<1> SUFFICES ASSUME NEW h \in Hosts PROVE HearsAll(h)'
  BY DEF MissInv
<1>1. HearsAll(h) /\ \A s \in skipped : s[1] = h => s \in skipped'
  BY DEF MissInv
<1> QED BY <1>1, HostStill

\* A host that lost its wire hears nothing and missed nothing.
LEMMA DeafHearsAll ==
  ASSUME NEW h \in Hosts, wire'[h].handed = {}, wire'[h].connected = FALSE
  PROVE  HearsAll(h)'
BY DEF HearsAll

LEMMA UnreadAre ==
  ASSUME NEW h \in Hosts, NEW ns, NEW n \in Wire!Said, n \in ns, n \notin wire[h].handed
  PROVE  <<h, channel[n].of>> \in Wire!Unread(h, ns)
BY DEF Wire!Unread

LEMMA ConnectsHears ==
  ASSUME WireTyped, MissInv, NEW h \in Hosts, Wire!Connects(h) PROVE MissInv'
<1> DEFINE from == IF wire[h].unread THEN wire[h].from ELSE wire[h].after
           ns == IF from = Wire!Never THEN Wire!Ids ELSE 1..from
<1>1. /\ wire'[h].handed = wire[h].handed /\ wire'[h].waiting = wire[h].waiting
      /\ wire'[h].unread = (from # Wire!Never) /\ wire'[h].from = from
      /\ \A k \in Hosts : k # h => wire'[k] = wire[k]
      /\ skipped' = skipped \cup Wire!Unread(h, ns)
      /\ UNCHANGED <<channel, work, recorded>>
  BY TypesAre DEF Wire!Connects, WireTyped, Side
<1>2. from \in Nat
  BY SideIs
<1> HIDE DEF from
<1>3. Onward /\ HearsAll(h)
  BY <1>1 DEF Onward, MissInv
<1>4. ASSUME NEW n \in Wire!Said, Kept(h, n) PROVE Kept(h, n)'
  BY <1>1, <1>4 DEF Kept, Wire!IsHeard, Wire!InHand
<1>5. ASSUME NEW n \in Wire!Said, AsksOf(n)
      PROVE  /\ n \in wire'[h].handed => Kept(h, n)'
             /\ n \in wire'[h].handed \cup Wire!ToCome(h)' \/ Kept(h, n)'
  <2>1. n \in wire[h].handed => Kept(h, n)'
    BY <1>3, <1>4, <1>5 DEF HearsAll
  <2>2. CASE n \notin wire[h].handed
    <3>1. n \in Wire!Ids /\ n \in Nat /\ 1 <= n /\ n \in Wire!Said'
      BY <1>1, WireParts, IdsAre DEF Wire!Said, Wire!Ids
    <3>2. CASE n \in ns
      <4>1. <<h, channel[n].of>> \in skipped'
        BY <1>1, <2>2, <3>2, UnreadAre
      <4> QED BY <1>1, <2>2, <4>1 DEF Kept
    <3>3. CASE n \notin ns
      <4>1. from # Wire!Never /\ n > from
        BY <1>2, <3>1, <3>3
      <4> QED BY <1>1, <2>2, <3>1, <4>1 DEF Wire!ToCome
    <3> QED BY <3>2, <3>3
  <2> QED BY <1>1, <2>1, <2>2
<1>6. HearsAll(h)'
  <2>1. Wire!Said' = Wire!Said /\ \A n : AsksOf(n)' <=> AsksOf(n)
    BY <1>1 DEF Wire!Said, Wire!Ids, AsksOf
  <2> QED BY <1>5, <2>1 DEF HearsAll
<1> QED BY <1>1, <1>3, <1>6, OthersStill

LEMMA ArrivesHears ==
  ASSUME WireTyped, MissInv, NEW h \in Hosts, Wire!Arrives(h) PROVE MissInv'
<1> DEFINE l == wire[h].gateway + 1
           x == Wire!HandOver(wire[h], l)
           new == HandedNew(wire[h], l)
<1>1. l \in Wire!Ids
  BY SideIs, IdsAre DEF Wire!Arrives
<1>2. wire' = [wire EXCEPT ![h] = [x EXCEPT !.gateway = l]]
  BY DEF Wire!Arrives
<1> HIDE DEF l
<1>3. /\ x \in Side /\ x.handed = wire[h].handed \cup new
      /\ Wire!Range(x.waiting) = Wire!Range(wire[h].waiting) \cup new
      /\ x.connected = wire[h].connected /\ x.unread = wire[h].unread /\ x.from = wire[h].from
  BY <1>1, HandOverIs
<1> HIDE DEF x, new
<1>4. wire'[h] = [x EXCEPT !.gateway = l] /\ \A k \in Hosts : k # h => wire'[k] = wire[k]
  BY <1>2, TypesAre DEF WireTyped
<1>5. /\ wire'[h].handed = wire[h].handed \cup new
      /\ Wire!Range(wire'[h].waiting) = Wire!Range(wire[h].waiting) \cup new
      /\ wire'[h].connected = wire[h].connected /\ wire'[h].unread = wire[h].unread
      /\ wire'[h].from = wire[h].from /\ wire'[h].gateway = l
  BY <1>3, <1>4 DEF Side
<1>6. UNCHANGED <<channel, work, recorded, skipped>> /\ Onward /\ HearsAll(h)
  BY DEF Wire!Arrives, Onward, MissInv
<1>7. \A n \in Wire!Said : Kept(h, n) => Kept(h, n)'
  BY <1>5, <1>6 DEF Kept, Wire!IsHeard, Wire!InHand
<1>8. new \subseteq Wire!Said /\ \A n \in new : Kept(h, n)'
  BY <1>1, <1>5 DEF Kept, Wire!Said, new, HandedNew
<1>9. l = wire[h].gateway + 1 /\ wire[h].gateway \in Nat
  BY SideIs DEF l
<1>10. ASSUME NEW n \in Wire!Said, AsksOf(n)
       PROVE  /\ n \in wire'[h].handed => Kept(h, n)'
              /\ wire'[h].connected => n \in wire'[h].handed \cup Wire!ToCome(h)' \/ Kept(h, n)'
  <2>1. /\ n \in wire[h].handed => Kept(h, n)
        /\ wire[h].connected => n \in wire[h].handed \cup Wire!ToCome(h) \/ Kept(h, n)
    BY <1>6, <1>10 DEF HearsAll
  <2>2. n \in Wire!ToCome(h) => n \in Wire!ToCome(h)' \/ n = l
    <3>1. n \in Nat /\ n \in Wire!Said'
      BY <1>6, WireParts, IdsAre DEF Wire!Said, Wire!Ids
    <3> QED BY <1>5, <1>9, <3>1 DEF Wire!ToCome
  <2>3. n = l => n \in wire'[h].handed
    BY <1>5, <1>10 DEF Wire!Said, new, HandedNew
  <2> QED BY <1>5, <1>7, <1>8, <2>1, <2>2, <2>3
<1>11. HearsAll(h)'
  <2>1. Wire!Said' = Wire!Said /\ \A n : AsksOf(n)' <=> AsksOf(n)
    BY <1>6 DEF Wire!Said, Wire!Ids, AsksOf
  <2> QED BY <1>10, <2>1 DEF HearsAll
<1> QED BY <1>4, <1>6, <1>11, OthersStill

\* What this bot replied to is on record.
LEMMA RepliedIsHeard ==
  ASSUME WireTyped, AckInv, NEW n \in Wire!Said, AsksOf(n), Wire!Replies(channel[n].of) # {}
  PROVE  Wire!IsHeard(channel[n].of)
<1>1. PICK r \in Wire!Ids : channel[r].what = "reply" /\ channel[r].of = channel[n].of
  BY DEF Wire!Replies
<1>2. channel[r].number \in 0..MaxRaised
  BY <1>1, WireParts, EntriesAre
<1>3. Settled(<<channel[n].of, channel[r].number>>)
  BY <1>1 DEF AckInv, RepliesSettled, Acknowledges
<1>4. PICK k \in Wire!Said : /\ channel[k].of = channel[n].of
                             /\ channel[k].kind # "other" => <<channel[n].of, channel[r].number>> \in recorded
  BY <1>3 DEF Settled
<1>5. k = n
  BY <1>4 DEF WireTyped, SaidOnce
<1> QED BY <1>2, <1>4, <1>5 DEF AsksOf, Wire!IsHeard

LEMMA WaitedHears ==
  ASSUME WireTyped, AckInv, MissInv, NEW h \in Hosts, Wire!Waited(h) PROVE MissInv'
<1> DEFINE read == {n \in {k \in Wire!Said : Wire!Replies(channel[k].of) = {}} : n > wire[h].from}
           w == Wire!HandOverAll(wire[h], read)
<1>1. wire' = [wire EXCEPT ![h] = w] /\ read \in SUBSET Wire!Said
  BY DEF Wire!Waited
<1>2. \A n \in Wire!Said : n > wire[h].from => n \in read \/ Wire!Replies(channel[n].of) # {}
  OBVIOUS
<1> HIDE DEF read
<1>3. /\ w.handed = wire[h].handed \cup read
      /\ Wire!Range(w.waiting) = Wire!Range(wire[h].waiting) \cup (read \ wire[h].handed)
      /\ w.connected = wire[h].connected /\ w.gateway = wire[h].gateway
  BY <1>1, HandOverAllIs
<1> HIDE DEF w
<1>4. wire'[h] = w /\ \A k \in Hosts : k # h => wire'[k] = wire[k]
  BY <1>1, TypesAre DEF WireTyped
<1>5. UNCHANGED <<channel, work, recorded, skipped>> /\ Onward /\ HearsAll(h)
  BY DEF Wire!Waited, Onward, MissInv
<1>6. \A n \in Wire!Said : Kept(h, n) => Kept(h, n)'
  BY <1>3, <1>4, <1>5 DEF Kept, Wire!IsHeard, Wire!InHand
<1>7. \A n \in read \ wire[h].handed : Kept(h, n)'
  BY <1>3, <1>4 DEF Kept
<1>8. ASSUME NEW n \in Wire!Said, AsksOf(n)
      PROVE  /\ n \in wire'[h].handed => Kept(h, n)'
             /\ wire'[h].connected => n \in wire'[h].handed \cup Wire!ToCome(h)' \/ Kept(h, n)'
  <2>1. /\ n \in wire[h].handed => Kept(h, n)
        /\ wire[h].connected => n \in wire[h].handed \cup Wire!ToCome(h) \/ Kept(h, n)
    BY <1>5, <1>8 DEF HearsAll
  <2>2. n \in Wire!ToCome(h) => n \in Wire!ToCome(h)' \/ n \in read \/ Kept(h, n)'
    <3>1. n \in Wire!Said'
      BY <1>5 DEF Wire!Said, Wire!Ids
    <3>2. Wire!Replies(channel[n].of) # {} => Kept(h, n)'
      BY <1>6, <1>8, RepliedIsHeard DEF Kept
    <3> QED BY <1>2, <1>3, <1>4, <3>1, <3>2 DEF Wire!ToCome
  <2> QED BY <1>3, <1>4, <1>6, <1>7, <2>1, <2>2
<1>9. HearsAll(h)'
  <2>1. Wire!Said' = Wire!Said /\ \A n : AsksOf(n)' <=> AsksOf(n)
    BY <1>5 DEF Wire!Said, Wire!Ids, AsksOf
  <2> QED BY <1>8, <2>1 DEF HearsAll
<1> QED BY <1>4, <1>5, <1>9, OthersStill

LEMMA WaitedFailsHears ==
  ASSUME WireTyped, MissInv, NEW h \in Hosts, Wire!WaitedFails(h) PROVE MissInv'
<1> DEFINE ns == {n \in Wire!Ids : n > wire[h].from}
<1>1. /\ wire'[h].handed = wire[h].handed /\ wire'[h].waiting = wire[h].waiting
      /\ wire'[h].connected = wire[h].connected /\ wire'[h].gateway = wire[h].gateway
      /\ \A k \in Hosts : k # h => wire'[k] = wire[k]
      /\ skipped' = skipped \cup Wire!Unread(h, ns)
      /\ UNCHANGED <<channel, work, recorded>>
  BY TypesAre DEF Wire!WaitedFails, WireTyped, Side
<1>2. Onward /\ HearsAll(h)
  BY <1>1 DEF Onward, MissInv
<1>3. ASSUME NEW n \in Wire!Said, Kept(h, n) PROVE Kept(h, n)'
  BY <1>1, <1>3 DEF Kept, Wire!IsHeard, Wire!InHand
<1>4. ASSUME NEW n \in Wire!Said, AsksOf(n)
      PROVE  /\ n \in wire'[h].handed => Kept(h, n)'
             /\ wire'[h].connected => n \in wire'[h].handed \cup Wire!ToCome(h)' \/ Kept(h, n)'
  <2>1. /\ n \in wire[h].handed => Kept(h, n)
        /\ wire[h].connected => n \in wire[h].handed \cup Wire!ToCome(h) \/ Kept(h, n)
    BY <1>2, <1>4 DEF HearsAll
  <2>2. n \in Wire!ToCome(h) /\ n \notin wire[h].handed => n \in Wire!ToCome(h)' \/ Kept(h, n)'
    <3>1. n \in Wire!Ids /\ n \in Wire!Said'
      BY <1>1 DEF Wire!Said, Wire!Ids
    <3>2. n > wire[h].from /\ n \notin wire[h].handed => Kept(h, n)'
      BY <1>1, <3>1, UnreadAre DEF Kept
    <3> QED BY <1>1, <3>1, <3>2 DEF Wire!ToCome
  <2> QED BY <1>1, <1>3, <2>1, <2>2
<1>5. HearsAll(h)'
  <2>1. Wire!Said' = Wire!Said /\ \A n : AsksOf(n)' <=> AsksOf(n)
    BY <1>1 DEF Wire!Said, Wire!Ids, AsksOf
  <2> QED BY <1>4, <2>1 DEF HearsAll
<1> QED BY <1>1, <1>2, <1>5, OthersStill

\* What waits is let go of as skipped.
LEMMA LetsGoHears ==
  ASSUME WireTyped, MissInv, NEW h \in Hosts, Wire!LetsGo(h) PROVE MissInv'
<1>1. /\ wire'[h].handed = wire[h].handed /\ wire'[h].from = wire[h].from
      /\ wire'[h].connected = wire[h].connected /\ wire'[h].gateway = wire[h].gateway
      /\ wire'[h].unread = wire[h].unread
      /\ \A k \in Hosts : k # h => wire'[k] = wire[k]
      /\ skipped' = skipped \cup {<<h, channel[n].of>> : n \in Wire!Range(wire[h].waiting)}
      /\ UNCHANGED <<channel, work, recorded>>
  BY TypesAre DEF Wire!LetsGo, WireTyped, Side
<1>2. Onward /\ HearsAll(h)
  BY <1>1 DEF Onward, MissInv
<1>3. \A n \in Wire!Said : Kept(h, n) => Kept(h, n)'
  BY <1>1 DEF Kept, Wire!IsHeard, Wire!InHand
<1>4. HearsAll(h)'
  BY <1>1, <1>2, <1>3, KeepsOn
<1> QED BY <1>1, <1>2, <1>4, OthersStill

\* What waits is taken in hand.
LEMMA HearsHears ==
  ASSUME Wire!ChatAssumption, WireTyped, MissInv, NEW h \in Hosts, Wire!Hears(h) PROVE MissInv'
<1>1. /\ wire'[h].handed = wire[h].handed /\ wire'[h].from = wire[h].from
      /\ wire'[h].connected = wire[h].connected /\ wire'[h].gateway = wire[h].gateway
      /\ wire'[h].unread = wire[h].unread
      /\ \A k \in Hosts : k # h => wire'[k] = wire[k]
      /\ UNCHANGED <<channel, recorded, skipped>>
  BY TypesAre DEF Wire!Hears, WireTyped, Side
<1>2. Onward /\ HearsAll(h)
  BY <1>1 DEF Onward, MissInv
<1>3. work'[h].giving = Taken(h) /\ \A k \in Hosts : k # h => work'[k] = work[k]
  BY HearsIs
<1>4. Wire!InHand(h) = {}
  <2>1. Fits(work[h]) /\ work[h].in = "idle"
    BY DEF WireTyped, Wire!Hears
  <2>2. work[h].giving = <<>>
    BY <2>1 DEF Fits
  <2> QED BY <2>2 DEF Wire!InHand, Wire!Range
<1>5. ASSUME NEW n \in Wire!Said, AsksOf(n), n \in Wire!Range(wire[h].waiting) PROVE Kept(h, n)'
  <2>1. Wire!Range(Wire!Asked(n)) \subseteq Wire!Range(Taken(h)) /\ Wire!Range(Wire!Asked(n)) # {}
        /\ \A g \in Wire!Range(Wire!Asked(n)) : g[1] = channel[n].of
    BY <1>5, AskedIs, TakenIs DEF AsksOf
  <2>2. PICK g \in Wire!Range(Taken(h)) : g[1] = channel[n].of
    BY <2>1
  <2>3. channel[n].of \in {g2[1] : g2 \in Wire!Range(Taken(h))}
    BY <2>2
  <2> QED BY <1>1, <1>3, <2>3 DEF Kept, Wire!InHand
<1>6. ASSUME NEW n \in Wire!Said, AsksOf(n), Kept(h, n) PROVE Kept(h, n)'
  BY <1>1, <1>4, <1>5, <1>6 DEF Kept, Wire!IsHeard
<1>7. HearsAll(h)'
  <2>1. Wire!Said' = Wire!Said /\ \A n : AsksOf(n)' <=> AsksOf(n)
    BY <1>1 DEF Wire!Said, Wire!Ids, AsksOf
  <2>2. wire'[h].connected => Wire!ToCome(h)' = Wire!ToCome(h)
    BY <1>1, <2>1 DEF Wire!ToCome
  <2> QED BY <1>1, <1>2, <1>6, <2>1, <2>2 DEF HearsAll
<1> QED BY <1>1, <1>2, <1>3, <1>7, OthersStill

\* What a host gives up of what it has in hand is on record.
LEMMA GivesUpHeard ==
  ASSUME WireTyped, MissInv, NEW h \in Hosts, Onward, Wire!Said' = Wire!Said, recorded \subseteq recorded',
         UNCHANGED <<wire, skipped>>, \A k \in Hosts : k # h => work'[k] = work[k],
         \A n \in Wire!Said : AsksOf(n) /\ channel[n].of \in Wire!InHand(h) =>
           channel[n].of \in Wire!InHand(h)' \/ Wire!IsHeard(channel[n].of)'
  PROVE  MissInv'
<1>1. ASSUME NEW n \in Wire!Said PROVE channel'[n] = channel[n] /\ (AsksOf(n)' <=> AsksOf(n))
  BY WireParts, OnwardIs, IdsAre DEF AsksOf
<1>2. \A m : Wire!IsHeard(m) => Wire!IsHeard(m)'
  BY DEF Wire!IsHeard
<1>3. ASSUME NEW n \in Wire!Said, AsksOf(n), Kept(h, n) PROVE Kept(h, n)'
  BY <1>1, <1>2, <1>3 DEF Kept, Wire!IsHeard
<1>4. HearsAll(h)'
  <2>1. Wire!ToCome(h)' = Wire!ToCome(h)
    BY DEF Wire!ToCome
  <2>2. HearsAll(h)
    BY DEF MissInv
  <2> QED BY <1>1, <1>3, <2>1, <2>2 DEF HearsAll
<1> QED BY <1>4, OthersStill

\* What is settled is on record, unless the sink accepts no such message.
LEMMA SettledIsHeard ==
  ASSUME WireTyped, NEW n \in Wire!Said, AsksOf(n), NEW g \in Giveable, Settled(g), g[1] = channel[n].of
  PROVE  Wire!IsHeard(channel[n].of)
<1>1. PICK k \in Wire!Said : channel[k].of = g[1] /\ (channel[k].kind # "other" => g \in recorded)
  BY DEF Settled
<1>2. k = n
  BY <1>1 DEF WireTyped, SaidOnce
<1>3. g \in recorded /\ g = <<channel[n].of, g[2]>> /\ g[2] \in 0..MaxRaised
  BY <1>1, <1>2 DEF AsksOf, Giveable
<1> QED BY <1>3 DEF Wire!IsHeard

LEMMA RecordsHears ==
  ASSUME WireTyped, MissInv, NEW h \in Hosts, Wire!Records(h) PROVE MissInv'
<1>1. /\ UNCHANGED <<channel, wire, skipped>> /\ Onward
      /\ Wire!Said' = Wire!Said /\ recorded \subseteq recorded'
      /\ \A k \in Hosts : k # h => work'[k] = work[k]
  BY RecordsIs DEF Wire!Records, Onward, Wire!Said, Wire!Ids
<1>2. PICK g \in Giveable : g = Wire!Given(h)
  BY RecordsIs
<1>3. ASSUME NEW n \in Wire!Said, AsksOf(n), g[1] = channel[n].of PROVE Wire!IsHeard(channel[n].of)'
  <2>1. Wire!KindOf(g[1]) = channel[n].kind
    BY <1>3, KindIs DEF WireTyped
  <2>2. g \in recorded'
    BY <1>2, <1>3, <2>1, RecordsIs DEF AsksOf
  <2>3. g = <<g[1], g[2]>> /\ g[2] \in 0..MaxRaised
    BY DEF Giveable
  <2>4. \E d \in 0..MaxRaised : <<g[1], d>> \in recorded'
    BY <2>2, <2>3
  <2> QED BY <1>1, <1>3, <2>4 DEF Wire!IsHeard
<1>4. Wire!Range(work[h].giving) = {g} \cup Wire!Range(Tail(work[h].giving))
  BY <1>2, GivenIs, RecordsIs
<1>5. work'[h].giving \in {work[h].giving, Tail(work[h].giving)}
  BY RecordsIs
<1>6. \A m \in Wire!InHand(h) : m \in Wire!InHand(h)' \/ m = g[1]
  BY <1>4, <1>5 DEF Wire!InHand
<1> QED BY <1>1, <1>3, <1>6, GivesUpHeard

LEMMA RepliesToHears ==
  ASSUME WireTyped, AckInv, MissInv, NEW h \in Hosts, Wire!RepliesTo(h) PROVE MissInv'
<1>1. /\ UNCHANGED <<wire, skipped, recorded>> /\ Onward /\ Wire!Said' = Wire!Said
      /\ \A k \in Hosts : k # h => work'[k] = work[k]
      /\ work'[h].giving = Tail(work[h].giving) /\ work[h].in = "replying"
  BY RepliesIs DEF Wire!RepliesTo
<1>2. PICK g \in Giveable : g = Wire!Given(h)
  BY <1>1, GivenIs
<1>3. Settled(g)
  BY <1>1, <1>2 DEF AckInv, RepliesAlone, IsReplying
<1>4. ASSUME NEW n \in Wire!Said, AsksOf(n), g[1] = channel[n].of PROVE Wire!IsHeard(channel[n].of)'
  <2>1. Wire!IsHeard(channel[n].of)
    BY <1>3, <1>4, SettledIsHeard
  <2>2. channel'[n] = channel[n]
    BY <1>1, WireParts, OnwardIs, IdsAre
  <2> QED BY <1>1, <2>1, <2>2 DEF Wire!IsHeard
<1>5. Wire!Range(work[h].giving) = {g} \cup Wire!Range(Tail(work[h].giving))
  BY <1>1, <1>2, GivenIs
<1>6. \A m \in Wire!InHand(h) : m \in Wire!InHand(h)' \/ m = g[1]
  BY <1>1, <1>5 DEF Wire!InHand
<1>7. \A n \in Wire!Said : AsksOf(n) /\ channel[n].of \in Wire!InHand(h) =>
        channel[n].of \in Wire!InHand(h)' \/ Wire!IsHeard(channel[n].of)'
  BY <1>4, <1>6
<1> QED BY <1>1, <1>7, GivesUpHeard

LEMMA ReplyFailsHears ==
  ASSUME WireTyped, AckInv, MissInv, NEW h \in Hosts, Wire!ReplyFails(h) PROVE MissInv'
<1>1. /\ UNCHANGED <<channel, wire, skipped, recorded>> /\ Onward /\ Wire!Said' = Wire!Said
      /\ \A k \in Hosts : k # h => work'[k] = work[k]
      /\ work[h].in = "replying"
  BY ReplyFailsIs DEF Wire!ReplyFails, Onward, Wire!Said, Wire!Ids
<1>2. PICK g \in Giveable : g = Wire!Given(h)
  BY <1>1, GivenIs
<1>3. Settled(g)
  BY <1>1, <1>2 DEF AckInv, RepliesAlone, IsReplying
<1>4. ASSUME NEW n \in Wire!Said, AsksOf(n), g[1] = channel[n].of PROVE Wire!IsHeard(channel[n].of)'
  <2>1. Wire!IsHeard(channel[n].of)
    BY <1>3, <1>4, SettledIsHeard
  <2> QED BY <1>1, <2>1 DEF Wire!IsHeard
<1>5. \A x \in Wire!Range(work[h].giving) : x \in Wire!Range(work'[h].giving) \/ x[1] = g[1]
  BY <1>2, ReplyFailsIs
<1>6. \A m \in Wire!InHand(h) : m \in Wire!InHand(h)' \/ m = g[1]
  BY <1>5 DEF Wire!InHand
<1>7. \A n \in Wire!Said : AsksOf(n) /\ channel[n].of \in Wire!InHand(h) =>
        channel[n].of \in Wire!InHand(h)' \/ Wire!IsHeard(channel[n].of)'
  BY <1>4, <1>6
<1> QED BY <1>1, <1>7, GivesUpHeard

\* A host that starts or stops has nothing from the wire and is not connected.
LEMMA RestartsHears ==
  ASSUME WireTyped, MissInv, NEW h \in Hosts, Wire!Starts(h) \/ Wire!Stops(h) PROVE MissInv'
<1>1. /\ UNCHANGED <<channel, recorded>> /\ Onward
      /\ wire'[h].handed = {} /\ wire'[h].connected = FALSE
      /\ \A k \in Hosts : k # h => wire'[k] = wire[k] /\ work'[k] = work[k]
      /\ \A s \in skipped : s[1] # h => s \in skipped'
  <2>1. wire \in [Hosts -> Side] /\ work \in [Hosts -> Holding]
    BY TypesAre DEF WireTyped
  <2>2. CASE Wire!Starts(h)
    <3>1. /\ wire' = [wire EXCEPT ![h] = [Wire!Deaf EXCEPT !.up = TRUE, !.after = mark.delivery]]
          /\ UNCHANGED <<channel, recorded, work, skipped>>
      BY <2>2 DEF Wire!Starts
    <3> QED BY <2>1, <3>1 DEF Wire!Deaf, Onward
  <2>3. CASE Wire!Stops(h)
    <3>1. /\ wire' = [wire EXCEPT ![h] = Wire!Deaf] /\ work' = [work EXCEPT ![h] = Wire!Idle]
          /\ skipped' = {s \in skipped : s[1] # h} /\ UNCHANGED <<channel, recorded>>
      BY <2>3 DEF Wire!Stops
    <3> QED BY <2>1, <3>1 DEF Wire!Deaf, Onward
  <2> QED BY <2>2, <2>3
<1>2. HearsAll(h)'
  BY <1>1, DeafHearsAll
<1> QED BY <1>1, <1>2, OthersStill

\* The presenter's hand is empty while it marks.
LEMMA MarksHears ==
  ASSUME WireTyped, MissInv, NEW h \in Hosts, Wire!Marks(h) PROVE MissInv'
<1>1. UNCHANGED <<channel, wire, recorded, skipped>> /\ Onward
  BY DEF Wire!Marks, Onward
<1>2. work' = [work EXCEPT ![h] = Wire!Idle] /\ work[h].giving = <<>>
  BY WireParts DEF Wire!Marks, WireTyped, Fits
<1>3. \A k \in Hosts : work'[k].giving = work[k].giving
  BY <1>2, WireParts DEF Wire!Idle
<1> QED BY <1>1, <1>3, NothingGivenUp

LEMMA DeliversHears ==
  ASSUME Wire!ChatAssumption, WireTyped, MissInv, NEW h \in Hosts, Wire!Delivers(h) PROVE MissInv'
<1>1. Onward /\ UNCHANGED <<recorded, skipped>>
  BY DeliversIs DEF Wire!Delivers
<1>2. ASSUME NEW k \in Hosts
      PROVE  /\ wire'[k].handed = wire[k].handed /\ wire'[k].connected = wire[k].connected
             /\ wire'[k].gateway = wire[k].gateway /\ wire'[k].unread = wire[k].unread
             /\ wire'[k].from = wire[k].from /\ wire'[k].waiting = wire[k].waiting
  BY TypesAre DEF Wire!Delivers, WireTyped, Side
<1>3. \A k \in Hosts : work'[k].giving = work[k].giving
  BY WireParts DEF Wire!Delivers, Holding
<1> QED BY <1>1, <1>2, <1>3, NothingGivenUp

LEMMA DisconnectsHears ==
  ASSUME WireTyped, MissInv, NEW h \in Hosts, Wire!Disconnects(h) PROVE MissInv'
<1>1. Onward /\ UNCHANGED <<recorded, skipped, work>>
  BY DEF Wire!Disconnects, Onward
<1>2. ASSUME NEW k \in Hosts
      PROVE  /\ wire'[k].handed = wire[k].handed /\ wire'[k].connected \in {wire[k].connected, FALSE}
             /\ wire'[k].gateway = wire[k].gateway /\ wire'[k].unread = wire[k].unread
             /\ wire'[k].from = wire[k].from /\ wire'[k].waiting = wire[k].waiting
  BY TypesAre DEF Wire!Disconnects, WireTyped, Side
<1> QED BY <1>1, <1>2, NothingGivenUp

\* Steps that leave the wire, the hands and what is skipped alone.
LEMMA WiresAloneHears ==
  ASSUME WireTyped, MissInv, Onward, recorded \subseteq recorded', UNCHANGED <<wire, work, skipped>>
  PROVE  MissInv'
BY NothingGivenUp

LEMMA MissStep ==
  ASSUME Wire!ChatAssumption, WireTyped, AckInv, MissInv, [Wire!Next]_(Wire!vars) PROVE MissInv'
<1>1. CASE \E h \in Hosts : Wire!Wires(h)
  BY <1>1, RestartsHears, ConnectsHears, ArrivesHears, WaitedHears DEF Wire!Wires
<1>2. ASSUME NEW h \in Hosts, Wire!TakesPresenter(h) \/ Wire!Applies(h) \/ Wire!DeliveryFails(h) PROVE MissInv'
  <2>1. Onward /\ recorded \subseteq recorded' /\ UNCHANGED <<wire, work, skipped>>
    BY <1>2 DEF Wire!TakesPresenter, Wire!Applies, Wire!DeliveryFails, Onward, Wire!Entry
  <2> QED BY <2>1, WiresAloneHears
<1>3. CASE \E h \in Hosts : Wire!Turns(h)
  BY <1>2, <1>3, LetsGoHears, HearsHears, RecordsHears, RepliesToHears, DeliversHears, MarksHears
  DEF Wire!Turns
<1>4. CASE \E h \in Hosts : Wire!Faulty(h)
  BY <1>2, <1>4, DisconnectsHears, RestartsHears, WaitedFailsHears, ReplyFailsHears DEF Wire!Faulty
<1>5. CASE Wire!Raises \/ Wire!TurnsOver \/ UNCHANGED Wire!vars
  BY <1>5, WiresAloneHears DEF Wire!Raises, Wire!TurnsOver, Wire!vars, Onward
<1>6. ASSUME NEW m \in Messages, Wire!Says(m) PROVE MissInv'
  BY <1>6, SaysIs, WiresAloneHears DEF Wire!Says
<1> QED BY <1>1, <1>3, <1>4, <1>5, <1>6 DEF Wire!Next

LEMMA MissInit == ASSUME Wire!Init PROVE MissInv
BY DEF Wire!Init, MissInv, HearsAll, Wire!Said, Wire!Ids

\* No answer or forward falls between a connection and the history read beside it,
\* between the wire and the turn, or between two presenters: a host that is
\* connected has it to come, waiting or in hand, or it is recorded, or this run of
\* the host skipped it (discord.rs ready, waited; Host::hear).
THEOREM NothingFallsThrough == Wire!ChatAssumption => (Wire!Spec => []Wire!NothingMissed)
<1> SUFFICES ASSUME Wire!ChatAssumption PROVE Wire!Spec => []Wire!NothingMissed
  OBVIOUS
<1>1. Wire!Init => WireTyped /\ AckInv /\ MissInv
  BY WireTypedInit, AckInit, MissInit
<1>2. WireTyped /\ AckInv /\ MissInv /\ [Wire!Next]_(Wire!vars) => (WireTyped /\ AckInv /\ MissInv)'
  BY WireTypedStep, AckStep, MissStep
<1>3. MissInv => Wire!NothingMissed
  BY MissInvIs
<1> QED BY <1>1, <1>2, <1>3, PTL DEF Wire!Spec
=============================================================================
