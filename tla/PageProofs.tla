----------------------------- MODULE PageProofs -----------------------------
(***************************************************************************)
(* What holds of Page for every set of calls and tools, however many       *)
(* decisions are raised and however often the host stops, a call is sent   *)
(* again or a file is not written, read or removed.                        *)
(***************************************************************************)
EXTENDS Page, FiniteSetTheorems, TLAPS

-----------------------------------------------------------------------------
(* Numbers in order *)

LEMMA LeastNumber ==
  ASSUME NEW S, S \subseteq Nat, S # {}
  PROVE  \E x \in S : \A y \in S : x <= y
<1>1. PICK x \in S : \A y \in S : ~ (<<y, x>> \in OpToRel(<, Nat))
  BY NatLessThanWellFounded, WFMin
<1>2. \A y \in S : x <= y
  <2> TAKE y \in S
  <2>1. ~ (y < x)
    BY <1>1 DEF OpToRel
  <2> QED BY <2>1
<1> QED BY <1>2

\* The numbers can be listed in order.
InOrder(f, n) == \A i, j \in 1..n : i < j => f[i] < f[j]
Listable(S) == \E f \in [1..Cardinality(S) -> S] : InOrder(f, Cardinality(S))

\* With its least number put before the others in order, a set is in order.
LEMMA LeastFirst ==
  ASSUME NEW T, IsFiniteSet(T), T \subseteq Nat, NEW m \in T, \A y \in T : m <= y,
         Listable(T \ {m})
  PROVE  Listable(T)
<1> DEFINE n == Cardinality(T \ {m})
           U == T \ {m}
<1>1. Cardinality(T) = n + 1 /\ n \in Nat
  <2>1. IsFiniteSet(T \ {m}) /\ Cardinality(T \ {m}) = Cardinality(T) - 1
    BY FS_RemoveElement
  <2> QED BY <2>1, FS_CardinalityType
<1>2. PICK f \in [1..n -> U] : InOrder(f, n)
  BY DEF Listable
<1> HIDE DEF n
<1> DEFINE g == [i \in 1..(n + 1) |-> IF i = 1 THEN m ELSE f[i - 1]]
<1>3. \A i \in 1..(n + 1) : i # 1 => i - 1 \in 1..n
  BY <1>1
<1>4. g \in [1..(n + 1) -> T]
  BY <1>2, <1>3
<1>5. InOrder(g, n + 1)
  <2> SUFFICES ASSUME NEW i \in 1..(n + 1), NEW j \in 1..(n + 1), i < j
               PROVE  g[i] < g[j]
    BY DEF InOrder
  <2>1. j # 1 /\ j - 1 \in 1..n /\ g[j] = f[j - 1] /\ f[j - 1] \in U
    BY <1>1, <1>2, <1>3
  <2>2. CASE i = 1
    <3>1. g[i] = m /\ m <= f[j - 1] /\ m # f[j - 1] /\ f[j - 1] \in Nat /\ m \in Nat
      BY <2>1, <2>2
    <3> HIDE DEF g
    <3> QED BY <2>1, <3>1
  <2>3. CASE i # 1
    <3>1. i - 1 \in 1..n /\ i - 1 < j - 1 /\ g[i] = f[i - 1]
      BY <1>1, <1>3, <2>3
    <3> QED BY <1>2, <2>1, <3>1 DEF InOrder
  <2> QED BY <2>2, <2>3
<1> QED BY <1>1, <1>4, <1>5 DEF Listable

\* Any finite set of numbers can be: the least number of a set that could not
\* would leave a smaller one.
LEMMA NumbersAreListed ==
  ASSUME NEW S, IsFiniteSet(S), S \subseteq Nat
  PROVE  Ascending(S) \in [1..Cardinality(S) -> S]
<1> DEFINE Bad == {n \in Nat : \E T \in SUBSET S : Cardinality(T) = n /\ ~ Listable(T)}
<1>1. Bad = {}
  <2> SUFFICES ASSUME Bad # {} PROVE FALSE
    OBVIOUS
  <2>1. PICK n \in Bad : \A k \in Bad : n <= k
    <3> HIDE DEF Bad
    <3>1. Bad \subseteq Nat
      BY DEF Bad
    <3> QED BY <3>1, LeastNumber
  <2>2. PICK T \in SUBSET S : Cardinality(T) = n /\ ~ Listable(T)
    BY <2>1
  <2>3. IsFiniteSet(T) /\ T \subseteq Nat
    BY FS_Subset
  <2>4. T # {}
    <3> SUFFICES ASSUME T = {} PROVE FALSE
      OBVIOUS
    <3>1. Cardinality(T) = 0 /\ 1..0 = {}
      BY FS_EmptySet
    <3>2. [i \in 1..0 |-> i] \in [1..0 -> T]
      BY <3>1
    <3>3. InOrder([i \in 1..0 |-> i], 0)
      BY <3>1 DEF InOrder
    <3> QED BY <2>2, <3>1, <3>2, <3>3 DEF Listable
  <2>5. PICK m \in T : \A y \in T : m <= y
    BY <2>3, <2>4, LeastNumber
  <2>6. IsFiniteSet(T \ {m}) /\ Cardinality(T \ {m}) = n - 1
    BY <2>2, <2>3, FS_RemoveElement
  <2>7. n - 1 \in Nat /\ n \in Nat
    BY <2>1, <2>6, FS_CardinalityType
  <2>8. n - 1 \notin Bad
    <3>1. ~ (n <= n - 1)
      BY <2>7
    <3> HIDE DEF Bad
    <3> QED BY <2>1, <3>1
  <2>9. Listable(T \ {m})
    BY <2>6, <2>7, <2>8
  <2> QED BY <2>2, <2>3, <2>5, <2>9, LeastFirst
<1>2. Cardinality(S) \in Nat
  BY FS_CardinalityType
<1>3. Listable(S)
  BY <1>1, <1>2
<1> QED BY <1>3 DEF Listable, InOrder, Ascending

-----------------------------------------------------------------------------
(* What is kept *)

\* What a call asks for, once it was sent, and that one not sent wrote nothing.
Asked ==
  \A c \in Calls :
    /\ sent[c] = Unsent => reply[c] = "none" /\ Given(c) = {}
    /\ sent[c] # Unsent =>
         /\ sent[c].tool \in AllTools /\ sent[c].from \in {"page", "client"}
         /\ sent[c].tool = "answer" => \E n \in Numbers : sent[c].names = {n}

\* A file is of a call of a client, or of one whose caller was told it is kept.
FileOf(c) == sent[c].from = "client" \/ reply[c] = "kept"
Files ==
  /\ Len(listed) <= Len(kept)
  /\ \A k \in DOMAIN kept : FileOf(kept[k])
  /\ \A k \in DOMAIN listed : FileOf(listed[k])

\* The writes left of a call: one response to receive at most, whose recording
\* follows; or of a yes all, each of a number it named.
Receives(todo) == {k \in DOMAIN todo : todo[k].do = "receive"}
ScriptOf(ask, todo) ==
  /\ todo \in Seq(Write)
  /\ ask.tool # "all" =>
       \A j \in Receives(todo) :
         j + 1 \in DOMAIN todo /\ \A k \in Receives(todo) : j = k
  /\ ask.tool = "all" => \A k \in DOMAIN todo : todo[k].of \in ask.names

\* The call being made, by whom, and the writes it has left.
InHand ==
  /\ doing # Nothing =>
       /\ doing.call \in Calls /\ sent[doing.call] # Unsent
       /\ ScriptOf(sent[doing.call], doing.todo)
       /\ store \in {"request", "turn"}
       /\ store = "turn" => listed # <<>> /\ doing.call = Head(listed)
  /\ store = "request" => doing.call \in Calls /\ reply[doing.call] = "waiting"
  /\ Passing => latest # NoRead

\* A call that waits and is not being made wrote nothing, where its caller
\* cannot send it again; and a call that still has its response to receive
\* has none, or has its delivery to find it by.
Once ==
  /\ \A c \in Calls : sent[c].tool # "all" => Given(c) = {} \/ \E r \in line.responses : Given(c) = {r}
  /\ \A c \in Calls :
       reply[c] = "waiting" /\ sent[c].from = "page" /\ ~ (store = "request" /\ doing.call = c)
         => Given(c) = {}
  /\ doing # Nothing /\ sent[doing.call].tool # "all" /\ Receives(doing.todo) # {}
       => Given(doing.call) = {} \/ HasDelivery(doing.call)

\* The inductive invariant.  That a call is recorded once is not inductive: it
\* takes that a call kept stays named as kept, so that it is made each time
\* under the delivery of the first, and that a page's own request which was
\* not kept is made in one go, which a stop ends for good.
PageInv ==
  /\ TypeOK /\ IsFiniteSet(line.responses) /\ IsFiniteSet(line.made)
  /\ Asked /\ Files /\ InHand /\ Once /\ YesToWhatWasNamed

-----------------------------------------------------------------------------
(* The writes of a call *)

LEMMA ShortTodo ==
  ASSUME NEW a, NEW b, NEW c
  PROVE  <<a>> \o <<b, c>> = <<a, b, c>> /\ <<a, b>> \o <<c>> = <<a, b, c>>
<1> DEFINE S == {a, b, c}
<1>1. <<a>> \in Seq(S) /\ <<b, c>> \in Seq(S) /\ <<a, b>> \in Seq(S) /\ <<c>> \in Seq(S)
  OBVIOUS
<1>2. /\ <<a>> \o <<b, c>> = [i \in 1..3 |-> IF i = 1 THEN a ELSE IF i = 2 THEN b ELSE c]
      /\ <<a, b>> \o <<c>> = [i \in 1..3 |-> IF i = 1 THEN a ELSE IF i = 2 THEN b ELSE c]
  BY <1>1
<1>3. <<a, b, c>> = [i \in 1..3 |-> IF i = 1 THEN a ELSE IF i = 2 THEN b ELSE c]
  OBVIOUS
<1> QED BY <1>2, <1>3

LEMMA StepFields ==
  ASSUME NEW do \in {"receive", "record", "make", "move"}, NEW n \in Numbers \cup {0}
  PROVE  Step(do, n) \in Write /\ Step(do, n).do = do /\ Step(do, n).of = n
BY DEF Step, Write

\* A response is received and then recorded, and something may come before or
\* after the two.
LEMMA PairIsScript ==
  ASSUME NEW ask, ask.tool # "all", NEW r \in Write, r.do = "receive",
         NEW d \in Write, d.do # "receive"
  PROVE  ScriptOf(ask, <<r, d>>)
BY DEF ScriptOf, Receives

LEMMA TripleIsScript ==
  ASSUME NEW ask, ask.tool # "all", NEW x \in Write, x.do # "receive",
         NEW r \in Write, r.do = "receive", NEW d \in Write, d.do # "receive"
  PROVE  ScriptOf(ask, <<x, r, d>>) /\ ScriptOf(ask, <<r, d, x>>)
<1>1. <<x, r, d>> \in Seq(Write) /\ <<r, d, x>> \in Seq(Write)
  OBVIOUS
<1>2. Receives(<<x, r, d>>) = {2} /\ DOMAIN <<x, r, d>> = {1, 2, 3}
  BY DEF Receives
<1>3. Receives(<<r, d, x>>) = {1} /\ DOMAIN <<r, d, x>> = {1, 2, 3}
  BY DEF Receives
<1> QED BY <1>1, <1>2, <1>3 DEF ScriptOf

LEMMA NoScript == \A ask : ScriptOf(ask, <<>>)
BY DEF ScriptOf, Receives

\* A yes all records one after the other numbers it named.
LEMMA YesAllScript ==
  ASSUME TypeOK, NEW c \in Calls, sent[c].tool = "all"
  PROVE  ScriptOf(sent[c], YesAllWrites(c))
<1> DEFINE S == YesAllAnswers(c)
           n == Cardinality(S)
           answers == Ascending(S)
<1>1. S \subseteq Numbers /\ S \subseteq sent[c].names
  BY DEF YesAllAnswers, TypeOK, Ask
<1>2. IsFiniteSet(S) /\ S \subseteq Nat
  <2>1. IsFiniteSet(Numbers)
    BY PageAssumption, FS_Interval DEF Numbers
  <2>2. S \in SUBSET Numbers
    BY <1>1
  <2>3. Numbers \subseteq Nat
    BY DEF Numbers
  <2> QED BY <1>1, <2>1, <2>2, <2>3, FS_Subset
<1>3. n \in Nat /\ answers \in [1..n -> S]
  BY <1>2, NumbersAreListed, FS_CardinalityType
<1>4. YesAllWrites(c) = [k \in 1..(2 * n) |-> Records(answers[(k + 1) \div 2])[2 - (k % 2)]]
  BY DEF YesAllWrites
<1> HIDE DEF S, n, answers
<1>5. ASSUME NEW k \in 1..(2 * n)
      PROVE  /\ Records(answers[(k + 1) \div 2])[2 - (k % 2)] \in Write
             /\ Records(answers[(k + 1) \div 2])[2 - (k % 2)].of \in S
  <2>1. (k + 1) \div 2 \in 1..n /\ 2 - (k % 2) \in {1, 2}
    BY <1>3
  <2>2. answers[(k + 1) \div 2] \in S
    BY <1>3, <2>1
  <2>3. \A a \in S : \A j \in {1, 2} : Records(a)[j] \in Write /\ Records(a)[j].of = a
    BY <1>1, StepFields DEF Records
  <2> QED BY <2>1, <2>2, <2>3
<1>6. YesAllWrites(c) \in [1..(2 * n) -> Write] /\ 2 * n \in Nat
  BY <1>3, <1>4, <1>5
<1>7. YesAllWrites(c) \in Seq(Write) /\ DOMAIN YesAllWrites(c) = 1..(2 * n)
  BY <1>6
<1>8. \A k \in 1..(2 * n) : YesAllWrites(c)[k].of \in sent[c].names
  BY <1>1, <1>4, <1>5
<1> QED BY <1>7, <1>8 DEF ScriptOf

LEMMA WritesScript ==
  ASSUME TypeOK, Asked, NEW c \in Calls, sent[c] # Unsent
  PROVE  ScriptOf(sent[c], Writes(c))
<1>1. sent[c].tool \in AllTools
  BY DEF Asked
<1>2. /\ \A do \in {"receive", "record", "make", "move"} :
           Step(do, 0) \in Write /\ Step(do, 0).do = do
  BY StepFields
<1>3. CASE sent[c].tool = "answer"
  <2>1. PICK n \in Numbers : sent[c].names = {n}
    BY <1>3 DEF Asked, Unsent
  <2>2. Min(sent[c].names) = n
    BY <2>1 DEF Min, Numbers
  <2>3. Writes(c) = <<Step("receive", n), Step("record", n)>>
    BY <1>3, <2>2 DEF Writes, Records
  <2> QED BY <1>3, <2>3, StepFields, PairIsScript
<1>4. CASE sent[c].tool = "all"
  BY <1>4, YesAllScript DEF Writes
<1>5. CASE sent[c].tool = "open"
  <2>1. Writes(c) = <<Step("make", 0), Step("receive", 0), Step("record", 0)>>
    BY <1>5, ShortTodo DEF Writes, OpenSessionWrites, Records
  <2> QED BY <1>2, <1>5, <2>1, TripleIsScript
<1>6. CASE sent[c].tool = "ask"
  <2>1. Writes(c) = <<Step("receive", 0), Step("record", 0), Step("make", 0)>>
    BY <1>6, ShortTodo DEF Writes, AskWrites, Records
  <2> QED BY <1>2, <1>6, <2>1, TripleIsScript
<1>7. CASE sent[c].tool = "capture"
  <2>1. Writes(c) \in {<<>>, <<Step("make", 0), Step("receive", 0), Step("record", 0)>>}
    BY <1>7, ShortTodo DEF Writes, CaptureWrites, Records
  <2> QED BY <1>2, <1>7, <2>1, TripleIsScript, NoScript
<1>8. CASE sent[c].tool = "hand"
  <2>1. Writes(c) \in {<<>>, <<Step("receive", 0), Step("record", 0), Step("move", 0)>>}
    BY <1>8, ShortTodo DEF Writes, HandWrites, Records
  <2> QED BY <1>2, <1>8, <2>1, TripleIsScript, NoScript
<1> QED BY <1>1, <1>3, <1>4, <1>5, <1>6, <1>7, <1>8 DEF AllTools

\* The writes that are left once one is made, or once a response proves to be
\* received already.
LEMMA TailScript ==
  ASSUME NEW ask, NEW todo, ScriptOf(ask, todo), todo # <<>>
  PROVE  /\ ScriptOf(ask, Tail(todo)) /\ Head(todo) \in Write
         /\ \A k \in DOMAIN Tail(todo) : k + 1 \in DOMAIN todo /\ Tail(todo)[k] = todo[k + 1]
         /\ ask.tool # "all" /\ Head(todo).do = "receive" =>
              Tail(todo) # <<>> /\ Receives(Tail(todo)) = {}
         /\ Receives(Tail(todo)) # {} => Receives(todo) # {}
<1>1. /\ todo \in Seq(Write) /\ Tail(todo) \in Seq(Write) /\ Head(todo) = todo[1]
      /\ Len(Tail(todo)) = Len(todo) - 1 /\ Len(todo) \in Nat \ {0}
      /\ DOMAIN todo = 1..Len(todo) /\ DOMAIN Tail(todo) = 1..Len(Tail(todo))
  BY DEF ScriptOf
<1>2. 1 \in DOMAIN todo /\ Head(todo) \in Write
  BY <1>1
<1>3. \A k \in DOMAIN Tail(todo) : k + 1 \in DOMAIN todo /\ Tail(todo)[k] = todo[k + 1]
  BY <1>1
<1>4. \A k \in Receives(Tail(todo)) : k \in Int /\ k >= 1 /\ k + 1 \in Receives(todo)
  BY <1>1, <1>3 DEF Receives
<1>5. ASSUME ask.tool # "all", NEW j \in Receives(Tail(todo))
      PROVE  j + 1 \in DOMAIN Tail(todo) /\ \A k \in Receives(Tail(todo)) : j = k
  <2>1. j + 1 \in Receives(todo) /\ j \in Int /\ j >= 1
    BY <1>4, <1>5
  <2>2. (j + 1) + 1 \in DOMAIN todo /\ \A k \in Receives(todo) : j + 1 = k
    BY <1>5, <2>1 DEF ScriptOf
  <2>3. j + 1 \in DOMAIN Tail(todo)
    BY <1>1, <2>1, <2>2
  <2>4. \A k \in Receives(Tail(todo)) : j = k
    BY <1>4, <2>1, <2>2
  <2> QED BY <2>3, <2>4
<1>6. ASSUME ask.tool = "all" PROVE \A k \in DOMAIN Tail(todo) : Tail(todo)[k].of \in ask.names
  BY <1>3, <1>6 DEF ScriptOf
<1>7. ASSUME ask.tool # "all", Head(todo).do = "receive"
      PROVE  Tail(todo) # <<>> /\ Receives(Tail(todo)) = {}
  <2>1. 1 \in Receives(todo)
    BY <1>1, <1>2, <1>7 DEF Receives
  <2>2. 1 + 1 \in DOMAIN todo /\ \A k \in Receives(todo) : 1 = k
    BY <1>7, <2>1 DEF ScriptOf
  <2>3. Len(Tail(todo)) >= 1
    BY <1>1, <2>2
  <2>4. Receives(Tail(todo)) = {}
    BY <1>4, <2>2
  <2> QED BY <1>1, <2>3, <2>4
<1>8. ScriptOf(ask, Tail(todo))
  BY <1>1, <1>5, <1>6 DEF ScriptOf
<1> QED BY <1>2, <1>3, <1>4, <1>7, <1>8

-----------------------------------------------------------------------------
(* One write *)

\* A call under the turn is of a file.
LEMMA TurnMakesFiles ==
  ASSUME PageInv, doing # Nothing, store = "turn"
  PROVE  FileOf(doing.call)
<1>1. listed # <<>> /\ doing.call = Head(listed) /\ listed \in Seq(Calls)
  BY DEF PageInv, InHand, TypeOK
<1>2. 1 \in DOMAIN listed /\ Head(listed) = listed[1]
  BY <1>1
<1> QED BY <1>1, <1>2 DEF PageInv, Files

\* What a write does to the line: a response is added for a call that is to
\* receive one and has none to be found by its delivery, and none otherwise.
NewResponse(c, s) == s.do = "receive" /\ ~ (HasDelivery(c) /\ Given(c) # {})

LEMMA LineWritten ==
  ASSUME PageInv, Writing, NEW c \in Calls, c = doing.call, NEW s \in Write, s = Head(doing.todo)
  PROVE  /\ line' \in Line /\ IsFiniteSet(line'.responses) /\ IsFiniteSet(line'.made)
         /\ NewResponse(c, s) =>
              \E r : r.by = c /\ r.of = s.of /\ line'.responses = line.responses \cup {r}
         /\ ~ NewResponse(c, s) => line'.responses = line.responses
<1> DEFINE nth == Cardinality(Given(c))
           again == s.do = "receive" /\ HasDelivery(c) /\ Given(c) # {}
           r == [by |-> c, of |-> s.of, nth |-> nth + 1]
           recorded == [by |-> c, of |-> s.of, nth |-> nth]
           made == <<c, Cardinality(Made(c)) + 1>>
<1>1. line \in Line /\ IsFiniteSet(line.responses) /\ IsFiniteSet(line.made)
  BY DEF PageInv, TypeOK
<1>2. nth \in Nat /\ Cardinality(Made(c)) \in Nat
  <2>1. Given(c) \in SUBSET line.responses /\ Made(c) \in SUBSET line.made
    BY DEF Given, Made
  <2> QED BY <1>1, <2>1, FS_Subset, FS_CardinalityType
<1>3. s.of \in Numbers \cup {0} /\ s.do \in {"receive", "record", "make", "move"}
  BY DEF Write
<1>4. r \in Responses /\ recorded \in Responses /\ made \in Calls \X Nat
  BY <1>2, <1>3 DEF Responses
<1>5. r.by = c /\ r.of = s.of
  OBVIOUS
<1>6. IsFiniteSet(line.responses \cup {r}) /\ IsFiniteSet(line.made \cup {made})
  BY <1>1, FS_AddElement
<1>7. line' = CASE again -> line
                [] s.do = "receive" /\ ~again -> [line EXCEPT !.responses = @ \cup {r}]
                [] s.do = "record" -> [line EXCEPT !.recorded = @ \cup {recorded}]
                [] s.do = "make" -> [line EXCEPT !.made = @ \cup {made}]
                [] s.do = "move" -> [line EXCEPT !.moves = Append(@, c)]
  BY DEF Writing
<1>8. NewResponse(c, s) <=> s.do = "receive" /\ ~again
  BY DEF NewResponse
<1> HIDE DEF r, recorded, made, again
<1>9. CASE again
  <2>1. s.do = "receive" /\ line' = line
    BY <1>7, <1>9 DEF again
  <2> QED BY <1>1, <1>8, <1>9, <2>1
<1>10. CASE s.do = "receive" /\ ~again
  <2>1. line' = [line EXCEPT !.responses = @ \cup {r}]
    BY <1>7, <1>10
  <2>2. line' \in Line /\ line'.responses = line.responses \cup {r} /\ line'.made = line.made
    BY <1>1, <1>4, <2>1 DEF Line
  <2> QED BY <1>1, <1>5, <1>6, <1>8, <1>10, <2>2
<1>11. CASE s.do = "record"
  <2>1. line' = [line EXCEPT !.recorded = @ \cup {recorded}]
    BY <1>7, <1>11 DEF again
  <2>2. line' \in Line /\ line'.responses = line.responses /\ line'.made = line.made
    BY <1>1, <1>4, <2>1 DEF Line
  <2> QED BY <1>1, <1>8, <1>11, <2>2
<1>12. CASE s.do = "make"
  <2>1. line' = [line EXCEPT !.made = @ \cup {made}]
    BY <1>7, <1>12 DEF again
  <2>2. line' \in Line /\ line'.responses = line.responses /\ line'.made = line.made \cup {made}
    BY <1>1, <1>4, <2>1 DEF Line
  <2> QED BY <1>1, <1>6, <1>8, <1>12, <2>2
<1>13. CASE s.do = "move"
  <2> DEFINE moves == Append(line.moves, c)
  <2>1. line' = [line EXCEPT !.moves = moves]
    BY <1>7, <1>13 DEF again
  <2>2. moves \in Seq(Calls)
    BY <1>1 DEF Line
  <2> HIDE DEF moves
  <2>3. line' \in Line /\ line'.responses = line.responses /\ line'.made = line.made
    BY <1>1, <2>1, <2>2 DEF Line
  <2> QED BY <1>1, <1>8, <1>13, <2>3
<1> QED BY <1>3, <1>9, <1>10, <1>11, <1>12, <1>13 DEF again

\* What is left to write after it: of a call other than a yes all, no response
\* to receive once one was received or found.
LEMMA TodoWritten ==
  ASSUME PageInv, Writing, NEW c \in Calls, c = doing.call, NEW s, s = Head(doing.todo)
  PROVE  /\ doing' = [call |-> c, todo |-> doing'.todo]
         /\ ScriptOf(sent[c], doing'.todo)
         /\ sent[c].tool # "all" /\ s.do = "receive" => Receives(doing'.todo) = {}
         /\ Receives(doing'.todo) # {} => Receives(doing.todo) # {}
<1> DEFINE again == s.do = "receive" /\ HasDelivery(c) /\ Given(c) # {}
           todo == doing.todo
           left == IF again THEN LeftOf(c, Tail(todo)) ELSE Tail(todo)
<1>1. doing \in [call : Calls \cup {Nobody}, todo : Seq(Write)] /\ todo # <<>>
  BY DEF PageInv, TypeOK, Writing
<1>2. doing # Nothing /\ ScriptOf(sent[c], todo)
  BY <1>1 DEF PageInv, InHand, Nothing
<1>3. doing' = [doing EXCEPT !.todo = left]
  BY DEF Writing
<1>4. /\ ScriptOf(sent[c], Tail(todo))
      /\ sent[c].tool # "all" /\ s.do = "receive" =>
           Tail(todo) # <<>> /\ Receives(Tail(todo)) = {}
      /\ Receives(Tail(todo)) # {} => Receives(todo) # {}
  BY <1>1, <1>2, TailScript
<1> HIDE DEF todo
<1>5. /\ ScriptOf(sent[c], left)
      /\ sent[c].tool # "all" /\ s.do = "receive" => Receives(left) = {}
      /\ Receives(left) # {} => Receives(todo) # {}
  <2>1. CASE ~again
    BY <1>4, <2>1
  <2>2. CASE again /\ sent[c].tool = "ask"
    <3>1. left = <<>>
      BY <2>2 DEF LeftOf
    <3>2. Receives(<<>>) = {}
      BY DEF Receives
    <3> QED BY <3>1, <3>2, NoScript
  <2>3. CASE again /\ sent[c].tool # "ask"
    <3>1. left = Tail(Tail(todo)) /\ sent[c].tool # "all" /\ s.do = "receive"
      BY <2>3 DEF LeftOf, HasDelivery
    <3>2. /\ ScriptOf(sent[c], Tail(Tail(todo)))
          /\ Receives(Tail(Tail(todo))) # {} => Receives(Tail(todo)) # {}
      BY <1>4, <3>1, TailScript
    <3> QED BY <1>4, <3>1, <3>2
  <2> QED BY <2>1, <2>2, <2>3
<1>6. left \in Seq(Write)
  BY <1>5 DEF ScriptOf
<1> HIDE DEF left
<1>7. doing' = [call |-> c, todo |-> left] /\ doing'.todo = left
  BY <1>1, <1>3, <1>6
<1> QED BY <1>5, <1>7 DEF todo

LEMMA WritingStep == ASSUME PageInv, Writing PROVE PageInv'
<1>1. doing.todo # <<>> /\ doing # Nothing
  BY DEF Writing, Nothing
<1>2. PICK c \in Calls : c = doing.call
  BY <1>1 DEF PageInv, TypeOK
<1>3. PICK s \in Write : s = Head(doing.todo)
  BY <1>1 DEF PageInv, TypeOK
<1>4. sent[c] # Unsent /\ store \in {"request", "turn"} /\ ScriptOf(sent[c], doing.todo)
  BY <1>1, <1>2 DEF PageInv, InHand
<1>5. UNCHANGED <<sent, reply, kept, said, store, listed, moved, latest, changed, seen, told,
                  follow, faults>>
  BY DEF Writing, shown
<1>6. /\ line' \in Line /\ IsFiniteSet(line'.responses) /\ IsFiniteSet(line'.made)
      /\ NewResponse(c, s) =>
           \E r : r.by = c /\ r.of = s.of /\ line'.responses = line.responses \cup {r}
      /\ ~ NewResponse(c, s) => line'.responses = line.responses
  BY <1>2, <1>3, LineWritten
<1>7. /\ doing' = [call |-> c, todo |-> doing'.todo]
      /\ ScriptOf(sent[c], doing'.todo)
      /\ sent[c].tool # "all" /\ s.do = "receive" => Receives(doing'.todo) = {}
      /\ Receives(doing'.todo) # {} => Receives(doing.todo) # {}
  BY <1>2, <1>3, TodoWritten
<1>8. doing'.call = c /\ doing' \in [call : Calls \cup {Nobody}, todo : Seq(Write)]
  BY <1>7 DEF ScriptOf
<1>9. \A k \in Calls \ {c} : Given(k)' = Given(k)
  BY <1>6 DEF Given
<1>10. ~ NewResponse(c, s) => Given(c)' = Given(c)
  BY <1>6 DEF Given
<1>11. s.do = "receive" => Receives(doing.todo) # {}
  <2>1. 1 \in DOMAIN doing.todo /\ Head(doing.todo) = doing.todo[1]
    BY <1>1 DEF PageInv, TypeOK
  <2> QED BY <1>3, <2>1 DEF Receives
<1>12. TypeOK'
  BY <1>4, <1>5, <1>6, <1>8 DEF PageInv, TypeOK
<1>13. Asked'
  BY <1>4, <1>5, <1>9 DEF PageInv, Asked
<1>14. Files'
  BY <1>5 DEF PageInv, Files, FileOf
<1>15. InHand'
  <2>1. store = "turn" => listed # <<>> /\ c = Head(listed)
    BY <1>1, <1>2 DEF PageInv, InHand
  <2>2. store = "request" => reply[c] = "waiting"
    BY <1>2 DEF PageInv, InHand
  <2> QED BY <1>4, <1>5, <1>7, <1>8, <2>1, <2>2 DEF PageInv, InHand, Passing
<1>16. sent[c].tool # "all" => Given(c)' = {} \/ \E r \in line'.responses : Given(c)' = {r}
  <2>1. CASE NewResponse(c, s) /\ sent[c].tool # "all"
    <3>1. Given(c) = {}
      BY <1>1, <1>2, <1>11, <2>1 DEF PageInv, Once, NewResponse
    <3>2. PICK r : r.by = c /\ line'.responses = line.responses \cup {r}
      BY <1>6, <2>1
    <3>3. Given(c)' = {r} /\ r \in line'.responses
      BY <3>1, <3>2 DEF Given
    <3> QED BY <3>3
  <2>2. CASE ~ NewResponse(c, s)
    BY <1>6, <1>10, <2>2 DEF PageInv, Once
  <2> QED BY <2>1, <2>2
<1>17. Once'
  <2>1. \A k \in Calls : sent[k].tool # "all" =>
          Given(k)' = {} \/ \E r \in line'.responses : Given(k)' = {r}
    <3> SUFFICES ASSUME NEW k \in Calls, sent[k].tool # "all"
                 PROVE  Given(k)' = {} \/ \E r \in line'.responses : Given(k)' = {r}
      OBVIOUS
    <3>1. CASE k = c
      BY <1>16, <3>1
    <3>2. CASE k # c
      <4>1. line.responses \subseteq line'.responses
        BY <1>6
      <4> QED BY <1>9, <3>2, <4>1 DEF PageInv, Once
    <3> QED BY <3>1, <3>2
  <2>2. \A k \in Calls :
          reply[k] = "waiting" /\ sent[k].from = "page" /\ ~ (store = "request" /\ c = k)
            => Given(k)' = {}
    <3> SUFFICES ASSUME NEW k \in Calls, reply[k] = "waiting", sent[k].from = "page",
                        ~ (store = "request" /\ c = k)
                 PROVE  Given(k)' = {}
      OBVIOUS
    <3>1. k # c
      BY <1>1, <1>2, <1>4, TurnMakesFiles DEF FileOf
    <3> QED BY <1>2, <1>9, <3>1 DEF PageInv, Once
  <2>3. sent[c].tool # "all" /\ Receives(doing'.todo) # {} => Given(c)' = {} \/ HasDelivery(c)
    BY <1>1, <1>2, <1>7, <1>10 DEF PageInv, Once, NewResponse
  <2>4. HasDelivery(c)' = HasDelivery(c)
    BY <1>5 DEF HasDelivery
  <2> QED BY <1>5, <1>8, <2>1, <2>2, <2>3, <2>4 DEF Once
<1>18. YesToWhatWasNamed'
  <2>1. sent[c].tool = "all" => s.of \in sent[c].names
    <3>1. 1 \in DOMAIN doing.todo /\ Head(doing.todo) = doing.todo[1]
      BY <1>1 DEF PageInv, TypeOK
    <3> QED BY <1>3, <1>4, <3>1 DEF ScriptOf
  <2> QED BY <1>5, <1>6, <2>1 DEF PageInv, YesToWhatWasNamed
<1> QED BY <1>6, <1>12, <1>13, <1>14, <1>15, <1>17, <1>18 DEF PageInv

-----------------------------------------------------------------------------
(* Reads, requests and the loop *)

\* The latest read is a read of some line.
LEMMA CurrentType == ASSUME PageInv PROVE Current \in Read /\ Current # NoRead
<1>1. line \in Line /\ latest \in Read \cup {NoRead} /\ changed \in Nat
  BY DEF PageInv, TypeOK
<1>2. [line |-> line, generation |-> changed] \in Read
  BY <1>1 DEF Read
<1>3. Current \in Read
  BY <1>1, <1>2 DEF Current
<1> QED BY <1>3, ReadAssumption

\* What is shown to a page, and what the loop is in, keep their types.
ShownType ==
  /\ latest \in Read \cup {NoRead} /\ seen \in Read /\ changed \in Nat
  /\ told \subseteq {"changed", "shown"} /\ faults \in 0..MaxFaults
  /\ moved \in BOOLEAN /\ follow \in BOOLEAN

LEMMA ReadsType ==
  ASSUME PageInv, NEW heard, Reads(heard)
  PROVE  latest' \in Read /\ latest' # NoRead /\ told' \subseteq {"changed", "shown"}
BY CurrentType DEF Reads, PageInv, TypeOK

\* A fault is counted, up to the bound.
LEMMA FaultCounted ==
  ASSUME PageInv, faults < MaxFaults, faults' = faults + 1
  PROVE  faults' \in 0..MaxFaults
<1>1. faults \in Nat /\ MaxFaults \in Nat
  BY PageAssumption DEF PageInv, TypeOK
<1> QED BY <1>1

\* A step of a page, or of the read that follows a change.
LEMMA ReadingStep ==
  ASSUME PageInv, UNCHANGED <<line, sent, reply, kept, said, store, listed, doing>>,
         ShownType', Passing => latest' # NoRead
  PROVE  PageInv'
<1>1. TypeOK'
  BY DEF PageInv, TypeOK, ShownType
<1>2. \A k : Given(k)' = Given(k) /\ HasDelivery(k)' = HasDelivery(k)
  BY DEF Given, HasDelivery
<1>3. Asked' /\ Files' /\ YesToWhatWasNamed'
  BY <1>2 DEF PageInv, Asked, Files, FileOf, YesToWhatWasNamed
<1>4. InHand'
  BY DEF PageInv, InHand, Passing
<1>5. Once'
  BY <1>2 DEF PageInv, Once
<1> QED BY <1>1, <1>3, <1>4, <1>5 DEF PageInv

LEMMA ReadStep ==
  ASSUME PageInv, Follows \/ \E event \in told : Hears(event)
  PROVE  PageInv'
<1>1. ShownType
  BY DEF PageInv, TypeOK, ShownType
<1>2. CASE Follows
  <2>1. latest' \in Read /\ latest' # NoRead /\ told' \subseteq {"changed", "shown"}
    BY <1>2, ReadsType DEF Follows
  <2>2. ShownType'
    BY <1>1, <1>2, <2>1 DEF Follows, ShownType, turn
  <2>3. UNCHANGED <<line, sent, reply, kept, said, store, listed, doing>>
    BY <1>2 DEF Follows, turn
  <2> QED BY <2>1, <2>2, <2>3, ReadingStep
<1>3. ASSUME NEW event \in told, Ignores(event)
      PROVE  PageInv'
  <2>1. ShownType'
    BY <1>1, <1>3 DEF Ignores, ShownType, turn
  <2>2. /\ UNCHANGED <<line, sent, reply, kept, said, store, listed, doing>>
        /\ Passing => latest' # NoRead
    BY <1>3 DEF Ignores, turn, PageInv, InHand
  <2> QED BY <2>1, <2>2, ReadingStep
<1>4. ASSUME NEW event \in told, Fetches(event)
      PROVE  PageInv'
  <2>1. latest' \in Read /\ latest' # NoRead /\ told' \subseteq {"changed", "shown"}
    <3>1. CASE store = "free" /\ Reads({event})
      BY <3>1, ReadsType
    <3>2. CASE Passing /\ told' = told \ {event} /\ UNCHANGED latest
      BY <1>1, <3>2 DEF ShownType, PageInv, InHand
    <3> QED BY <1>4, <3>1, <3>2 DEF Fetches
  <2>2. ShownType'
    BY <1>1, <1>4, <2>1 DEF Fetches, ShownType, turn
  <2>3. UNCHANGED <<line, sent, reply, kept, said, store, listed, doing>>
    BY <1>4 DEF Fetches, turn
  <2> QED BY <2>1, <2>2, <2>3, ReadingStep
<1> QED BY <1>2, <1>3, <1>4 DEF Hears

\* What is asked for has the shape of its tool.
LEMMA AskTyped ==
  ASSUME PageInv, NEW c \in Calls, NEW ask \in Asks(c)
  PROVE  /\ ask \in Ask /\ ask # Unsent
         /\ ask.tool \in AllTools /\ ask.from \in {"page", "client"}
         /\ ask.tool = "answer" => \E n \in Numbers : ask.names = {n}
<1> DEFINE known(from) == IF from = "page" THEN seen.line.standing ELSE 1..line.raised
           names(tool, from) ==
             CASE tool = "all"    -> {known(from)} \ {{}}
               [] tool = "answer" -> {{n} : n \in known(from)}
               [] OTHER           -> {{}}
<1>1. PICK t \in Tools[c] : \E n \in names(t[1], t[2]) :
        ask = [tool |-> t[1], from |-> t[2], names |-> n]
  BY DEF Asks
<1>2. t \in AllTools \X {"page", "client"}
  BY <1>1, PageAssumption
<1>3. \A from : known(from) \subseteq Numbers
  <2>1. seen.line.standing \subseteq Numbers /\ line.raised \in 0..MaxRaised
    BY DEF PageInv, TypeOK, Read, Line
  <2>2. MaxRaised \in Nat
    BY PageAssumption
  <2>3. 1..line.raised \subseteq Numbers
    BY <2>1, <2>2 DEF Numbers
  <2> QED BY <2>1, <2>3
<1>4. PICK n \in names(t[1], t[2]) : ask = [tool |-> t[1], from |-> t[2], names |-> n]
  BY <1>1
<1>5. n \subseteq Numbers /\ (t[1] = "answer" => \E m \in Numbers : n = {m})
  BY <1>3, <1>4
<1>6. ask.tool = t[1] /\ ask.from = t[2] /\ ask.names = n
  BY <1>4
<1>7. t[1] \in AllTools /\ t[2] \in {"page", "client"}
  BY <1>2
<1>8. ask \in Ask
  BY <1>4, <1>5, <1>7 DEF Ask
<1>9. Unsent.tool \notin AllTools
  BY DEF Unsent, AllTools
<1> QED BY <1>5, <1>6, <1>7, <1>8, <1>9

LEMMA SendsStep == ASSUME PageInv, NEW c \in Calls, Sends(c) PROVE PageInv'
<1>1. PICK ask \in Asks(c) : sent' = [sent EXCEPT ![c] = ask]
  BY DEF Sends
<1>2. /\ ask \in Ask /\ ask # Unsent
      /\ ask.tool \in AllTools /\ ask.from \in {"page", "client"}
      /\ ask.tool = "answer" => \E n \in Numbers : ask.names = {n}
  BY AskTyped
<1>3. /\ sent[c] = Unsent /\ reply' = [reply EXCEPT ![c] = "waiting"]
      /\ UNCHANGED <<line, kept, said, store, listed, doing, moved, latest, changed, seen, told,
                     follow, faults>>
  BY DEF Sends, turn, shown
<1>4. /\ sent \in [Calls -> Ask] /\ DOMAIN reply = Calls
      /\ reply[c] = "none" /\ Given(c) = {} /\ sent[c].from = "nobody"
  BY <1>3 DEF PageInv, TypeOK, Asked, Unsent
<1>5. \A k : Given(k)' = Given(k)
  BY <1>3 DEF Given
<1>6. doing # Nothing => doing.call \in Calls \ {c}
  BY <1>3 DEF PageInv, InHand
<1>7. /\ \A k \in Calls \ {c} : sent'[k] = sent[k] /\ reply'[k] = reply[k]
      /\ sent'[c] = ask /\ reply'[c] = "waiting"
  BY <1>1, <1>3, <1>4
<1>8. TypeOK'
  BY <1>1, <1>2, <1>3 DEF PageInv, TypeOK
<1>9. Asked'
  BY <1>2, <1>5, <1>7 DEF PageInv, Asked
<1>10. Files'
  <2>1. ~ FileOf(c)
    BY <1>4 DEF FileOf
  <2>2. \A k \in Calls \ {c} : FileOf(k)' = FileOf(k)
    BY <1>7 DEF FileOf
  <2>3. /\ \A k \in DOMAIN kept : kept[k] \in Calls
        /\ \A k \in DOMAIN listed : listed[k] \in Calls
    BY DEF PageInv, TypeOK
  <2> QED BY <1>3, <2>1, <2>2, <2>3 DEF PageInv, Files
<1>11. InHand'
  <2>1. doing # Nothing => sent'[doing.call] = sent[doing.call]
    BY <1>6, <1>7
  <2>2. store = "request" => reply'[doing.call] = "waiting"
    BY <1>7 DEF PageInv, InHand
  <2> QED BY <1>3, <2>1, <2>2 DEF PageInv, InHand, Passing
<1>12. Once'
  <2>1. \A k \in Calls \ {c} : HasDelivery(k)' = HasDelivery(k)
    BY <1>7 DEF HasDelivery
  <2>2. Given(c)' = {}
    BY <1>4, <1>5
  <2>3. \A k \in Calls : sent'[k].tool # "all" =>
          Given(k)' = {} \/ \E r \in line'.responses : Given(k)' = {r}
    BY <1>3, <1>5, <1>7, <2>2 DEF PageInv, Once
  <2>4. \A k \in Calls :
          reply'[k] = "waiting" /\ sent'[k].from = "page" /\ ~ (store = "request" /\ doing.call = k)
            => Given(k)' = {}
    BY <1>5, <1>7, <2>2 DEF PageInv, Once
  <2>5. doing # Nothing /\ sent'[doing.call].tool # "all" /\ Receives(doing.todo) # {}
          => Given(doing.call)' = {} \/ HasDelivery(doing.call)'
    <3>1. CASE doing # Nothing
      <4>1. PICK k \in Calls \ {c} : k = doing.call
        BY <1>6, <3>1
      <4>2. sent'[k] = sent[k] /\ Given(k)' = Given(k) /\ HasDelivery(k)' = HasDelivery(k)
        BY <1>5, <1>7, <2>1
      <4>3. doing' = doing
        BY <1>3
      <4> QED BY <3>1, <4>1, <4>2, <4>3 DEF PageInv, Once
    <3> QED BY <3>1
  <2> QED BY <1>3, <2>3, <2>4, <2>5 DEF Once
<1>13. YesToWhatWasNamed'
  <2> SUFFICES ASSUME NEW r \in line.responses, sent'[r.by].tool = "all"
               PROVE  r.of \in sent'[r.by].names
    BY <1>3 DEF YesToWhatWasNamed
  <2>1. r.by \in Calls
    BY DEF PageInv, TypeOK, Line, Responses
  <2>2. r \in Given(r.by)
    BY DEF Given
  <2>3. r.by # c
    BY <1>4, <2>2
  <2> QED BY <1>7, <2>1, <2>3 DEF PageInv, YesToWhatWasNamed
<1> QED BY <1>3, <1>8, <1>9, <1>10, <1>11, <1>12, <1>13 DEF PageInv

\* A step that leaves the line and what was asked for: what it has to keep.
LEMMA SameLine ==
  ASSUME PageInv, UNCHANGED <<line, sent>>, TypeOK', Files', InHand',
         \A c \in Calls : sent[c] = Unsent => reply'[c] = "none",
         \A c \in Calls :
           reply'[c] = "waiting" /\ sent[c].from = "page" /\ ~ (store' = "request" /\ doing'.call = c)
             => Given(c) = {},
         \A c \in Calls :
           doing' # Nothing /\ doing'.call = c /\ sent[c].tool # "all" /\ Receives(doing'.todo) # {}
             => Given(c) = {} \/ HasDelivery(c)'
  PROVE  PageInv'
<1>1. \A k : Given(k)' = Given(k)
  BY DEF Given
<1>2. Asked'
  BY <1>1 DEF PageInv, Asked
<1>3. Once'
  <2>1. \A c \in Calls : sent'[c].tool # "all" =>
          Given(c)' = {} \/ \E r \in line'.responses : Given(c)' = {r}
    BY <1>1 DEF PageInv, Once
  <2>2. \A c \in Calls :
          reply'[c] = "waiting" /\ sent'[c].from = "page" /\ ~ (store' = "request" /\ doing'.call = c)
            => Given(c)' = {}
    BY <1>1
  <2>3. (doing # Nothing /\ sent[doing.call].tool # "all" /\ Receives(doing.todo) # {}
          => Given(doing.call) = {} \/ HasDelivery(doing.call))'
    <3>1. CASE doing' # Nothing
      <4>1. PICK k \in Calls : k = doing'.call
        BY <3>1 DEF InHand
      <4>2. sent[k].tool # "all" /\ Receives(doing'.todo) # {} => Given(k)' = {} \/ HasDelivery(k)'
        BY <1>1, <3>1, <4>1
      <4> QED BY <3>1, <4>1, <4>2
    <3> QED BY <3>1
  <2> QED BY <2>1, <2>2, <2>3 DEF Once
<1>4. YesToWhatWasNamed'
  BY DEF PageInv, YesToWhatWasNamed
<1> QED BY <1>2, <1>3, <1>4 DEF PageInv

\* A client sends its call again: it has its delivery to be found by.
LEMMA SendsAgainStep == ASSUME PageInv, NEW c \in Calls, SendsAgain(c) PROVE PageInv'
<1>1. /\ sent[c].from = "client" /\ reply[c] # "waiting"
      /\ reply' = [reply EXCEPT ![c] = "waiting"]
      /\ faults < MaxFaults /\ faults' = faults + 1
      /\ UNCHANGED <<line, sent, kept, said, store, listed, doing, moved, latest, changed, seen,
                     told, follow>>
  BY DEF SendsAgain, turn, shown
<1>2. DOMAIN reply = Calls
  BY DEF PageInv, TypeOK
<1>3. /\ \A k \in Calls \ {c} : reply'[k] = reply[k]
      /\ reply'[c] = "waiting"
  BY <1>1, <1>2
<1>4. TypeOK'
  BY <1>1, FaultCounted DEF PageInv, TypeOK
<1>5. \A k \in Calls : FileOf(k)' = FileOf(k)
  BY <1>1, <1>3 DEF FileOf
<1>6. Files'
  <2>1. /\ \A k \in DOMAIN kept : kept[k] \in Calls
        /\ \A k \in DOMAIN listed : listed[k] \in Calls
    BY DEF PageInv, TypeOK
  <2> QED BY <1>1, <1>5, <2>1 DEF PageInv, Files
<1>7. InHand'
  <2>1. store = "request" => reply'[doing.call] = "waiting"
    BY <1>3 DEF PageInv, InHand
  <2> QED BY <1>1, <2>1 DEF PageInv, InHand, Passing
<1>8. sent[c] # Unsent
  BY <1>1 DEF Unsent
<1>9. \A k \in Calls : sent[k] = Unsent => reply'[k] = "none"
  BY <1>3, <1>8 DEF PageInv, Asked
<1>10. \A k \in Calls :
         reply'[k] = "waiting" /\ sent[k].from = "page" /\ ~ (store' = "request" /\ doing'.call = k)
           => Given(k) = {}
  BY <1>1, <1>3 DEF PageInv, Once
<1>11. \A k \in Calls : HasDelivery(k)' = HasDelivery(k)
  BY <1>1, <1>3 DEF HasDelivery
<1>12. \A k \in Calls :
         doing' # Nothing /\ doing'.call = k /\ sent[k].tool # "all" /\ Receives(doing'.todo) # {}
           => Given(k) = {} \/ HasDelivery(k)'
  BY <1>1, <1>11 DEF PageInv, Once
<1> QED BY <1>1, <1>4, <1>6, <1>7, <1>9, <1>10, <1>12, SameLine

\* A call begins: what it is to write is a script, and it has nothing to be
\* received twice.
LEMMA BeginsTyped ==
  ASSUME PageInv, NEW c \in Calls, NEW todo, ScriptOf(sent[c], todo)
  PROVE  /\ [call |-> c, todo |-> todo] \in [call : Calls \cup {Nobody}, todo : Seq(Write)]
         /\ [call |-> c, todo |-> todo].call = c /\ [call |-> c, todo |-> todo].todo = todo
BY DEF ScriptOf

LEMMA GoesInStep == ASSUME PageInv, NEW c \in Calls, GoesIn(c) PROVE PageInv'
<1>1. /\ reply[c] = "waiting" /\ store = "free"
      /\ UNCHANGED <<line, sent, kept, listed, moved, latest, changed, seen, told, follow, faults>>
  BY DEF GoesIn, shown
<1>2. DOMAIN reply = Calls /\ doing = Nothing /\ sent[c] # Unsent
  BY <1>1 DEF PageInv, TypeOK, Asked
<1>3. \A k : Given(k)' = Given(k)
  BY <1>1 DEF Given
<1>4. \A k \in Calls : sent[k] = Unsent => reply[k] = "none"
  BY DEF PageInv, Asked
<1>5. \A k \in Calls : reply[k] = "waiting" /\ sent[k].from = "page" => Given(k) = {}
  BY <1>1 DEF PageInv, Once
<1>6. /\ \A k \in DOMAIN kept : kept[k] \in Calls
      /\ \A k \in DOMAIN listed : listed[k] \in Calls
  BY DEF PageInv, TypeOK
<1>7. CASE reply' = [reply EXCEPT ![c] = "refused"] /\ said' = SaidOf(c) /\ UNCHANGED <<store, doing>>
  <2>1. \A k \in Calls \ {c} : reply'[k] = reply[k]
    BY <1>2, <1>7
  <2>2. reply'[c] = "refused"
    BY <1>2, <1>7
  <2>3. said' \subseteq Calls
    BY <1>7 DEF SaidOf, PageInv, TypeOK
  <2>4. TypeOK'
    BY <1>1, <1>2, <1>7, <2>3 DEF PageInv, TypeOK
  <2>5. \A k \in Calls : FileOf(k)' = FileOf(k)
    BY <1>1, <2>1, <2>2 DEF FileOf
  <2>6. Files'
    BY <1>1, <1>6, <2>5 DEF PageInv, Files
  <2>7. InHand'
    BY <1>1, <1>2, <1>7 DEF PageInv, InHand, Passing
  <2>8. \A k \in Calls : sent[k] = Unsent => reply'[k] = "none"
    BY <1>2, <1>4, <2>1
  <2>9. \A k \in Calls : reply'[k] = "waiting" /\ sent[k].from = "page" => Given(k) = {}
    BY <1>5, <2>1, <2>2
  <2> QED BY <1>1, <1>2, <1>7, <2>4, <2>6, <2>7, <2>8, <2>9, SameLine
<1>8. CASE /\ store' = "request" /\ doing' = [call |-> c, todo |-> Writes(c)]
           /\ UNCHANGED <<reply, said>>
  <2>1. ScriptOf(sent[c], Writes(c))
    BY <1>2, WritesScript DEF PageInv
  <2>2. /\ doing' \in [call : Calls \cup {Nobody}, todo : Seq(Write)]
        /\ doing'.call = c /\ doing'.todo = Writes(c)
    BY <1>8, <2>1, BeginsTyped
  <2>3. TypeOK'
    BY <1>1, <1>8, <2>2 DEF PageInv, TypeOK
  <2>4. Files'
    BY <1>1, <1>8 DEF PageInv, Files, FileOf
  <2>5. InHand'
    BY <1>1, <1>2, <1>8, <2>1, <2>2 DEF PageInv, InHand, Passing
  <2>6. \A k \in Calls : reply'[k] = "waiting" /\ sent[k].from = "page" => Given(k) = {}
    BY <1>5, <1>8
  <2>7. sent[c].tool # "all" => Given(c)' = {} \/ HasDelivery(c)'
    <3>1. sent[c].from \in {"page", "client"}
      BY <1>2 DEF PageInv, Asked
    <3> QED BY <1>1, <1>3, <1>5, <1>8, <3>1 DEF HasDelivery
  <2>8. \A k \in Calls : sent[k] = Unsent => reply'[k] = "none"
    BY <1>4, <1>8
  <2>9. \A k \in Calls :
          doing' # Nothing /\ doing'.call = k /\ sent[k].tool # "all" /\ Receives(doing'.todo) # {}
            => Given(k) = {} \/ HasDelivery(k)'
    BY <1>3, <2>2, <2>7
  <2> QED BY <1>1, <2>3, <2>4, <2>5, <2>6, <2>8, <2>9, SameLine
<1> QED BY <1>7, <1>8 DEF GoesIn

\* A pass holds the store: the caller's call is a file, and it is told so.
LEMMA IsKeptStep == ASSUME PageInv, NEW c \in Calls, IsKept(c) PROVE PageInv'
<1>1. /\ reply[c] = "waiting" /\ Passing
      /\ UNCHANGED <<line, sent, said, store, listed, doing, moved, latest, changed, told, follow>>
  BY DEF IsKept, turn
<1>2. PICK answer \in {"kept", "refused"} :
        /\ reply' = [reply EXCEPT ![c] = answer]
        /\ \/ answer = "kept" /\ kept' = Append(kept, c) /\ UNCHANGED faults
           \/ answer = "refused" /\ faults < MaxFaults /\ faults' = faults + 1 /\ UNCHANGED kept
        /\ seen' \in {latest, seen}
  BY DEF IsKept
<1>3. DOMAIN reply = Calls /\ sent[c] # Unsent
  BY <1>1 DEF PageInv, TypeOK, Asked
<1>4. \A k \in Calls \ {c} : reply'[k] = reply[k]
  BY <1>2, <1>3
<1>5. reply'[c] = answer
  BY <1>2, <1>3
<1>6. kept \in Seq(Calls) /\ listed \in Seq(Calls) /\ kept' \in Seq(Calls)
  <2>1. kept \in Seq(Calls) /\ listed \in Seq(Calls)
    BY DEF PageInv, TypeOK
  <2>2. Append(kept, c) \in Seq(Calls)
    BY <2>1
  <2> QED BY <1>2, <2>1, <2>2
<1>7. TypeOK'
  <2>1. reply' \in [Calls -> {"none", "waiting", "made", "kept", "refused"}]
    BY <1>2 DEF PageInv, TypeOK
  <2>2. seen' \in Read
    BY <1>1, <1>2 DEF PageInv, TypeOK, InHand
  <2>3. faults' \in 0..MaxFaults
    BY <1>2, FaultCounted DEF PageInv, TypeOK
  <2> QED BY <1>1, <1>6, <2>1, <2>2, <2>3 DEF PageInv, TypeOK
<1>8. \A k \in Calls : FileOf(k) => FileOf(k)'
  BY <1>1, <1>4, <1>5 DEF FileOf
<1>9. Files'
  <2>1. CASE kept' = kept
    BY <1>1, <1>6, <1>8, <2>1 DEF PageInv, Files
  <2>2. CASE kept' = Append(kept, c) /\ answer = "kept"
    <3>1. FileOf(c)'
      BY <1>5, <2>2 DEF FileOf
    <3>2. Len(kept') = Len(kept) + 1 /\ Len(kept) \in Nat /\ Len(listed) \in Nat
      BY <1>6, <2>2
    <3>3. \A k \in DOMAIN kept' : kept'[k] = c \/ (k \in DOMAIN kept /\ kept'[k] = kept[k])
      BY <1>6, <2>2
    <3>4. (\A k \in DOMAIN kept : FileOf(kept[k]))'
      <4> SUFFICES ASSUME NEW k \in DOMAIN kept' PROVE FileOf(kept[k])'
        OBVIOUS
      <4>1. PICK x \in Calls : x = kept'[k] /\ FileOf(x)'
        BY <1>6, <1>8, <3>1, <3>3 DEF PageInv, Files
      <4> QED BY <4>1
    <3>5. (\A k \in DOMAIN listed : FileOf(listed[k]))'
      BY <1>1, <1>6, <1>8 DEF PageInv, Files
    <3>6. Len(listed) <= Len(kept')
      BY <3>2 DEF PageInv, Files
    <3> QED BY <1>1, <3>4, <3>5, <3>6 DEF Files
  <2> QED BY <1>2, <2>1, <2>2
<1>10. InHand'
  <2>1. store # "request"
    BY <1>1 DEF Passing
  <2> QED BY <1>1, <2>1 DEF PageInv, InHand, Passing
<1>11. \A k \in Calls : sent[k] = Unsent => reply'[k] = "none"
  BY <1>3, <1>4 DEF PageInv, Asked
<1>12. \A k \in Calls :
         reply'[k] = "waiting" /\ sent[k].from = "page" /\ ~ (store' = "request" /\ doing'.call = k)
           => Given(k) = {}
  BY <1>1, <1>2, <1>4, <1>5 DEF PageInv, Once
<1>13. \A k \in Calls : HasDelivery(k) => HasDelivery(k)'
  BY <1>1, <1>4, <1>5 DEF HasDelivery
<1>14. \A k \in Calls :
         doing' # Nothing /\ doing'.call = k /\ sent[k].tool # "all" /\ Receives(doing'.todo) # {}
           => Given(k) = {} \/ HasDelivery(k)'
  BY <1>1, <1>13 DEF PageInv, Once
<1> QED BY <1>1, <1>7, <1>9, <1>10, <1>11, <1>12, <1>14, SameLine

\* A call is made, and its caller answered.
LEMMA AnswersStep == ASSUME PageInv, Answers PROVE PageInv'
<1>1. PICK c \in Calls : c = doing.call /\ reply[c] = "waiting"
  BY DEF Answers, PageInv, InHand
<1>2. /\ store = "request" /\ store' = "free" /\ doing' = Nothing
      /\ reply' = [reply EXCEPT ![c] = "made"]
      /\ UNCHANGED <<line, sent, kept, said, listed, moved, changed, follow, faults>>
  BY <1>1 DEF Answers
<1>3. DOMAIN reply = Calls /\ sent[c] # Unsent
  BY <1>1 DEF PageInv, TypeOK, Asked
<1>4. \A k \in Calls \ {c} : reply'[k] = reply[k]
  BY <1>2, <1>3
<1>5. reply'[c] = "made"
  BY <1>2, <1>3
<1>6. TypeOK'
  <2>1. /\ latest' \in Read \cup {NoRead} /\ seen' \in Read
        /\ told' \subseteq {"changed", "shown"}
    <3>1. CASE Reads({}) /\ seen' = latest'
      BY <3>1, ReadsType
    <3>2. CASE UNCHANGED <<latest, told, seen>>
      BY <3>2 DEF PageInv, TypeOK
    <3> QED BY <3>1, <3>2 DEF Answers
  <2>2. Nothing \in [call : Calls \cup {Nobody}, todo : Seq(Write)]
    BY DEF Nothing
  <2> QED BY <1>2, <2>1, <2>2 DEF PageInv, TypeOK
<1>7. \A k \in Calls : FileOf(k) => FileOf(k)'
  BY <1>1, <1>2, <1>4, <1>5 DEF FileOf
<1>8. Files'
  <2>1. kept \in Seq(Calls) /\ listed \in Seq(Calls)
    BY DEF PageInv, TypeOK
  <2> QED BY <1>2, <1>7, <2>1 DEF PageInv, Files
<1>9. InHand'
  BY <1>2 DEF InHand, Passing
<1>10. \A k \in Calls : sent[k] = Unsent => reply'[k] = "none"
  BY <1>3, <1>4 DEF PageInv, Asked
<1>11. \A k \in Calls :
         reply'[k] = "waiting" /\ sent[k].from = "page" /\ ~ (store' = "request" /\ doing'.call = k)
           => Given(k) = {}
  BY <1>1, <1>4, <1>5 DEF PageInv, Once
<1> QED BY <1>2, <1>6, <1>8, <1>9, <1>10, <1>11, SameLine

\* A step of the loop that leaves every answer as it is, and is no request's.
LEMMA LoopStep ==
  ASSUME PageInv, UNCHANGED <<line, sent, reply>>, TypeOK', Files', InHand',
         store # "request",
         \A c \in Calls :
           doing' # Nothing /\ doing'.call = c /\ sent[c].tool # "all" /\ Receives(doing'.todo) # {}
             => Given(c) = {} \/ HasDelivery(c)
  PROVE  PageInv'
<1>1. \A c \in Calls : sent[c] = Unsent => reply'[c] = "none"
  BY DEF PageInv, Asked
<1>2. \A c \in Calls :
        reply'[c] = "waiting" /\ sent[c].from = "page" /\ ~ (store' = "request" /\ doing'.call = c)
          => Given(c) = {}
  BY DEF PageInv, Once
<1>3. \A c : HasDelivery(c)' = HasDelivery(c)
  BY DEF HasDelivery
<1> QED BY <1>1, <1>2, <1>3, SameLine

LEMMA TakesTurnStep == ASSUME PageInv, TakesTurn PROVE PageInv'
<1>1. /\ store = "free" /\ store' = "turn" /\ listed' = kept /\ moved' = FALSE
      /\ UNCHANGED <<line, sent, reply, kept, said, doing, changed, seen, follow, faults>>
  BY DEF TakesTurn
<1>2. doing = Nothing
  BY <1>1 DEF PageInv, TypeOK
<1>3. latest' \in Read /\ latest' # NoRead /\ told' \subseteq {"changed", "shown"}
  <2>1. CASE latest = NoRead
    BY <2>1, ReadsType DEF TakesTurn
  <2>2. CASE latest # NoRead
    BY <2>2 DEF TakesTurn, PageInv, TypeOK
  <2> QED BY <2>1, <2>2
<1>4. TypeOK'
  BY <1>1, <1>2, <1>3 DEF PageInv, TypeOK
<1>5. Files'
  <2>1. Len(kept) \in Nat
    BY DEF PageInv, TypeOK
  <2> QED BY <1>1, <2>1 DEF PageInv, Files, FileOf
<1>6. InHand'
  BY <1>1, <1>2, <1>3 DEF InHand
<1> QED BY <1>1, <1>2, <1>4, <1>5, <1>6, LoopStep

\* The oldest file is taken up: it is one of a call with its delivery.
LEMMA TakesUpStep == ASSUME PageInv, TakesUp PROVE PageInv'
<1>1. /\ store = "turn" /\ listed # <<>> /\ doing = Nothing
      /\ UNCHANGED <<line, sent, reply, kept, store, listed, moved, latest, changed, seen, told,
                     follow, faults>>
  BY DEF TakesUp, shown
<1>2. PICK c \in Calls : c = Head(listed) /\ FileOf(c)
  <2>1. listed \in Seq(Calls)
    BY DEF PageInv, TypeOK
  <2>2. 1 \in DOMAIN listed /\ Head(listed) = listed[1] /\ Head(listed) \in Calls
    BY <1>1, <2>1
  <2> QED BY <2>2 DEF PageInv, Files
<1>3. sent[c] # Unsent
  BY <1>2 DEF PageInv, Asked, FileOf, Unsent
<1>4. PICK todo : doing' = [call |-> c, todo |-> todo] /\ todo \in {<<>>, Writes(c)}
  BY <1>2 DEF TakesUp
<1>5. ScriptOf(sent[c], todo)
  BY <1>3, <1>4, WritesScript, NoScript DEF PageInv
<1>6. /\ doing' \in [call : Calls \cup {Nobody}, todo : Seq(Write)]
      /\ doing'.call = c /\ doing'.todo = todo
  BY <1>4, <1>5, BeginsTyped
<1>7. said' \subseteq Calls
  BY <1>2 DEF TakesUp, SaidOf, PageInv, TypeOK
<1>8. TypeOK'
  BY <1>1, <1>6, <1>7 DEF PageInv, TypeOK
<1>9. Files'
  BY <1>1 DEF PageInv, Files, FileOf
<1>10. InHand'
  BY <1>1, <1>2, <1>3, <1>5, <1>6 DEF PageInv, InHand, Passing
<1>11. sent[c].tool # "all" => HasDelivery(c)
  BY <1>2 DEF FileOf, HasDelivery
<1> QED BY <1>1, <1>6, <1>8, <1>9, <1>10, <1>11, LoopStep

\* A file goes, made or set aside: the oldest of the list, which is the oldest
\* there is.
LEMMA FileGoes ==
  ASSUME PageInv, listed # <<>>
  PROVE  /\ Tail(kept) \in Seq(Calls) /\ Tail(listed) \in Seq(Calls) /\ Head(listed) \in Calls
         /\ Len(Tail(listed)) <= Len(Tail(kept))
         /\ \A k \in DOMAIN Tail(kept) : FileOf(Tail(kept)[k])
         /\ \A k \in DOMAIN Tail(listed) : FileOf(Tail(listed)[k])
<1>1. /\ kept \in Seq(Calls) /\ listed \in Seq(Calls)
      /\ Len(kept) \in Nat /\ Len(listed) \in Nat \ {0} /\ Len(listed) <= Len(kept)
  BY DEF PageInv, TypeOK, Files
<1>2. kept # <<>>
  BY <1>1
<1>3. /\ Len(Tail(kept)) = Len(kept) - 1 /\ Len(Tail(listed)) = Len(listed) - 1
      /\ \A k \in DOMAIN Tail(kept) : k + 1 \in DOMAIN kept /\ Tail(kept)[k] = kept[k + 1]
      /\ \A k \in DOMAIN Tail(listed) : k + 1 \in DOMAIN listed /\ Tail(listed)[k] = listed[k + 1]
  BY <1>1, <1>2
<1>4. Len(Tail(listed)) <= Len(Tail(kept))
  BY <1>1, <1>3
<1> QED BY <1>1, <1>2, <1>3, <1>4 DEF PageInv, Files

\* The turn goes on with no call in the making.
LEMMA NothingInHand ==
  ASSUME PageInv, UNCHANGED <<line, sent, reply>>, TypeOK', Files',
         store # "request", doing' = Nothing, store' = store, latest' = latest
  PROVE  PageInv'
<1>1. InHand'
  BY DEF PageInv, InHand, Passing
<1> QED BY <1>1, LoopStep

LEMMA FileStep == ASSUME PageInv, LetsGo \/ SetsAside PROVE PageInv'
<1>1. /\ store = "turn" /\ listed # <<>> /\ doing' = Nothing
      /\ kept' = Tail(kept) /\ listed' = Tail(listed) /\ moved' \in BOOLEAN
      /\ said' \subseteq said \cup {Head(listed)}
      /\ faults' = faults \/ (faults < MaxFaults /\ faults' = faults + 1)
      /\ UNCHANGED <<line, sent, reply, store, latest, changed, seen, told, follow>>
  <2>1. CASE LetsGo
    BY <2>1 DEF LetsGo, AllWritten, shown, PageInv, InHand
  <2>2. CASE SetsAside
    BY <2>2 DEF SetsAside, shown, PageInv, TypeOK
  <2> QED BY <2>1, <2>2
<1>2. /\ Tail(kept) \in Seq(Calls) /\ Tail(listed) \in Seq(Calls) /\ Head(listed) \in Calls
      /\ Len(Tail(listed)) <= Len(Tail(kept))
      /\ \A k \in DOMAIN Tail(kept) : FileOf(Tail(kept)[k])
      /\ \A k \in DOMAIN Tail(listed) : FileOf(Tail(listed)[k])
  BY <1>1, FileGoes
<1>3. faults' \in 0..MaxFaults
  BY <1>1, FaultCounted DEF PageInv, TypeOK
<1>4. Nothing \in [call : Calls \cup {Nobody}, todo : Seq(Write)]
  BY DEF Nothing
<1>5. TypeOK'
  BY <1>1, <1>2, <1>3, <1>4 DEF PageInv, TypeOK
<1>6. \A x : FileOf(x)' = FileOf(x)
  BY <1>1 DEF FileOf
<1>7. Files'
  BY <1>1, <1>2, <1>6 DEF Files
<1> QED BY <1>1, <1>5, <1>7, NothingInHand

LEMMA CannotLetGoStep == ASSUME PageInv, CannotLetGo PROVE PageInv'
<1>1. /\ store = "turn" /\ doing' = Nothing /\ listed' = <<>> /\ moved' = FALSE
      /\ faults < MaxFaults /\ faults' = faults + 1
      /\ UNCHANGED <<line, sent, reply, kept, said, store, latest, changed, seen, told, follow>>
  BY DEF CannotLetGo, AllWritten, shown
<1>2. /\ Nothing \in [call : Calls \cup {Nobody}, todo : Seq(Write)] /\ <<>> \in Seq(Calls)
      /\ faults' \in 0..MaxFaults
  BY <1>1, FaultCounted DEF Nothing
<1>3. TypeOK'
  BY <1>1, <1>2 DEF PageInv, TypeOK
<1>4. Files'
  <2>1. Len(kept) \in Nat /\ Len(<<>>) = 0 /\ DOMAIN <<>> = {}
    BY DEF PageInv, TypeOK
  <2> QED BY <1>1, <2>1 DEF PageInv, Files, FileOf
<1> QED BY <1>1, <1>3, <1>4, NothingInHand

\* The pass applies what was given, and gives nothing itself.
LEMMA PassesStep == ASSUME PageInv, Passes PROVE PageInv'
<1>1. /\ store = "turn" /\ listed = <<>> /\ doing = Nothing /\ store' = "pass" /\ moved' = FALSE
      /\ UNCHANGED <<sent, reply, kept, said, listed, doing, latest, seen, faults>>
  BY DEF Passes
<1>2. PICK raised \in line.raised..Min({line.raised + 1, MaxRaised}) :
        /\ line' = [line EXCEPT
             !.raised = raised,
             !.taken = line.responses,
             !.standing = (@ \ {r.of : r \in line.responses}) \cup ((line.raised + 1)..raised)]
        /\ \/ changed' = changed + 1 /\ told' = told \cup {"changed"} /\ follow' = TRUE
           \/ UNCHANGED <<changed, told, follow>>
  BY DEF Passes
<1>3. line \in Line
  BY DEF PageInv, TypeOK
<1>4. raised \in 0..MaxRaised
  <2>1. line.raised \in 0..MaxRaised /\ MaxRaised \in Nat
    BY <1>3, PageAssumption DEF Line
  <2>2. Min({line.raised + 1, MaxRaised}) \in {line.raised + 1, MaxRaised}
    <3>1. CASE line.raised + 1 <= MaxRaised
      BY <2>1, <3>1 DEF Min
    <3>2. CASE ~ (line.raised + 1 <= MaxRaised)
      BY <2>1, <3>2 DEF Min
    <3> QED BY <3>1, <3>2
  <2>3. Min({line.raised + 1, MaxRaised}) <= MaxRaised
    <3>1. \A y \in {line.raised + 1, MaxRaised} : Min({line.raised + 1, MaxRaised}) <= y
      <4>1. CASE line.raised + 1 <= MaxRaised
        BY <2>1, <4>1 DEF Min
      <4>2. CASE ~ (line.raised + 1 <= MaxRaised)
        BY <2>1, <4>2 DEF Min
      <4> QED BY <4>1, <4>2
    <3> QED BY <3>1
  <2>4. raised \in Int /\ line.raised <= raised /\ raised <= Min({line.raised + 1, MaxRaised})
    OBVIOUS
  <2>5. Min({line.raised + 1, MaxRaised}) \in Int
    BY <2>1, <2>2
  <2> QED BY <2>1, <2>3, <2>4, <2>5
<1>5. (line.raised + 1)..raised \subseteq Numbers
  BY <1>3, <1>4, PageAssumption DEF Line, Numbers
<1>6. /\ line' \in Line
      /\ line'.responses = line.responses /\ line'.made = line.made
  BY <1>2, <1>3, <1>4, <1>5 DEF Line
<1>7. TypeOK'
  <2>1. changed' \in Nat /\ told' \subseteq {"changed", "shown"} /\ follow' \in BOOLEAN
    <3>1. changed \in Nat /\ told \subseteq {"changed", "shown"} /\ follow \in BOOLEAN
      BY DEF PageInv, TypeOK
    <3>2. \/ changed' = changed + 1 /\ told' = told \cup {"changed"} /\ follow' = TRUE
          \/ changed' = changed /\ told' = told /\ follow' = follow
      BY DEF Passes
    <3>3. changed' \in Nat
      BY <3>1, <3>2
    <3>4. told' \subseteq {"changed", "shown"}
      BY <3>1, <3>2
    <3>5. follow' \in BOOLEAN
      BY <3>1, <3>2
    <3> QED BY <3>3, <3>4, <3>5
  <2> QED BY <1>1, <1>6, <2>1 DEF PageInv, TypeOK
<1>8. \A k : Given(k)' = Given(k) /\ HasDelivery(k)' = HasDelivery(k)
  BY <1>1, <1>6 DEF Given, HasDelivery
<1>9. Asked' /\ Files' /\ YesToWhatWasNamed'
  BY <1>1, <1>6, <1>8 DEF PageInv, Asked, Files, FileOf, YesToWhatWasNamed
<1>10. InHand'
  BY <1>1 DEF PageInv, InHand, Passing
<1>11. Once'
  BY <1>1, <1>6, <1>8 DEF PageInv, Once
<1> QED BY <1>6, <1>7, <1>9, <1>10, <1>11 DEF PageInv

LEMMA TurnEndsStep == ASSUME PageInv, TurnEnds PROVE PageInv'
<1>1. /\ store = "pass" /\ store' = "free"
      /\ UNCHANGED <<line, sent, reply, kept, said, listed, doing, moved, latest, changed, seen,
                     told, follow, faults>>
  BY DEF TurnEnds, turn, shown
<1>2. doing = Nothing
  BY <1>1 DEF PageInv, TypeOK
<1>3. TypeOK'
  BY <1>1, <1>2 DEF PageInv, TypeOK
<1>4. Files' /\ InHand'
  BY <1>1, <1>2 DEF PageInv, Files, FileOf, InHand, Passing
<1> QED BY <1>1, <1>2, <1>3, <1>4, LoopStep

\* The host stops: a caller that waited is answered nothing, and its call is
\* not made unless it is a file, or sent again under its delivery.
LEMMA StopsStep == ASSUME PageInv, Stops PROVE PageInv'
<1>1. /\ store' = "down" /\ listed' = <<>> /\ doing' = Nothing /\ moved' = FALSE
      /\ latest' = NoRead /\ told' = {} /\ follow' = FALSE
      /\ reply' = [c \in Calls |-> IF reply[c] = "waiting" THEN "none" ELSE reply[c]]
      /\ faults < MaxFaults /\ faults' = faults + 1
      /\ UNCHANGED <<line, sent, kept, said, changed, seen>>
  BY DEF Stops
<1>2. Nothing \in [call : Calls \cup {Nobody}, todo : Seq(Write)] /\ <<>> \in Seq(Calls)
  BY DEF Nothing
<1>3. reply' \in [Calls -> {"none", "waiting", "made", "kept", "refused"}]
  BY <1>1 DEF PageInv, TypeOK
<1>4. TypeOK'
  BY <1>1, <1>2, <1>3, FaultCounted DEF PageInv, TypeOK
<1>5. \A k \in Calls : FileOf(k) => FileOf(k)'
  BY <1>1 DEF FileOf
<1>6. Files'
  <2>1. kept \in Seq(Calls) /\ Len(kept) \in Nat /\ Len(<<>>) = 0 /\ DOMAIN <<>> = {}
    BY DEF PageInv, TypeOK
  <2> QED BY <1>1, <1>5, <2>1 DEF PageInv, Files
<1>7. InHand'
  BY <1>1 DEF InHand, Passing
<1>8. \A k \in Calls : sent[k] = Unsent => reply'[k] = "none"
  BY <1>1 DEF PageInv, Asked
<1>9. \A k \in Calls : reply'[k] # "waiting"
  BY <1>1
<1> QED BY <1>1, <1>4, <1>6, <1>7, <1>8, <1>9, SameLine

LEMMA StartsStep == ASSUME PageInv, Starts PROVE PageInv'
<1>1. /\ store = "down" /\ store' = "free"
      /\ changed' = 1 /\ told' = {"changed"} /\ follow' = TRUE
      /\ UNCHANGED <<line, sent, reply, kept, said, listed, doing, moved, latest, seen, faults>>
  BY DEF Starts, Up, turn
<1>2. doing = Nothing
  BY <1>1 DEF PageInv, TypeOK
<1>3. TypeOK'
  BY <1>1, <1>2 DEF PageInv, TypeOK
<1>4. Files' /\ InHand'
  BY <1>1, <1>2 DEF PageInv, Files, FileOf, InHand, Passing
<1> QED BY <1>1, <1>2, <1>3, <1>4, LoopStep

LEMMA InitPage == ASSUME Init PROVE PageInv
<1>1. Empty \in Line
  <2>1. MaxRaised \in Nat
    BY PageAssumption
  <2> QED BY <2>1 DEF Empty, Line
<1>2. Nothing \in [call : Calls \cup {Nobody}, todo : Seq(Write)] /\ <<>> \in Seq(Calls)
  BY DEF Nothing
<1>3. Unsent \in Ask
  BY DEF Unsent, Ask
<1>4. 0 \in 0..MaxFaults
  BY PageAssumption
<1>5. seen \in Read /\ sent \in [Calls -> Ask]
  BY <1>1, <1>3 DEF Init, Read
<1>6. TypeOK
  BY <1>1, <1>2, <1>4, <1>5 DEF Init, TypeOK
<1>7. IsFiniteSet(line.responses) /\ IsFiniteSet(line.made) /\ line.responses = {}
  BY FS_EmptySet DEF Init, Empty
<1>8. \A c : Given(c) = {}
  BY <1>7 DEF Given
<1>9. Asked
  BY <1>8 DEF Init, Asked
<1>10. Files
  BY DEF Init, Files
<1>11. InHand
  BY DEF Init, InHand, Passing
<1>12. Once
  BY <1>8 DEF Init, Once
<1>13. YesToWhatWasNamed
  BY <1>7 DEF YesToWhatWasNamed
<1> QED BY <1>6, <1>7, <1>9, <1>10, <1>11, <1>12, <1>13 DEF PageInv

LEMMA StepPage == ASSUME PageInv, [Next]_vars PROVE PageInv'
<1>1. CASE Makes
  BY <1>1, WritingStep, AnswersStep, TakesUpStep, FileStep DEF Makes
<1>2. CASE Turns
  BY <1>2, TakesTurnStep, PassesStep, TurnEndsStep, StartsStep DEF Turns
<1>3. CASE Follows \/ \E event \in told : Hears(event)
  BY <1>3, ReadStep
<1>4. ASSUME NEW c \in Calls, Sends(c) \/ SendsAgain(c) \/ GoesIn(c) \/ IsKept(c)
      PROVE  PageInv'
  BY <1>4, SendsStep, SendsAgainStep, GoesInStep, IsKeptStep
<1>5. CASE CannotLetGo \/ SetsAside \/ Stops
  BY <1>5, CannotLetGoStep, FileStep, StopsStep
<1>6. CASE UNCHANGED vars
  <2>1. \A k : Given(k)' = Given(k) /\ HasDelivery(k)' = HasDelivery(k)
    BY <1>6 DEF vars, Given, HasDelivery
  <2>2. TypeOK' /\ Asked' /\ Files' /\ YesToWhatWasNamed'
    BY <1>6, <2>1 DEF vars, PageInv, TypeOK, Asked, Files, FileOf, YesToWhatWasNamed
  <2>3. InHand' /\ Once'
    BY <1>6, <2>1 DEF vars, PageInv, InHand, Passing, Once
  <2> QED BY <1>6, <2>2, <2>3 DEF vars, PageInv
<1> QED BY <1>1, <1>2, <1>3, <1>4, <1>5, <1>6 DEF Next

-----------------------------------------------------------------------------
(* The theorems *)

LEMMA PageHolds == Spec => []PageInv
<1>1. Init => PageInv
  BY InitPage
<1>2. PageInv /\ [Next]_vars => PageInv'
  BY StepPage
<1> QED BY <1>1, <1>2, PTL DEF Spec

\* Every variable of the page holds values of its kind, and a call in the
\* making is held by a request or by the turn (http.rs 65-100, 108-182).
THEOREM PageTyped == Spec => []TypeOK
<1>1. PageInv => TypeOK
  BY DEF PageInv
<1> QED BY <1>1, PageHolds, PTL

\* A call is one response however often its delivery arrives and however often
\* the turn that makes it is cut: kept, stopped, made again, sent again (http.rs
\* take_up, with_delivery).
THEOREM CallsAreRecordedOnce == Spec => []RecordedOnce
<1>1. PageInv => RecordedOnce
  <2> SUFFICES ASSUME PageInv, NEW c \in Calls, sent[c].tool # "all"
               PROVE  Cardinality(Given(c)) <= 1
    BY DEF RecordedOnce
  <2>1. CASE Given(c) = {}
    BY <2>1, FS_EmptySet
  <2>2. ASSUME NEW r \in line.responses, Given(c) = {r}
        PROVE  Cardinality(Given(c)) <= 1
    BY <2>2, FS_Singleton
  <2> QED BY <2>1, <2>2 DEF PageInv, Once
<1> QED BY <1>1, PageHolds, PTL

\* A yes all answers no decision its control did not name, however many come
\* between the page's read, the tap and the turn that makes it (http.rs
\* answer_all, yes_to_each).
THEOREM YesAllAnswersWhatWasNamed == Spec => []YesToWhatWasNamed
<1>1. PageInv => YesToWhatWasNamed
  BY DEF PageInv
<1> QED BY <1>1, PageHolds, PTL

-----------------------------------------------------------------------------
(* The signal's move *)

Moves(todo) == {k \in DOMAIN todo : todo[k].do = "move"}
MovesOnce(todo) == \A j, k \in Moves(todo) : j = k

\* Who still has the signal to move began when it had no move, and the store is
\* one caller's from there to the move.
OneMove ==
  /\ Len(line.moves) <= 1
  /\ Moves(doing.todo) # {} => line.moves = <<>>
  /\ MovesOnce(doing.todo)

LEMMA NoMoves == Moves(<<>>) = {} /\ MovesOnce(<<>>)
BY DEF Moves, MovesOnce

\* What each tool writes beside its response: only a hand moves the signal.
LEMMA ShortMoves ==
  ASSUME NEW x, NEW r, r.do # "move", NEW d, d.do # "move"
  PROVE  /\ Moves(<<r, d>>) = {}
         /\ x.do # "move" => Moves(<<x, r, d>>) = {} /\ Moves(<<r, d, x>>) = {}
         /\ MovesOnce(<<r, d, x>>)
<1>1. DOMAIN <<r, d>> = {1, 2} /\ DOMAIN <<x, r, d>> = {1, 2, 3} /\ DOMAIN <<r, d, x>> = {1, 2, 3}
  OBVIOUS
<1>2. Moves(<<r, d>>) = {}
  BY <1>1 DEF Moves
<1>3. x.do # "move" => Moves(<<x, r, d>>) = {} /\ Moves(<<r, d, x>>) = {}
  BY <1>1 DEF Moves
<1>4. Moves(<<r, d, x>>) \subseteq {3}
  BY <1>1 DEF Moves
<1> QED BY <1>2, <1>3, <1>4 DEF MovesOnce

LEMMA YesAllMoves ==
  ASSUME TypeOK, NEW c \in Calls, sent[c].tool = "all"
  PROVE  Moves(YesAllWrites(c)) = {}
<1> DEFINE n == Cardinality(YesAllAnswers(c))
           answers == Ascending(YesAllAnswers(c))
<1>1. YesAllAnswers(c) \in SUBSET Numbers
  BY DEF YesAllAnswers, TypeOK, Ask
<1>2. IsFiniteSet(Numbers)
  BY PageAssumption, FS_Interval DEF Numbers
<1>3. n \in Nat
  BY <1>1, <1>2, FS_Subset, FS_CardinalityType
<1>4. YesAllWrites(c) = [k \in 1..(2 * n) |-> Records(answers[(k + 1) \div 2])[2 - (k % 2)]]
  BY DEF YesAllWrites
<1> HIDE DEF n, answers
<1>5. ASSUME NEW k \in 1..(2 * n)
      PROVE  Records(answers[(k + 1) \div 2])[2 - (k % 2)].do # "move"
  <2>1. 2 - (k % 2) \in {1, 2}
    BY <1>3
  <2>2. \A a : \A j \in {1, 2} : Records(a)[j].do # "move"
    BY DEF Records, Step
  <2> QED BY <2>1, <2>2
<1> QED BY <1>4, <1>5 DEF Moves

LEMMA WritesMove ==
  ASSUME TypeOK, Asked, NEW c \in Calls, sent[c] # Unsent
  PROVE  /\ Moves(Writes(c)) # {} => sent[c].tool = "hand" /\ ~ DeliveredBefore(c)
         /\ MovesOnce(Writes(c))
<1>1. sent[c].tool \in AllTools
  BY DEF Asked
<1>2. \A n : /\ Step("receive", n).do # "move" /\ Step("record", n).do # "move"
             /\ Step("make", n).do # "move"
  BY DEF Step
<1>3. CASE sent[c].tool = "answer"
  <2>1. Writes(c) = <<Step("receive", Min(sent[c].names)), Step("record", Min(sent[c].names))>>
    BY <1>3 DEF Writes, Records
  <2> QED BY <1>2, <2>1, ShortMoves DEF MovesOnce
<1>4. CASE sent[c].tool = "all"
  BY <1>4, YesAllMoves DEF Writes, MovesOnce
<1>5. CASE sent[c].tool = "open"
  <2>1. Writes(c) = <<Step("make", 0), Step("receive", 0), Step("record", 0)>>
    BY <1>5, ShortTodo DEF Writes, OpenSessionWrites, Records
  <2> QED BY <1>2, <2>1, ShortMoves DEF MovesOnce
<1>6. CASE sent[c].tool = "ask"
  <2>1. Writes(c) = <<Step("receive", 0), Step("record", 0), Step("make", 0)>>
    BY <1>6, ShortTodo DEF Writes, AskWrites, Records
  <2> QED BY <1>2, <2>1, ShortMoves DEF MovesOnce
<1>7. CASE sent[c].tool = "capture"
  <2>1. Writes(c) \in {<<>>, <<Step("make", 0), Step("receive", 0), Step("record", 0)>>}
    BY <1>7, ShortTodo DEF Writes, CaptureWrites, Records
  <2> QED BY <1>2, <2>1, ShortMoves, NoMoves DEF MovesOnce
<1>8. CASE sent[c].tool = "hand" /\ DeliveredBefore(c)
  <2>1. Writes(c) = <<>>
    BY <1>8 DEF Writes, HandWrites
  <2> QED BY <2>1, NoMoves
<1>9. CASE sent[c].tool = "hand" /\ ~ DeliveredBefore(c)
  <2>1. Writes(c) = <<Step("receive", 0), Step("record", 0), Step("move", 0)>>
    BY <1>9, ShortTodo DEF Writes, HandWrites, Records
  <2> QED BY <1>2, <1>9, <2>1, ShortMoves
<1> QED BY <1>1, <1>3, <1>4, <1>5, <1>6, <1>7, <1>8, <1>9 DEF AllTools

\* What is left to move once a write is made.
LEMMA TailMoves ==
  ASSUME NEW todo \in Seq(Write), todo # <<>>, MovesOnce(todo)
  PROVE  /\ MovesOnce(Tail(todo))
         /\ Moves(Tail(todo)) # {} => Moves(todo) # {} /\ Head(todo).do # "move"
         /\ Head(todo).do = "move" => Moves(todo) # {}
<1>1. /\ Tail(todo) \in Seq(Write) /\ Head(todo) = todo[1]
      /\ Len(Tail(todo)) = Len(todo) - 1 /\ Len(todo) \in Nat \ {0}
      /\ DOMAIN todo = 1..Len(todo) /\ DOMAIN Tail(todo) = 1..Len(Tail(todo))
  OBVIOUS
<1>2. \A k \in DOMAIN Tail(todo) : k + 1 \in DOMAIN todo /\ Tail(todo)[k] = todo[k + 1]
  BY <1>1
<1>3. \A k \in Moves(Tail(todo)) : k \in Int /\ k >= 1 /\ k + 1 \in Moves(todo)
  BY <1>1, <1>2 DEF Moves
<1>4. MovesOnce(Tail(todo))
  <2> SUFFICES ASSUME NEW j \in Moves(Tail(todo)), NEW k \in Moves(Tail(todo))
               PROVE  j = k
    BY DEF MovesOnce
  <2>1. j + 1 = k + 1
    BY <1>3 DEF MovesOnce
  <2> QED BY <1>3, <2>1
<1>5. Head(todo).do = "move" => 1 \in Moves(todo)
  BY <1>1 DEF Moves
<1>6. ASSUME NEW k \in Moves(Tail(todo))
      PROVE  Moves(todo) # {} /\ Head(todo).do # "move"
  <2>1. k + 1 \in Moves(todo) /\ k + 1 # 1
    BY <1>3
  <2> QED BY <1>5, <2>1 DEF MovesOnce
<1> QED BY <1>4, <1>5, <1>6

\* One write: the signal's move is made where it has none, and is the last.
LEMMA WritingMoves == ASSUME PageInv, OneMove, Writing PROVE OneMove'
<1>1. doing.todo # <<>> /\ doing # Nothing
  BY DEF Writing, Nothing
<1>2. doing.todo \in Seq(Write) /\ line \in Line
  BY DEF PageInv, TypeOK
<1> DEFINE c == doing.call
           todo == doing.todo
           again == Head(todo).do = "receive" /\ HasDelivery(c) /\ Given(c) # {}
           left == IF again THEN LeftOf(c, Tail(todo)) ELSE Tail(todo)
<1>3. /\ MovesOnce(Tail(todo))
      /\ Moves(Tail(todo)) # {} => Moves(todo) # {} /\ Head(todo).do # "move"
      /\ Head(todo).do = "move" => Moves(todo) # {}
  BY <1>1, <1>2, TailMoves DEF OneMove
<1>4. doing' = [doing EXCEPT !.todo = left]
  BY DEF Writing
<1>5. /\ Head(todo).do # "move" => line'.moves = line.moves
      /\ Head(todo).do = "move" => line'.moves = Append(line.moves, c)
  <2>0. Head(todo) \in Write
    BY <1>1, <1>2
  <2>1. Head(todo).do \in {"receive", "record", "make", "move"}
    BY <2>0 DEF Write
  <2> QED BY <1>2, <2>1 DEF Writing, Line
<1> HIDE DEF todo
<1>6. /\ MovesOnce(left)
      /\ Moves(left) # {} => Moves(Tail(todo)) # {}
  <2>1. CASE ~ again
    BY <1>3, <2>1
  <2>2. CASE again /\ sent[c].tool = "ask"
    <3>1. left = <<>>
      BY <2>2 DEF LeftOf
    <3> QED BY <3>1, NoMoves
  <2>3. CASE again /\ sent[c].tool # "ask"
    <3>1. left = Tail(Tail(todo)) /\ sent[c].tool # "all" /\ Head(todo).do = "receive"
      BY <2>3 DEF LeftOf, HasDelivery
    <3>2. ScriptOf(sent[c], todo) /\ todo # <<>> /\ todo \in Seq(Write)
      BY <1>1, <1>2 DEF PageInv, InHand, todo
    <3>3. Tail(todo) # <<>> /\ Tail(todo) \in Seq(Write)
      <4>1. Tail(todo) \in Seq(Write)
        BY <3>2
      <4> QED BY <3>1, <3>2, <4>1, TailScript
    <3> QED BY <1>3, <3>1, <3>3, TailMoves
  <2> QED BY <2>1, <2>2, <2>3
<1> HIDE DEF left, c
<1>7. doing'.todo = left
  <2>1. doing \in [call : Calls \cup {Nobody}, todo : Seq(Write)]
    BY DEF PageInv, TypeOK
  <2> QED BY <1>4, <2>1
<1>8. OneMove => (Moves(todo) # {} => line.moves = <<>>) /\ Len(line.moves) <= 1
  BY DEF OneMove, todo
<1>9. CASE Head(todo).do = "move"
  <2>1. line.moves = <<>> /\ line'.moves = Append(line.moves, c) /\ Moves(left) = {}
    BY <1>3, <1>5, <1>6, <1>8, <1>9
  <2>2. Len(line'.moves) = 1
    BY <2>1
  <2> QED BY <1>6, <1>7, <2>1, <2>2 DEF OneMove
<1>10. CASE Head(todo).do # "move"
  BY <1>3, <1>5, <1>6, <1>7, <1>8, <1>10 DEF OneMove
<1> QED BY <1>9, <1>10

\* A call is begun: a hand that is not refused finds the signal unmoved.
LEMMA BeginsUnmoved ==
  ASSUME PageInv, OneMove, NEW c \in Calls, sent[c] # Unsent, UNCHANGED line,
         doing' \in {[call |-> c, todo |-> <<>>], [call |-> c, todo |-> Writes(c)]},
         Refuses(c) => doing' = [call |-> c, todo |-> <<>>]
  PROVE  OneMove'
<1>1. CASE doing' = [call |-> c, todo |-> <<>>]
  <2>1. doing'.todo = <<>>
    BY <1>1
  <2> QED BY <2>1, NoMoves DEF OneMove
<1>2. CASE doing' = [call |-> c, todo |-> Writes(c)] /\ ~ Refuses(c)
  <2>1. doing'.todo = Writes(c)
    BY <1>2
  <2>2. /\ Moves(Writes(c)) # {} => sent[c].tool = "hand" /\ ~ DeliveredBefore(c)
        /\ MovesOnce(Writes(c))
    BY WritesMove DEF PageInv
  <2>3. Moves(Writes(c)) # {} => line.moves = <<>>
    BY <1>2, <2>2 DEF Refuses
  <2> QED BY <2>1, <2>2, <2>3 DEF OneMove
<1> QED BY <1>1, <1>2

\* Every other step leaves the moves, and the call being made or makes none.
LEMMA OthersLeaveMoves ==
  ASSUME OneMove, line'.moves = line.moves, doing' \in {doing, Nothing}
  PROVE  OneMove'
<1>1. Nothing.todo = <<>>
  BY DEF Nothing
<1> QED BY <1>1, NoMoves DEF OneMove

LEMMA StepMoves == ASSUME PageInv, OneMove, [Next]_vars PROVE OneMove'
<1>1. CASE Writing
  BY <1>1, WritingMoves
<1>2. ASSUME NEW c \in Calls, GoesIn(c)
      PROVE  OneMove'
  <2>1. reply[c] = "waiting" /\ UNCHANGED line
    BY <1>2 DEF GoesIn
  <2>2. sent[c] # Unsent
    BY <2>1 DEF PageInv, Asked
  <2>3. CASE doing' = doing
    BY <2>1, <2>3, OthersLeaveMoves
  <2>4. CASE ~ Refuses(c) /\ doing' = [call |-> c, todo |-> Writes(c)]
    BY <2>1, <2>2, <2>4, BeginsUnmoved
  <2> QED BY <1>2, <2>3, <2>4 DEF GoesIn
<1>3. CASE TakesUp
  <2>1. PICK c \in Calls : c = Head(listed)
    BY <1>3 DEF TakesUp, PageInv, TypeOK
  <2>2. 1 \in DOMAIN listed /\ listed[1] = c
    BY <1>3, <2>1 DEF TakesUp, PageInv, TypeOK
  <2>3. sent[c] # Unsent
    BY <2>2 DEF PageInv, Files, FileOf, Asked, Unsent
  <2>4. UNCHANGED line /\ doing' = [call |-> c, todo |-> IF Refuses(c) THEN <<>> ELSE Writes(c)]
    BY <1>3, <2>1 DEF TakesUp
  <2> QED BY <2>3, <2>4, BeginsUnmoved
<1>4. CASE Passes
  <2>1. line \in Line /\ doing' = doing
    BY <1>4 DEF Passes, PageInv, TypeOK
  <2>2. line'.moves = line.moves
    BY <1>4, <2>1 DEF Passes, Line
  <2> QED BY <2>1, <2>2, OthersLeaveMoves
<1>5. CASE Answers \/ LetsGo \/ CannotLetGo \/ Stops
  <2>1. UNCHANGED line /\ doing' = Nothing
    BY <1>5 DEF Answers, LetsGo, CannotLetGo, Stops
  <2> QED BY <2>1, OthersLeaveMoves
<1>6. CASE TakesTurn \/ TurnEnds \/ Starts \/ Follows \/ SetsAside
  <2>1. UNCHANGED <<line, doing>>
    BY <1>6 DEF TakesTurn, TurnEnds, Starts, Follows, SetsAside, turn
  <2> QED BY <2>1, OthersLeaveMoves
<1>7. ASSUME NEW event \in told, Hears(event)
      PROVE  OneMove'
  <2>1. UNCHANGED <<line, doing>>
    BY <1>7 DEF Hears, Ignores, Fetches, turn
  <2> QED BY <2>1, OthersLeaveMoves
<1>8. ASSUME NEW c \in Calls, Sends(c) \/ SendsAgain(c) \/ IsKept(c)
      PROVE  OneMove'
  <2>1. UNCHANGED <<line, doing>>
    BY <1>8 DEF Sends, SendsAgain, IsKept, turn
  <2> QED BY <2>1, OthersLeaveMoves
<1>9. CASE UNCHANGED vars
  BY <1>9, OthersLeaveMoves DEF vars
<1> QED BY <1>1, <1>2, <1>3, <1>4, <1>5, <1>6, <1>7, <1>8, <1>9 DEF Next, Makes, Turns

\* Two hands on one signal, or one made again after a stop, move it once: who
\* moves it found it unmoved, and nobody else had the store between (catalogue.rs
\* unmoved_of, delivered_before).
THEOREM SignalsMoveOnce == Spec => []SignalTakesOneMove
<1>1. Init => OneMove
  BY NoMoves DEF Init, OneMove, Empty, Nothing
<1>2. PageInv /\ OneMove /\ [Next]_vars => OneMove'
  BY StepMoves
<1>3. OneMove => SignalTakesOneMove
  BY DEF OneMove, SignalTakesOneMove
<1> QED BY <1>1, <1>2, <1>3, PageHolds, PTL DEF Spec
=============================================================================
