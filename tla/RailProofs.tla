----------------------------- MODULE RailProofs -----------------------------
(***************************************************************************)
(* What holds of Rail and of Cards, for every set of units, leases and      *)
(* batches, however long it runs and however many responses are given.     *)
(***************************************************************************)
EXTENDS Cards, FiniteSetTheorems, TLAPS

-----------------------------------------------------------------------------
(* Helpers *)

\* A set of naturals that is not empty has a minimum, and it is one of them.
LEMMA MinOfNaturals ==
  ASSUME NEW S, S \subseteq Nat, S # {}
  PROVE  Min(S) \in S /\ \A y \in S : Min(S) <= y
<1>1. \E x \in S : \A y \in S : ~ (<<y, x>> \in OpToRel(<, Nat))
  BY NatLessThanWellFounded, WFMin
<1>2. PICK x \in S : \A y \in S : ~ (<<y, x>> \in OpToRel(<, Nat))
  BY <1>1
<1>3. \A y \in S : x <= y
  <2> TAKE y \in S
  <2>1. ~ (y < x)
    BY <1>2 DEF OpToRel
  <2> QED BY <2>1
<1> QED BY <1>2, <1>3 DEF Min

\* Every transition of the machines goes to a declared state.
LEMMA MachineType ==
  ASSUME NEW state, NEW j \in DOMAIN Rules(state)
  PROVE  Rules(state)[j].to \in States
<1>1. CASE state \in DOMAIN Transitions
  BY <1>1 DEF Rules, Transitions, States
<1>2. CASE state \notin DOMAIN Transitions
  BY <1>2 DEF Rules
<1> QED BY <1>1, <1>2

\* There are finitely many objects.
LEMMA ObjectsFinite ==
  ASSUME TypeOK
  PROVE  IsFiniteSet(Objects)
<1>1. Len(said) \in Nat
  BY DEF TypeOK
<1>2. IsFiniteSet(Given)
  BY <1>1, FS_Interval DEF Given
<1>3. IsFiniteSet(Units \cup Leases)
  BY RailAssumption, FS_Union
<1> QED BY <1>2, <1>3, FS_Union DEF Objects

-----------------------------------------------------------------------------
(* Deriving and numbering *)

\* A decision that is derived has an id: what it stands on, and a point.
LEMMA DecisionType ==
  ASSUME TypeOK,
         NEW objects, NEW members,
         members # {}, members \subseteq DOMAIN objects,
         \A o \in members : objects[o].since \in Nat,
         NEW card \in Units \cup Leases \cup Batches \cup Nat
  PROVE  DecisionOn(card, objects, members) \in Ids
<1> DEFINE Raised == {objects[o].since : o \in members}
<1>1. Min(Raised) \in Nat
  BY MinOfNaturals
<1>2. [of |-> card, since |-> Min(Raised)] \in Ids
  BY <1>1 DEF Ids
<1>3. CASE card \in Batches /\ Held(card) # {}
  <2> DEFINE Numbers == {entries[d].number : d \in Held(card)}
  <2>1. Held(card) \subseteq DOMAIN entries
    BY DEF Held
  <2>2. \A d \in Held(card) : entries[d].number \in Nat
    BY <2>1 DEF TypeOK
  <2>3. Min(Numbers) \in Numbers /\ \A y \in Numbers : Min(Numbers) <= y
    <3>1. Numbers \subseteq Nat
      BY <2>2
    <3>2. Numbers # {}
      BY <1>3
    <3> HIDE DEF Numbers
    <3> QED BY <3>1, <3>2, MinOfNaturals
  <2>4. PICK d \in Held(card) : entries[d].number = Min(Numbers)
    BY <2>3
  <2>5. \A e \in Held(card) : entries[d].number <= entries[e].number
    BY <2>3, <2>4
  <2>6. DecisionOn(card, objects, members) \in Held(card)
    BY <1>3, <2>5 DEF DecisionOn
  <2> QED BY <2>1, <2>6 DEF TypeOK
<1>4. CASE ~ (card \in Batches /\ Held(card) # {})
  BY <1>2, <1>4 DEF DecisionOn
<1> QED BY <1>3, <1>4

\* Deriving over the objects finds finitely many decisions.
LEMMA DecisionsType ==
  ASSUME TypeOK, NEW D, IsFiniteSet(D), D \subseteq Units \cup Leases \cup Nat,
         NEW objects, DOMAIN objects = D, \A o \in D : objects[o].since \in Nat
  PROVE  /\ IsFiniteSet(Decisions(objects))
         /\ Decisions(objects) \subseteq Ids
<1> DEFINE Deciders == {o \in DOMAIN objects : objects[o].state \in Deciding}
           On(card) == {o \in Deciders : Card(o) = card}
           Found(o) == DecisionOn(Card(o), objects, On(Card(o)))
           find == [o \in Deciders |-> Found(o)]
<1>1. Decisions(objects) = {Found(o) : o \in Deciders}
  BY DEF Decisions
<1>2. IsFiniteSet(Deciders)
  <2>1. Deciders \in SUBSET D
    OBVIOUS
  <2> QED BY <2>1, FS_Subset
<1>3. find \in Surjection(Deciders, Decisions(objects))
  BY <1>1 DEF Surjection
<1>4. IsFiniteSet(Decisions(objects))
  BY <1>2, <1>3, FS_Surjection
<1>5. ASSUME NEW o \in Deciders PROVE Found(o) \in Ids
  <2>1. Card(o) \in Units \cup Leases \cup Batches \cup Nat
    BY RailAssumption DEF Card
  <2>2. o \in On(Card(o)) /\ On(Card(o)) \subseteq DOMAIN objects
    OBVIOUS
  <2>3. \A x \in On(Card(o)) : objects[x].since \in Nat
    OBVIOUS
  <2> HIDE DEF On
  <2> QED BY <2>1, <2>2, <2>3, DecisionType
<1> QED BY <1>1, <1>4, <1>5

\* The part of the state that numbering writes, and what it says of the past:
\* a number that was given stays given to the same decision.
RegisterType ==
  /\ DOMAIN entries \subseteq Ids
  /\ entries \in [DOMAIN entries -> [number : Nat \ {0}, gone : Nat \cup {Never}]]
  /\ next \in Nat \ {0}
  /\ standing \subseteq Ids
  /\ given \in [1..(next - 1) -> Ids]

LEMMA NumberingType ==
  ASSUME TypeOK, NEW D, IsFiniteSet(D), D \subseteq Units \cup Leases \cup Nat,
         NEW objects, DOMAIN objects = D, \A o \in D : objects[o].since \in Nat,
         NEW now \in Nat, Numbered(objects, now)
  PROVE  /\ RegisterType'
         /\ next <= next'
         /\ \A n \in DOMAIN given : given'[n] = given[n]
<1> DEFINE new     == standing' \ DOMAIN entries
           numbers == Counter..(Counter + Cardinality(new) - 1)
           told    == Retracted(standing', now)
<1>1. standing' \subseteq Ids /\ IsFiniteSet(standing')
  BY DecisionsType DEF Numbered
<1>2. Cardinality(new) \in Nat
  <2>1. new \in SUBSET standing'
    OBVIOUS
  <2> QED BY <1>1, <2>1, FS_Subset, FS_CardinalityType
<1>3. PICK number \in Bijection(new, numbers) :
        /\ entries' = [d \in Kept(told, now) \cup new |->
                         IF d \in new THEN [number |-> number[d], gone |-> Never] ELSE told[d]]
        /\ given' = [n \in DOMAIN given \cup numbers |->
                       IF n \in numbers THEN CHOOSE d \in new : number[d] = n ELSE given[n]]
        /\ next' = Counter + Cardinality(new)
  BY DEF Numbered
<1>4. next \in Nat \ {0} /\ Counter = next /\ DOMAIN given = 1..(next - 1)
  BY DEF TypeOK, Counter
<1>5. /\ numbers \subseteq Nat \ {0}
      /\ number \in [new -> numbers]
      /\ \A n \in numbers : \E d \in new : number[d] = n
  <2>1. number \in Surjection(new, numbers)
    BY <1>3 DEF Bijection
  <2>2. number \in [new -> numbers] /\ \A n \in numbers : \E d \in new : number[d] = n
    BY <2>1 DEF Surjection
  <2>3. numbers \subseteq Nat \ {0}
    BY <1>2, <1>4
  <2> QED BY <2>2, <2>3
<1>6. /\ DOMAIN told = DOMAIN entries
      /\ \A d \in DOMAIN entries : told[d] \in [number : Nat \ {0}, gone : Nat \cup {Never}]
  <2> SUFFICES ASSUME NEW d \in DOMAIN entries
               PROVE  told[d] \in [number : Nat \ {0}, gone : Nat \cup {Never}]
    BY DEF Retracted
  <2>1. entries[d] \in [number : Nat \ {0}, gone : Nat \cup {Never}]
    BY DEF TypeOK
  <2> QED BY <2>1 DEF Retracted
<1>7. Kept(told, now) \subseteq DOMAIN entries
  BY <1>6 DEF Kept
<1>8. /\ DOMAIN entries' = Kept(told, now) \cup new
      /\ \A d \in DOMAIN entries' : entries'[d] \in [number : Nat \ {0}, gone : Nat \cup {Never}]
      /\ entries' = [d \in DOMAIN entries' |-> entries'[d]]
  BY <1>3, <1>5, <1>6, <1>7
<1>9. DOMAIN entries' \subseteq Ids
  BY <1>1, <1>7, <1>8 DEF TypeOK
<1>10. next' \in Nat \ {0} /\ next <= next' /\ 1..(next' - 1) = 1..(next - 1) \cup numbers
  <2> DEFINE count == Cardinality(new)
  <2>1. next' = next + count /\ numbers = next..(next + count - 1)
    BY <1>3, <1>4
  <2>2. count \in Nat
    BY <1>2
  <2> HIDE DEF count, numbers
  <2> QED BY <1>4, <2>1, <2>2
<1>11. \A n \in numbers : n \notin DOMAIN given
  BY <1>2, <1>4
<1>12. \A n \in DOMAIN given : given'[n] = given[n]
  BY <1>3, <1>11
<1>13. \A n \in numbers : given'[n] \in Ids
  BY <1>1, <1>3, <1>5
<1>14. given' \in [1..(next' - 1) -> Ids]
  <2> HIDE DEF numbers
  <2>1. given' = [n \in 1..(next' - 1) |-> given'[n]]
    <3>1. DOMAIN given' = 1..(next' - 1)
      BY <1>3, <1>4, <1>10
    <3>2. given' = [n \in DOMAIN given' |-> given'[n]]
      BY <1>3
    <3> QED BY <3>1, <3>2
  <2>2. \A n \in DOMAIN given : given'[n] \in Ids
    BY <1>4, <1>12 DEF TypeOK
  <2> QED BY <1>4, <1>10, <1>13, <2>1, <2>2
<1>15. entries' \in [DOMAIN entries' -> [number : Nat \ {0}, gone : Nat \cup {Never}]]
  BY <1>8
<1> QED BY <1>1, <1>9, <1>10, <1>12, <1>14, <1>15 DEF RegisterType

-----------------------------------------------------------------------------
(* The operations *)

\* An object and what it may hold.
Object == [state : States, since : Nat, applied : SUBSET Given]

\* A transition that fires leaves an object with a declared state, and with no
\* response applied but those given.
LEMMA MovedType ==
  ASSUME TypeOK, NEW o \in Objects, NEW seen, NEW now \in Nat, Fires(o, seen, now)
  PROVE  Moved(o, Fired(o, seen, now), now) \in Object
<1> DEFINE opened == Open(o, seen, now)
           rule == Fired(o, seen, now)
<1>1. opened \subseteq Nat /\ opened # {}
  <2>1. DOMAIN Rules(obj[o].state) \subseteq Nat
    <3>1. \A s \in DOMAIN Transitions : DOMAIN Transitions[s] \subseteq Nat
      BY DEF Transitions
    <3> QED  BY <3>1 DEF Rules
  <2> QED  BY <2>1 DEF Fires, Open
<1>2. Min(opened) \in opened
  BY <1>1, MinOfNaturals
<1>3. rule.to \in States
  BY <1>2, MachineType DEF Open, Fired
<1>4. Consumed(o, rule.on) \subseteq Given
  <2>1. CASE rule.on \in Reads
    BY <2>1 DEF Consumed
  <2>2. CASE rule.on \notin Reads
    <3>1. Holds(o, rule.on, seen, now)
      BY <1>2 DEF Open, Fired
    <3>2. Answering(o, rule.on) # {}
      BY <2>2, <3>1 DEF Holds, Reads
    <3>3. Answering(o, rule.on) \subseteq Given /\ Given \subseteq Nat
      BY DEF Answering, Given
    <3>4. Min(Answering(o, rule.on)) \in Answering(o, rule.on)
      BY <3>2, <3>3, MinOfNaturals
    <3> QED BY <2>2, <3>3, <3>4 DEF Consumed
  <2> QED BY <2>1, <2>2
<1>5. obj[o] \in Object
  BY DEF TypeOK, Object
<1>6. Moved(o, rule, now) \in Object
  <2>1. CASE o \in Leases
    <3>1. Moved(o, rule, now) = [obj[o] EXCEPT !.state = rule.to]
      BY <2>1 DEF Moved
    <3> HIDE DEF rule
    <3> QED BY <1>3, <1>5, <3>1 DEF Object
  <2>2. CASE o \notin Leases
    <3>1. Moved(o, rule, now) = [state   |-> rule.to,
                                 since   |-> now,
                                 applied |-> obj[o].applied \cup Consumed(o, rule.on)]
      BY <2>2 DEF Moved
    <3> HIDE DEF rule
    <3> QED BY <1>3, <1>4, <1>5, <3>1 DEF Object
  <2> QED BY <2>1, <2>2
<1> QED BY <1>6

\* Numbering what stands, over the objects as they are.
LEMMA NumberedAsTheyAre ==
  ASSUME TypeOK, Numbered(obj, clock)
  PROVE  /\ RegisterType'
         /\ next <= next'
         /\ \A n \in DOMAIN given : given'[n] = given[n]
<1>1. DOMAIN obj = Objects /\ \A o \in Objects : obj[o].since \in Nat
  BY DEF TypeOK
<1>2. Objects \subseteq Units \cup Leases \cup Nat
  BY DEF Objects, Given
<1>3. clock \in Nat
  BY DEF TypeOK
<1> QED BY <1>1, <1>2, <1>3, ObjectsFinite, NumberingType

\* A tick.
LEMMA TickType ==
  ASSUME TypeOK, NEW scope, NEW seen, NEW step \in Steps, Tick(scope, seen, step)
  PROVE  /\ TypeOK'
         /\ \A n \in DOMAIN given : given'[n] = given[n]
<1> DEFINE now == clock + step
<1>1. now \in Nat /\ clock' = now /\ said' = said /\ Numbered(obj', now)
  BY RailAssumption DEF TypeOK, Tick
<1>2. Given' = Given /\ Objects' = Objects
  BY <1>1 DEF Given, Objects
<1>3. obj' \in [Objects -> Object]
  <2>1. \A o \in Objects : obj[o] \in Object
    BY DEF TypeOK, Object
  <2>2. \A o \in Objects : Fires(o, seen, now) => Moved(o, Fired(o, seen, now), now) \in Object
    BY <1>1, MovedType
  <2> QED BY <2>1, <2>2 DEF Tick
<1>4. DOMAIN obj' = Objects /\ \A o \in Objects : obj'[o].since \in Nat
  BY <1>3 DEF Object
<1>5. Objects \subseteq Units \cup Leases \cup Nat
  BY DEF Objects, Given
<1>6. RegisterType' /\ \A n \in DOMAIN given : given'[n] = given[n]
  BY <1>1, <1>4, <1>5, ObjectsFinite, NumberingType
<1> QED BY <1>1, <1>2, <1>3, <1>6 DEF TypeOK, RegisterType, Object

\* A response is recorded, and put beside the other objects.
LEMMA SaidType ==
  ASSUME TypeOK, NEW number \in Nat \cup {Never}, NEW object \in Units \cup {Nobody},
         NEW answer \in Answers \cup {"drop"},
         Said(number, object, answer), obj' = WithResponse
  PROVE  /\ said' \in Seq([number : Nat \cup {Never}, object : Units \cup {Nobody},
                            answer : Answers \cup {"drop"}])
         /\ obj' \in [Objects' -> [state : States, since : Nat, applied : SUBSET Given']]
<1> DEFINE Response == [number : Nat \cup {Never}, object : Units \cup {Nobody},
                        answer : Answers \cup {"drop"}]
           response == [number |-> number, object |-> object, answer |-> answer]
<1>1. said \in Seq(Response) /\ response \in Response /\ said' = Append(said, response)
  BY DEF TypeOK, Said
<1>2. said' \in Seq(Response) /\ Len(said') = Len(said) + 1 /\ Len(said) \in Nat
  <2> HIDE DEF Response, response
  <2> QED BY <1>1
<1>3. Given' = Given \cup {Len(said) + 1}
  BY <1>2 DEF Given
<1>4. Objects' = Objects \cup {Len(said) + 1}
  BY <1>3 DEF Objects
<1>5. \A o \in Objects : obj[o] \in [state : States, since : Nat, applied : SUBSET Given']
  BY <1>3 DEF TypeOK
<1>6. [state |-> "given", since |-> clock, applied |-> {}]
        \in [state : States, since : Nat, applied : SUBSET Given']
  BY DEF TypeOK, States, Transitions
<1> QED BY <1>2, <1>4, <1>5, <1>6 DEF WithResponse

-----------------------------------------------------------------------------
(* Every step *)

LEMMA InitType == Init => TypeOK
<1> SUFFICES ASSUME Init PROVE TypeOK
  OBVIOUS
<1>1. Given = {} /\ Objects = Units \cup Leases
  BY DEF Init, Given, Objects
<1>2. said \in Seq([number : Nat \cup {Never}, object : Units \cup {Nobody},
                    answer : Answers \cup {"drop"}])
  BY DEF Init
<1>3. obj \in [Objects -> [state : States, since : Nat, applied : SUBSET Given]]
  BY <1>1 DEF Init, States, Transitions
<1>4. given \in [1..(next - 1) -> Ids]
  BY DEF Init
<1> QED BY <1>2, <1>3, <1>4 DEF Init, TypeOK

LEMMA StepType ==
  ASSUME TypeOK, [Next]_vars
  PROVE  /\ TypeOK'
         /\ \A n \in DOMAIN given : given'[n] = given[n]
<1>1. ASSUME NEW scope, NEW seen, NEW step \in Steps, Tick(scope, seen, step)
      PROVE  TypeOK' /\ \A n \in DOMAIN given : given'[n] = given[n]
  BY <1>1, TickType
<1>2. ASSUME NEW number \in 1..(next - 1), NEW answer \in Answers, Answer(number, answer)
      PROVE  TypeOK' /\ \A n \in DOMAIN given : given'[n] = given[n]
  <2>1. number \in Nat
    BY <1>2 DEF TypeOK
  <2> QED BY <1>2, <2>1, SaidType DEF TypeOK, Answer
<1>3. ASSUME NEW unit \in Units, NEW answer \in Answers, AnswerRow(unit, answer)
      PROVE  TypeOK' /\ \A n \in DOMAIN given : given'[n] = given[n]
  <2>1. RegisterType' /\ \A n \in DOMAIN given : given'[n] = given[n]
    BY <1>3, NumberedAsTheyAre DEF AnswerRow
  <2>2. PICK d \in standing' \cap DOMAIN entries' : Said(entries'[d].number, unit, answer)
    BY <1>3 DEF AnswerRow
  <2>3. entries'[d].number \in Nat
    BY <2>1, <2>2 DEF RegisterType
  <2>4. obj' = WithResponse /\ clock' = clock
    BY <1>3 DEF AnswerRow
  <2> QED BY <2>1, <2>2, <2>3, <2>4, SaidType DEF TypeOK, RegisterType
<1>4. ASSUME Renumber
      PROVE  TypeOK' /\ \A n \in DOMAIN given : given'[n] = given[n]
  BY <1>4, NumberedAsTheyAre DEF Renumber, TypeOK, RegisterType, Objects, Given
<1>5. ASSUME NEW unit \in Units, Dictate(unit, "drop")
      PROVE  TypeOK' /\ \A n \in DOMAIN given : given'[n] = given[n]
  BY <1>5, SaidType DEF TypeOK, Dictate
<1>6. ASSUME UNCHANGED vars
      PROVE  TypeOK' /\ \A n \in DOMAIN given : given'[n] = given[n]
  BY <1>6 DEF vars, TypeOK, Objects, Given
<1> QED BY <1>1, <1>2, <1>3, <1>4, <1>5, <1>6 DEF Next

\* The register, the objects and the responses keep their types, and every
\* number from 1 up to the counter has been given to a decision.
THEOREM RailTypesHold == Spec => []TypeOK
<1>1. TypeOK /\ [Next]_vars => TypeOK'
  BY StepType
<1> QED BY InitType, <1>1, PTL DEF Spec

\* A number is never given to a second decision, however many units, leases
\* and batches there are, whatever is retracted and pruned, and however often
\* an object comes back.
THEOREM NumbersAreNeverReused == Spec => NumbersNeverReused
<1>1. TypeOK /\ [Next]_vars => [\A n \in DOMAIN given : given'[n] = given[n]]_vars
  BY StepType
<1> QED BY RailTypesHold, <1>1, PTL DEF Spec, NumbersNeverReused

-----------------------------------------------------------------------------
(* What stands, and the register that tells it *)

\* An object that waits for an answer.
Decides(object) == object.state \in Deciding

\* What a derive owes the objects it was made over: every decision is on an
\* object that waits for an answer, every object that waits has one, a card has
\* no two, and the decision of an object alone is of the point it entered at.
Founded(decisions, objects) ==
  /\ \A d \in decisions : \E o \in DOMAIN objects : Decides(objects[o]) /\ Card(o) = d.of
  /\ \A o \in DOMAIN objects : Decides(objects[o]) => \E d \in decisions : d.of = Card(o)
  /\ \A d, e \in decisions : d.of = e.of => d = e
  /\ \A d \in decisions : d.of \notin Batches => d.since = objects[d.of].since

\* The inductive invariant: without the first part a fold might find no entry,
\* or several, when it is derived again, and without the second a decision
\* that was retracted might be found standing while nothing moved.
RegisterInv == TypeOK /\ EntriesTellWhatStands /\ Founded(standing, obj)

\* The fold a batch is in is the one the register holds with the least number.
LEMMA FoldIsHeld ==
  ASSUME TypeOK, NEW card \in Batches, Held(card) # {}, NEW objects, NEW members
  PROVE  DecisionOn(card, objects, members) \in Held(card)
<1> DEFINE Numbers == {entries[d].number : d \in Held(card)}
<1>1. Held(card) \subseteq DOMAIN entries
  BY DEF Held
<1>2. Numbers \subseteq Nat /\ Numbers # {}
  BY <1>1 DEF TypeOK
<1>3. Min(Numbers) \in Numbers /\ \A y \in Numbers : Min(Numbers) <= y
  <2> HIDE DEF Numbers
  <2> QED BY <1>2, MinOfNaturals
<1>4. PICK d \in Held(card) : entries[d].number = Min(Numbers)
  BY <1>3
<1>5. \A e \in Held(card) : entries[d].number <= entries[e].number
  BY <1>3, <1>4
<1> QED BY <1>5 DEF DecisionOn

\* An object that no batch holds is alone on its card.
LEMMA AloneOnItsCard ==
  ASSUME NEW o \in Units \cup Leases \cup Nat, Card(o) \notin Batches
  PROVE  /\ Card(o) = o
         /\ \A x \in Units \cup Leases \cup Nat : Card(x) = o => x = o
BY RailAssumption DEF Card

\* What a derive finds for a card: the decision is of that card; the decision
\* of an object alone is of the point the object entered at.
LEMMA FoundOn ==
  ASSUME TypeOK, NEW objects, DOMAIN objects \subseteq Units \cup Leases \cup Nat,
         \A o \in DOMAIN objects : objects[o].since \in Nat,
         NEW o \in DOMAIN objects, Decides(objects[o]),
         NEW members,
         members = {x \in {y \in DOMAIN objects : objects[y].state \in Deciding} : Card(x) = Card(o)}
  PROVE  /\ DecisionOn(Card(o), objects, members).of = Card(o)
         /\ Card(o) \notin Batches =>
              /\ Card(o) = o
              /\ DecisionOn(Card(o), objects, members) = [of |-> o, since |-> objects[o].since]
         /\ Card(o) \in Batches /\ Held(Card(o)) # {} =>
              DecisionOn(Card(o), objects, members) \in Held(Card(o))
<1>1. CASE Card(o) \in Batches /\ Held(Card(o)) # {}
  <2>1. DecisionOn(Card(o), objects, members) \in Held(Card(o))
    BY <1>1, FoldIsHeld
  <2> QED BY <1>1, <2>1 DEF Held
<1>2. CASE Card(o) \in Batches /\ Held(Card(o)) = {}
  BY <1>2 DEF DecisionOn
<1>3. CASE Card(o) \notin Batches
  <2>1. Card(o) = o /\ \A x \in Units \cup Leases \cup Nat : Card(x) = o => x = o
    BY <1>3, AloneOnItsCard
  <2>2. members = {o}
    BY <2>1 DEF Decides
  <2>3. {objects[x].since : x \in members} = {objects[o].since}
    BY <2>2
  <2>4. Min({objects[o].since}) = objects[o].since
    BY MinOfNaturals
  <2>5. DecisionOn(Card(o), objects, members) = [of |-> o, since |-> objects[o].since]
    BY <1>3, <2>1, <2>3, <2>4 DEF DecisionOn
  <2> QED BY <1>3, <2>1, <2>5
<1> QED BY <1>1, <1>2, <1>3

\* The decision a derive finds for an object that waits, and what it is.
OnObject(d, o, objects) ==
  /\ d.of = Card(o)
  /\ Card(o) \notin Batches => Card(o) = o /\ d = [of |-> o, since |-> objects[o].since]
  /\ Card(o) \in Batches /\ Held(Card(o)) # {} => d \in Held(Card(o))

LEMMA DecisionsFound ==
  ASSUME TypeOK, NEW objects, DOMAIN objects \subseteq Units \cup Leases \cup Nat,
         \A o \in DOMAIN objects : objects[o].since \in Nat
  PROVE  /\ \A d \in Decisions(objects) :
              \E o \in DOMAIN objects : Decides(objects[o]) /\ OnObject(d, o, objects)
         /\ \A o \in DOMAIN objects : Decides(objects[o]) =>
              \E d \in Decisions(objects) : OnObject(d, o, objects)
         /\ \A d, e \in Decisions(objects) : d.of = e.of => d = e
<1> DEFINE Deciders == {o \in DOMAIN objects : objects[o].state \in Deciding}
           On(card) == {o \in Deciders : Card(o) = card}
           Found(card) == DecisionOn(card, objects, On(card))
<1>1. Decisions(objects) = {Found(card) : card \in {Card(o) : o \in Deciders}}
  BY DEF Decisions
<1>2. ASSUME NEW o \in Deciders
      PROVE  OnObject(Found(Card(o)), o, objects)
  <2>1. o \in DOMAIN objects /\ Decides(objects[o])
    BY DEF Decides
  <2>2. /\ Found(Card(o)).of = Card(o)
        /\ Card(o) \notin Batches =>
             Card(o) = o /\ Found(Card(o)) = [of |-> o, since |-> objects[o].since]
        /\ Card(o) \in Batches /\ Held(Card(o)) # {} => Found(Card(o)) \in Held(Card(o))
    BY <2>1, FoundOn
  <2> QED BY <2>2 DEF OnObject
<1>3. \A d \in Decisions(objects) : \E o \in Deciders : d = Found(Card(o))
  BY <1>1
<1>4. \A o \in Deciders : Found(Card(o)) \in Decisions(objects)
  BY <1>1
<1>5. \A o \in DOMAIN objects : Decides(objects[o]) <=> o \in Deciders
  BY DEF Decides
<1> HIDE DEF Found, Deciders
<1>6. \A d \in Decisions(objects) :
        \E o \in DOMAIN objects : Decides(objects[o]) /\ OnObject(d, o, objects)
  <2> SUFFICES ASSUME NEW d \in Decisions(objects)
               PROVE  \E o \in DOMAIN objects : Decides(objects[o]) /\ OnObject(d, o, objects)
    OBVIOUS
  <2>1. PICK o \in Deciders : d = Found(Card(o))
    BY <1>3
  <2>2. o \in DOMAIN objects /\ Decides(objects[o])
    BY DEF Deciders, Decides
  <2> QED BY <1>2, <2>1, <2>2
<1>7. \A o \in DOMAIN objects : Decides(objects[o]) =>
        \E d \in Decisions(objects) : OnObject(d, o, objects)
  BY <1>2, <1>4, <1>5
<1>8. \A d, e \in Decisions(objects) : d.of = e.of => d = e
  <2> SUFFICES ASSUME NEW d \in Decisions(objects), NEW e \in Decisions(objects), d.of = e.of
               PROVE  d = e
    OBVIOUS
  <2>1. PICK o \in Deciders : d = Found(Card(o))
    BY <1>3
  <2>2. PICK p \in Deciders : e = Found(Card(p))
    BY <1>3
  <2>3. Card(o) = Card(p)
    BY <1>2, <2>1, <2>2 DEF OnObject
  <2> QED BY <2>1, <2>2, <2>3
<1> QED BY <1>6, <1>7, <1>8

\* What is derived is founded on the objects it was derived over.
LEMMA DerivedIsFounded ==
  ASSUME TypeOK, NEW objects, DOMAIN objects \subseteq Units \cup Leases \cup Nat,
         \A o \in DOMAIN objects : objects[o].since \in Nat
  PROVE  Founded(Decisions(objects), objects)
<1>1. \A d \in Decisions(objects) :
        \E o \in DOMAIN objects : Decides(objects[o]) /\ OnObject(d, o, objects)
  BY DecisionsFound
<1>2. \A o \in DOMAIN objects : Decides(objects[o]) =>
        \E d \in Decisions(objects) : OnObject(d, o, objects)
  BY DecisionsFound
<1>3. \A d, e \in Decisions(objects) : d.of = e.of => d = e
  BY DecisionsFound
<1>4. \A d \in Decisions(objects) : d.of \notin Batches => d.since = objects[d.of].since
  BY <1>1 DEF OnObject
<1> QED BY <1>1, <1>2, <1>3, <1>4 DEF Founded, OnObject

-----------------------------------------------------------------------------
(* Numbering what stands *)

\* Numbering keeps the entry of every decision that has one and stands, and
\* where nothing retracted is raised again the register tells what stands.
LEMMA NumberingTells ==
  ASSUME TypeOK, NEW objects, NEW now \in Nat, Numbered(objects, now),
         \A d \in standing' \cap DOMAIN entries : entries[d].gone = Never
  PROVE  /\ EntriesTellWhatStands'
         /\ \A d \in standing' \cap DOMAIN entries :
              d \in DOMAIN entries' /\ entries'[d].number = entries[d].number
<1> DEFINE new  == standing' \ DOMAIN entries
           told == Retracted(standing', now)
<1>1. PICK number :
        entries' = [d \in Kept(told, now) \cup new |->
                      IF d \in new THEN [number |-> number[d], gone |-> Never] ELSE told[d]]
  BY DEF Numbered
<1>2. DOMAIN told = DOMAIN entries /\ Kept(told, now) \subseteq DOMAIN entries
  BY DEF Retracted, Kept
<1>3. ASSUME NEW d \in DOMAIN entries
      PROVE  /\ d \in standing' => told[d] = entries[d]
             /\ d \notin standing' => told[d].gone # Never
  <2>1. entries[d] \in [number : Nat \ {0}, gone : Nat \cup {Never}]
    BY DEF TypeOK
  <2>2. now # Never
    BY DEF Never
  <2> QED BY <2>1, <2>2 DEF Retracted
<1>4. ASSUME NEW d \in standing' \cap DOMAIN entries
      PROVE  d \in Kept(told, now) /\ d \notin new /\ told[d] = entries[d]
  BY <1>2, <1>3 DEF Kept
<1>5. DOMAIN entries' = Kept(told, now) \cup new
  BY <1>1
<1> HIDE DEF told
<1>6. standing' \subseteq DOMAIN entries'
  BY <1>4, <1>5
<1>7. \A d \in DOMAIN entries' : (entries'[d].gone = Never) <=> (d \in standing')
  <2> SUFFICES ASSUME NEW d \in DOMAIN entries'
               PROVE  (entries'[d].gone = Never) <=> (d \in standing')
    OBVIOUS
  <2>1. CASE d \in new
    BY <1>1, <1>5, <2>1
  <2>2. CASE d \notin new
    <3>1. entries'[d] = told[d] /\ d \in DOMAIN entries
      BY <1>1, <1>2, <1>5, <2>2
    <3> QED BY <1>3, <3>1
  <2> QED BY <2>1, <2>2
<1>8. \A d \in standing' \cap DOMAIN entries :
        d \in DOMAIN entries' /\ entries'[d].number = entries[d].number
  BY <1>1, <1>4, <1>5
<1> QED BY <1>6, <1>7, <1>8 DEF EntriesTellWhatStands

\* Whether an object that waits is as it was: it was waiting, for the same.
Rests(objects) ==
  \A o \in DOMAIN objects : Decides(objects[o]) =>
    (o \in DOMAIN obj /\ Decides(obj[o]) => objects[o].since = obj[o].since)

\* A decision that stood and is derived again is the one that stood.
LEMMA DerivedAgain ==
  ASSUME RegisterInv, NEW objects, DOMAIN objects \subseteq Units \cup Leases \cup Nat,
         \A o \in DOMAIN objects : objects[o].since \in Nat,
         Rests(objects), Decisions(objects) \subseteq Ids,
         NEW d \in standing, NEW e \in Decisions(objects), e.of = d.of
  PROVE  e = d
<1>1. PICK o \in DOMAIN objects : Decides(objects[o]) /\ OnObject(e, o, objects)
  BY DecisionsFound DEF RegisterInv
<1>2. d \in Ids /\ e \in Ids /\ d \in DOMAIN entries /\ entries[d].gone = Never
  BY DEF RegisterInv, TypeOK, EntriesTellWhatStands
<1>3. CASE d.of \in Batches
  <2>1. d \in Held(Card(o))
    BY <1>1, <1>2 DEF Held, OnObject
  <2>2. e \in Held(Card(o))
    BY <1>1, <1>3, <2>1 DEF OnObject
  <2>3. e \in standing
    BY <2>2 DEF RegisterInv, EntriesTellWhatStands, Held
  <2> QED BY <2>3 DEF RegisterInv, Founded
<1>4. CASE d.of \notin Batches
  <2>1. Card(o) = o /\ e = [of |-> o, since |-> objects[o].since] /\ d.of = o
    BY <1>1, <1>4 DEF OnObject
  <2>2. PICK x \in DOMAIN obj : Decides(obj[x]) /\ Card(x) = d.of
    BY DEF RegisterInv, Founded
  <2>3. x = o
    <3>1. DOMAIN obj \subseteq Units \cup Leases \cup Nat
      BY DEF RegisterInv, TypeOK, Objects, Given
    <3>2. o \in Units \cup Leases \cup Nat
      OBVIOUS
    <3>3. Card(o) \notin Batches
      BY <1>4, <2>1
    <3> QED BY <2>1, <2>2, <3>1, <3>2, <3>3, AloneOnItsCard
  <2>4. d.since = obj[o].since
    BY <1>4, <2>1 DEF RegisterInv, Founded
  <2>5. objects[o].since = obj[o].since
    BY <1>1, <2>2, <2>3 DEF Rests
  <2>6. e.since = objects[o].since
    BY <2>1
  <2> QED BY <1>2, <2>4, <2>5, <2>6 DEF Ids
<1> QED BY <1>3, <1>4

\* Numbering is safe: over objects that rest, and raising nothing retracted, the
\* register tells what stands after it as before, and a decision that stands
\* on keeps its number.
Safe ==
  /\ EntriesTellWhatStands'
  /\ \A d \in standing : (\E e \in standing' : e.of = d.of) =>
       /\ d \in standing' \cap DOMAIN entries \cap DOMAIN entries'
       /\ entries'[d].number = entries[d].number

LEMMA NumberingIsSafe ==
  ASSUME RegisterInv, NEW objects, IsFiniteSet(DOMAIN objects),
         DOMAIN objects \subseteq Units \cup Leases \cup Nat,
         \A o \in DOMAIN objects : objects[o].since \in Nat,
         Rests(objects), NEW now \in Nat, Numbered(objects, now),
         \A d \in standing' \cap DOMAIN entries : entries[d].gone = Never
  PROVE  Safe /\ Founded(standing', objects)
<1>1. TypeOK /\ standing' = Decisions(objects)
  BY DEF RegisterInv, Numbered
<1>2. Decisions(objects) \subseteq Ids
  BY <1>1, DecisionsType
<1>3. /\ EntriesTellWhatStands'
      /\ \A d \in standing' \cap DOMAIN entries :
           d \in DOMAIN entries' /\ entries'[d].number = entries[d].number
  BY <1>1, NumberingTells
<1>4. \A d \in standing : (\E e \in standing' : e.of = d.of) => d \in standing'
  <2> SUFFICES ASSUME NEW d \in standing, NEW e \in standing', e.of = d.of
               PROVE  d \in standing'
    OBVIOUS
  <2>1. e \in Decisions(objects)
    BY <1>1
  <2>2. e = d
    BY <1>2, <2>1, DerivedAgain
  <2> QED BY <2>2
<1>5. \A d \in standing : d \in DOMAIN entries
  BY DEF RegisterInv, EntriesTellWhatStands
<1>6. Founded(standing', objects)
  BY <1>1, DerivedIsFounded
<1> QED BY <1>3, <1>4, <1>5, <1>6 DEF Safe

\* Numbering over the objects as they are raises nothing retracted: what it
\* derives stood.
LEMMA NothingNewStands ==
  ASSUME RegisterInv, Numbered(obj, clock)
  PROVE  Safe /\ Founded(standing', obj)
<1>1. /\ TypeOK /\ clock \in Nat /\ standing' = Decisions(obj)
      /\ DOMAIN obj \subseteq Units \cup Leases \cup Nat /\ IsFiniteSet(DOMAIN obj)
      /\ \A o \in DOMAIN obj : obj[o].since \in Nat
  BY ObjectsFinite DEF RegisterInv, TypeOK, Objects, Given, Numbered
<1>2. Rests(obj)
  BY DEF Rests
<1>3. Decisions(obj) \subseteq Ids
  BY <1>1, DecisionsType
<1>4. \A e \in standing' : e \in standing
  <2> SUFFICES ASSUME NEW e \in Decisions(obj) PROVE e \in standing
    BY <1>1
  <2>1. PICK o \in DOMAIN obj : Decides(obj[o]) /\ OnObject(e, o, obj)
    BY <1>1, DecisionsFound
  <2>2. PICK d \in standing : d.of = Card(o)
    BY <2>1 DEF RegisterInv, Founded
  <2>3. e.of = d.of
    BY <2>1, <2>2 DEF OnObject
  <2>4. e = d
    BY <1>1, <1>2, <1>3, <2>3, DerivedAgain
  <2> QED BY <2>4
<1>5. \A d \in standing' \cap DOMAIN entries : entries[d].gone = Never
  BY <1>4 DEF RegisterInv, EntriesTellWhatStands
<1> QED BY <1>1, <1>2, <1>5, NumberingIsSafe

\* An answer or an event takes an object out of the state it was asked in.
LEMMA MovesLeaveDeciding ==
  ASSUME NEW state \in Deciding, NEW j \in DOMAIN Rules(state)
  PROVE  Rules(state)[j].to \notin Deciding
BY DEF Rules, Transitions, Deciding

LEMMA TickRests ==
  ASSUME TypeOK, NEW scope, NEW seen, NEW step \in Steps, Tick(scope, seen, step)
  PROVE  Rests(obj')
<1> DEFINE now == clock + step
<1> SUFFICES ASSUME NEW o \in Objects, Decides(obj'[o]), Decides(obj[o])
             PROVE  obj'[o].since = obj[o].since
  BY DEF Rests, Tick, TypeOK
<1>1. CASE Fires(o, seen, now) /\ o \in scope
  <2>1. Open(o, seen, now) \subseteq Nat /\ Open(o, seen, now) # {}
    BY <1>1 DEF Fires, Open, Rules, Transitions
  <2>2. Min(Open(o, seen, now)) \in DOMAIN Rules(obj[o].state)
    BY <2>1, MinOfNaturals DEF Open
  <2>3. Fired(o, seen, now).to \notin Deciding
    BY <2>2, MovesLeaveDeciding DEF Fired, Decides
  <2>4. obj'[o] = Moved(o, Fired(o, seen, now), now)
    BY <1>1 DEF Tick
  <2>5. obj'[o].state = Fired(o, seen, now).to
    <3>1. obj[o] \in Object
      BY DEF TypeOK, Object
    <3> DEFINE rule == Fired(o, seen, now)
    <3>2. obj'[o] = Moved(o, rule, now)
      BY <2>4
    <3>3. obj'[o].state = rule.to
      <4> HIDE DEF rule
      <4> QED BY <3>1, <3>2 DEF Moved, Object
    <3> QED BY <3>3
  <2> QED BY <2>3, <2>5 DEF Decides
<1>2. CASE ~ (Fires(o, seen, now) /\ o \in scope)
  BY <1>2 DEF Tick
<1> QED BY <1>1, <1>2

\* A response put beside the objects asks for nothing yet.
LEMMA ResponseAsksNothing ==
  ASSUME TypeOK, NEW decisions, Founded(decisions, obj)
  PROVE  Founded(decisions, WithResponse)
<1> DEFINE n == Len(said) + 1
<1>1. DOMAIN obj = Objects /\ Objects \subseteq Units \cup Leases \cup Nat
  BY DEF TypeOK, Objects, Given
<1>2. /\ DOMAIN WithResponse = Objects \cup {n}
      /\ \A o \in Objects : WithResponse[o] = obj[o]
      /\ n \notin Objects => WithResponse[n] = [state |-> "given", since |-> clock, applied |-> {}]
  BY DEF WithResponse
<1>3. n \notin Objects
  <2>1. Len(said) \in Nat
    BY DEF TypeOK
  <2>2. n \in Nat /\ n \notin Given
    BY <2>1 DEF Given
  <2> QED BY <2>2, RailAssumption DEF Objects
<1>4. ~ Decides(WithResponse[n])
  BY <1>2, <1>3 DEF Decides, Deciding
<1> HIDE DEF n
<1>5. \A d \in decisions :
        \E o \in DOMAIN WithResponse : Decides(WithResponse[o]) /\ Card(o) = d.of
  BY <1>1, <1>2 DEF Founded
<1>6. \A o \in DOMAIN WithResponse : Decides(WithResponse[o]) =>
        \E d \in decisions : d.of = Card(o)
  BY <1>1, <1>2, <1>4 DEF Founded
<1>7. \A d \in decisions : d.of \notin Batches => d.since = WithResponse[d.of].since
  <2> SUFFICES ASSUME NEW d \in decisions, d.of \notin Batches
               PROVE  d.since = WithResponse[d.of].since
    OBVIOUS
  <2>1. PICK o \in Objects : Card(o) = d.of
    BY <1>1 DEF Founded
  <2>2. d.of = o
    BY <1>1, <2>1, AloneOnItsCard
  <2> QED BY <1>2, <2>2 DEF Founded
<1> QED BY <1>5, <1>6, <1>7 DEF Founded

LEMMA InitRegister == Init => RegisterInv
<1> SUFFICES ASSUME Init PROVE RegisterInv
  OBVIOUS
<1>1. \A o \in DOMAIN obj : ~ Decides(obj[o])
  BY DEF Init, Decides, Deciding
<1>2. Founded(standing, obj)
  BY <1>1 DEF Founded, Init
<1>3. EntriesTellWhatStands
  BY DEF Init, EntriesTellWhatStands
<1> QED BY <1>2, <1>3, InitType DEF RegisterInv

LEMMA StepRegister ==
  ASSUME RaisedAgain = FALSE, RegisterInv, [Next]_vars
  PROVE  RegisterInv' /\ Safe
<1>1. TypeOK /\ TypeOK'
  BY StepType DEF RegisterInv
<1>2. ASSUME NEW scope, NEW seen, NEW step \in Steps, Tick(scope, seen, step)
      PROVE  Safe /\ Founded(standing', obj')
  <2>1. Rests(obj')
    BY <1>1, <1>2, TickRests
  <2>2. clock + step \in Nat /\ Numbered(obj', clock + step)
    BY <1>1, <1>2, RailAssumption DEF TypeOK, Tick
  <2>3. \A d \in standing' \cap DOMAIN entries : entries[d].gone = Never
    BY <1>2 DEF Tick
  <2>4. /\ DOMAIN obj' \subseteq Units \cup Leases \cup Nat /\ IsFiniteSet(DOMAIN obj')
        /\ \A o \in DOMAIN obj' : obj'[o].since \in Nat
    <3>1. DOMAIN obj' = Objects
      BY <1>2 DEF Tick
    <3>2. Objects' = Objects
      BY <1>2 DEF Tick, Objects, Given
    <3>3. \A o \in Objects : obj'[o].since \in Nat
      BY <1>1, <3>2 DEF TypeOK
    <3> QED BY <1>1, <3>1, <3>3, ObjectsFinite DEF Objects, Given
  <2> QED BY <2>1, <2>2, <2>3, <2>4, NumberingIsSafe
<1>3. ASSUME obj' = WithResponse, UNCHANGED <<entries, standing>>
      PROVE  Safe /\ Founded(standing', obj')
  <2>1. Safe
    BY <1>3 DEF RegisterInv, Safe, EntriesTellWhatStands
  <2>2. Founded(standing, WithResponse)
    BY <1>1, ResponseAsksNothing DEF RegisterInv
  <2> QED BY <1>3, <2>1, <2>2
<1>4. ASSUME NEW unit \in Units, NEW answer \in Answers, AnswerRow(unit, answer)
      PROVE  Safe /\ Founded(standing', obj')
  <2>1. Numbered(obj, clock) /\ obj' = WithResponse
    BY <1>4 DEF AnswerRow
  <2>2. Safe /\ Founded(standing', obj)
    BY <2>1, NothingNewStands
  <2> QED BY <1>1, <2>1, <2>2, ResponseAsksNothing
<1>5. ASSUME Renumber
      PROVE  Safe /\ Founded(standing', obj')
  BY <1>5, NothingNewStands DEF Renumber
<1>6. ASSUME UNCHANGED vars
      PROVE  Safe /\ Founded(standing', obj')
  BY <1>6 DEF vars, RegisterInv, Safe, EntriesTellWhatStands
<1>7. Safe /\ Founded(standing', obj')
  <2>1. \A number, answer : Answer(number, answer) => Safe /\ Founded(standing', obj')
    BY <1>3 DEF Answer
  <2>2. \A unit : Dictate(unit, "drop") => Safe /\ Founded(standing', obj')
    BY <1>3 DEF Dictate
  <2> QED BY <1>2, <1>4, <1>5, <1>6, <2>1, <2>2 DEF Next
<1> QED BY <1>1, <1>7 DEF RegisterInv, Safe

\* A decision keeps its number for as long as it stands, and a fold for as long
\* as any object of its batch stands in it, whichever leaves first and whoever
\* derives the rail.
THEOREM NumbersAreKept ==
  ASSUME RaisedAgain = FALSE
  PROVE  Spec => NumberKept
<1>1. RegisterInv /\ [Next]_vars => RegisterInv'
  BY StepRegister
<1>2. RegisterInv /\ [Next]_vars =>
        [\A d \in standing : (\E e \in standing' : e.of = d.of) =>
           /\ d \in standing' \cap DOMAIN entries \cap DOMAIN entries'
           /\ entries'[d].number = entries[d].number]_vars
  BY StepRegister DEF Safe
<1> QED BY InitRegister, <1>1, <1>2, PTL DEF Spec, NumberKept

-----------------------------------------------------------------------------
(* The letters of a fold's rows *)

\* Of two chores one is counted after the other, and its letter counts it.
LEMMA LaterLetter ==
  ASSUME NEW S, S \subseteq Units, NEW u \in S, NEW v \in S,
         NEW i \in DOMAIN IdOrder, NEW j \in DOMAIN IdOrder,
         IdOrder[i] = u, IdOrder[j] = v, i < j
  PROVE  Cardinality({w \in S : UpTo(w, u)}) # Cardinality({w \in S : UpTo(w, v)})
<1> DEFINE A == {w \in S : UpTo(w, u)}
           B == {w \in S : UpTo(w, v)}
<1>1. /\ IdOrder \in [1..Cardinality(Units) -> Units]
      /\ \A k, l \in DOMAIN IdOrder : IdOrder[k] = IdOrder[l] => k = l
  BY CardsAssumption DEF Bijection, Injection, IsInjective
<1>2. DOMAIN IdOrder \subseteq Int
  BY <1>1
<1>3. \A w \in A : w \in B
  <2> SUFFICES ASSUME NEW w \in S, UpTo(w, u) PROVE UpTo(w, v)
    OBVIOUS
  <2>1. PICK k, l \in DOMAIN IdOrder : k <= l /\ IdOrder[k] = w /\ IdOrder[l] = u
    BY DEF UpTo
  <2>2. l = i /\ k <= j
    <3>1. l = i
      BY <1>1, <2>1
    <3>2. k \in Int /\ i \in Int /\ j \in Int
      BY <1>2, <2>1
    <3> QED BY <2>1, <3>1, <3>2
  <2> QED BY <2>1, <2>2 DEF UpTo
<1>4. v \in B
  <2>1. j <= j
    BY <1>2
  <2> QED BY <2>1 DEF UpTo
<1>5. v \notin A
  <2> SUFFICES ASSUME UpTo(v, u) PROVE FALSE
    OBVIOUS
  <2>1. PICK k, l \in DOMAIN IdOrder : k <= l /\ IdOrder[k] = v /\ IdOrder[l] = u
    BY DEF UpTo
  <2>2. k = j /\ l = i
    BY <1>1, <2>1
  <2> QED BY <1>2, <2>1, <2>2
<1>6. IsFiniteSet(B)
  <2>1. B \in SUBSET Units
    OBVIOUS
  <2> QED BY <2>1, RailAssumption, FS_Subset
<1>7. A \in SUBSET B /\ A # B
  BY <1>3, <1>4, <1>5
<1> HIDE DEF A, B
<1>8. Cardinality(A) # Cardinality(B)
  BY <1>6, <1>7, FS_Subset
<1> QED BY <1>8 DEF A, B

LEMMA LettersDiffer ==
  ASSUME NEW S, S \subseteq Units, NEW u \in S, NEW v \in S,
         Cardinality({w \in S : UpTo(w, u)}) = Cardinality({w \in S : UpTo(w, v)})
  PROVE  u = v
<1>1. /\ DOMAIN IdOrder \subseteq Int
      /\ \A x \in Units : \E i \in DOMAIN IdOrder : IdOrder[i] = x
  BY CardsAssumption DEF Bijection, Surjection
<1>2. PICK i \in DOMAIN IdOrder : IdOrder[i] = u
  BY <1>1
<1>3. PICK j \in DOMAIN IdOrder : IdOrder[j] = v
  BY <1>1
<1>4. i < j \/ j < i \/ i = j
  BY <1>1
<1> QED BY <1>2, <1>3, <1>4, LaterLetter

\* Every entry's number was given to its decision, and nothing is later than
\* the clock.
Linked ==
  \A d \in DOMAIN entries :
    entries[d].number \in DOMAIN given /\ given[entries[d].number] = d
InTime ==
  /\ \A o \in Objects : obj[o].since <= clock
  /\ \A d \in standing : d.since <= clock

LettersInv == RegisterInv /\ Linked /\ InTime

\* Numbering gives each new entry a number of its own, and leaves the others
\* theirs.
LEMMA NumberingLinks ==
  ASSUME TypeOK, Linked, NEW objects, NEW now \in Nat, Numbered(objects, now),
         IsFiniteSet(standing')
  PROVE  Linked'
<1> DEFINE new     == standing' \ DOMAIN entries
           numbers == Counter..(Counter + Cardinality(new) - 1)
           told    == Retracted(standing', now)
<1>1. PICK number \in Bijection(new, numbers) :
        /\ entries' = [d \in Kept(told, now) \cup new |->
                         IF d \in new THEN [number |-> number[d], gone |-> Never] ELSE told[d]]
        /\ given' = [n \in DOMAIN given \cup numbers |->
                       IF n \in numbers THEN CHOOSE d \in new : number[d] = n ELSE given[n]]
  BY DEF Numbered
<1>2. \A n \in numbers : n \notin DOMAIN given
  <2>1. next \in Nat /\ DOMAIN given = 1..(next - 1)
    BY DEF TypeOK
  <2>2. new \in SUBSET standing'
    OBVIOUS
  <2>3. Cardinality(new) \in Nat
    BY <2>2, FS_Subset, FS_CardinalityType
  <2> QED BY <2>1, <2>3 DEF Counter
<1>3. /\ number \in [new -> numbers]
      /\ \A d, e \in new : number[d] = number[e] => d = e
  BY <1>1 DEF Bijection, Injection, IsInjective
<1>4. DOMAIN told = DOMAIN entries /\ Kept(told, now) \subseteq DOMAIN entries
  BY DEF Retracted, Kept
<1>5. \A d \in DOMAIN entries : told[d].number = entries[d].number
  <2> SUFFICES ASSUME NEW d \in DOMAIN entries
               PROVE  told[d].number = entries[d].number
    OBVIOUS
  <2>1. entries[d] \in [number : Nat \ {0}, gone : Nat \cup {Never}]
    BY DEF TypeOK
  <2> QED BY <2>1 DEF Retracted
<1> HIDE DEF new, numbers, told
<1> SUFFICES ASSUME NEW d \in DOMAIN entries'
             PROVE  entries'[d].number \in DOMAIN given' /\ given'[entries'[d].number] = d
  BY DEF Linked
<1>6. CASE d \in new
  <2>1. entries'[d].number = number[d] /\ number[d] \in numbers
    BY <1>1, <1>3, <1>6
  <2>2. given'[number[d]] = CHOOSE e \in new : number[e] = number[d]
    BY <1>1, <2>1
  <2>3. (CHOOSE e \in new : number[e] = number[d]) = d
    BY <1>3, <1>6
  <2> QED BY <1>1, <2>1, <2>2, <2>3
<1>7. CASE d \notin new
  <2>1. entries'[d] = told[d] /\ d \in DOMAIN entries
    BY <1>1, <1>4, <1>7
  <2>2. entries'[d].number = entries[d].number /\ entries[d].number \in DOMAIN given
    BY <1>5, <2>1 DEF Linked
  <2>3. entries[d].number \notin numbers /\ given[entries[d].number] = d
    BY <1>2, <2>1, <2>2 DEF Linked
  <2> QED BY <1>1, <2>2, <2>3
<1> QED BY <1>6, <1>7

\* A decision is raised when an object entered its state, or stood already.
LEMMA DerivedInTime ==
  ASSUME RegisterInv, NEW now \in Nat, \A d \in standing : d.since <= now,
         NEW objects, \A o \in DOMAIN objects : objects[o].since \in Nat /\ objects[o].since <= now,
         NEW d \in Decisions(objects)
  PROVE  d.since <= now
<1> DEFINE Deciders == {o \in DOMAIN objects : objects[o].state \in Deciding}
           On(card) == {o \in Deciders : Card(o) = card}
<1>1. PICK card \in {Card(o) : o \in Deciders} : d = DecisionOn(card, objects, On(card))
  BY DEF Decisions
<1>2. CASE card \in Batches /\ Held(card) # {}
  <2>1. d \in Held(card)
    BY <1>1, <1>2, FoldIsHeld DEF RegisterInv
  <2>2. d \in standing
    BY <2>1 DEF Held, RegisterInv, EntriesTellWhatStands
  <2> QED BY <2>2
<1>3. CASE ~ (card \in Batches /\ Held(card) # {})
  <2> DEFINE Raised == {objects[o].since : o \in On(card)}
  <2>1. On(card) # {} /\ On(card) \subseteq DOMAIN objects
    BY <1>1
  <2>2. Raised # {} /\ Raised \subseteq Nat /\ \A n \in Raised : n <= now
    BY <2>1
  <2>3. d.since = Min(Raised)
    BY <1>1, <1>3 DEF DecisionOn
  <2> HIDE DEF Raised
  <2> QED BY <2>2, <2>3, MinOfNaturals
<1> QED BY <1>2, <1>3

\* A tick moves nothing back in time.
LEMMA TickInTime ==
  ASSUME TypeOK, \A x \in Objects : obj[x].since <= clock,
         NEW scope, NEW seen, NEW step \in Steps, Tick(scope, seen, step),
         NEW o \in Objects
  PROVE  obj'[o].since <= clock' /\ (obj'[o] = obj[o] \/ obj'[o].since = clock' \/ o \in Leases)
<1> DEFINE now == clock + step
           rule == Fired(o, seen, now)
<1>1. clock' = now /\ clock <= now /\ now \in Nat /\ clock \in Nat
  BY RailAssumption DEF Tick, TypeOK
<1>2. obj[o].since <= clock /\ obj[o].since \in Nat /\ obj[o] \in Object
  BY DEF TypeOK, Object
<1>3. obj'[o] = obj[o] \/ obj'[o] = Moved(o, rule, now)
  BY DEF Tick
<1> HIDE DEF rule, now
<1>4. CASE obj'[o] = obj[o]
  BY <1>1, <1>2, <1>4
<1>5. CASE obj'[o] = Moved(o, rule, now) /\ o \in Leases
  <2>1. obj'[o].since = obj[o].since
    BY <1>2, <1>5 DEF Moved, Object
  <2> QED BY <1>1, <1>2, <1>5, <2>1
<1>6. CASE obj'[o] = Moved(o, rule, now) /\ o \notin Leases
  <2>1. obj'[o].since = now
    BY <1>6 DEF Moved
  <2> QED BY <1>1, <2>1
<1> QED BY <1>3, <1>4, <1>5, <1>6

LEMMA StepLetters ==
  ASSUME RaisedAgain = FALSE, LettersInv, [Next]_vars
  PROVE  LettersInv'
<1>1. RegisterInv /\ RegisterInv' /\ TypeOK /\ TypeOK' /\ Linked /\ InTime
  BY StepRegister DEF LettersInv, RegisterInv
<1>2. /\ DOMAIN obj = Objects /\ DOMAIN obj' = Objects'
      /\ DOMAIN obj \subseteq Units \cup Leases \cup Nat /\ IsFiniteSet(DOMAIN obj)
      /\ \A o \in DOMAIN obj : obj[o].since \in Nat /\ obj[o].since <= clock
      /\ clock \in Nat
  BY <1>1, ObjectsFinite DEF TypeOK, InTime, Objects, Given
<1>3. ASSUME NEW scope, NEW seen, NEW step \in Steps, Tick(scope, seen, step)
      PROVE  LettersInv'
  <2>1. /\ Objects' = Objects /\ clock + step \in Nat /\ clock' = clock + step
        /\ Numbered(obj', clock + step) /\ clock <= clock'
    BY <1>1, <1>3, RailAssumption DEF Tick, TypeOK, Objects, Given
  <2>2. \A o \in DOMAIN obj' : obj'[o].since \in Nat /\ obj'[o].since <= clock'
    BY <1>1, <1>2, <1>3, <2>1, TickInTime DEF TypeOK, InTime
  <2>3. standing' = Decisions(obj') /\ IsFiniteSet(standing')
    BY <1>1, <1>2, <2>1, <2>2, DecisionsType DEF Numbered
  <2>4. Linked'
    BY <1>1, <2>1, <2>3, NumberingLinks
  <2>5. \A d \in standing : d.since <= clock'
    <3>1. \A d \in standing : d.since \in Nat /\ d.since <= clock
      BY <1>1 DEF InTime, TypeOK, Ids
    <3> QED BY <1>2, <2>1, <3>1
  <2>6. \A d \in standing' : d.since <= clock'
    BY <1>1, <2>1, <2>2, <2>3, <2>5, DerivedInTime
  <2> QED BY <1>1, <1>2, <2>2, <2>4, <2>6 DEF LettersInv, InTime
<1>4. ASSUME obj' = WithResponse
      PROVE  \A o \in Objects' : obj'[o].since <= clock
  BY <1>2, <1>4 DEF WithResponse
<1>5. ASSUME Numbered(obj, clock)
      PROVE  Linked' /\ \A d \in standing' : d.since <= clock
  <2>1. standing' = Decisions(obj) /\ IsFiniteSet(standing')
    BY <1>1, <1>2, <1>5, DecisionsType DEF Numbered
  <2>2. Linked'
    BY <1>1, <1>2, <1>5, <2>1, NumberingLinks
  <2>3. \A d \in standing' : d.since <= clock
    BY <1>1, <1>2, <2>1, DerivedInTime DEF InTime
  <2> QED BY <2>2, <2>3
<1>6. ASSUME obj' = WithResponse, UNCHANGED <<entries, standing, given, clock>>
      PROVE  LettersInv'
  BY <1>1, <1>4, <1>6 DEF LettersInv, Linked, InTime
<1>7. ASSUME NEW unit \in Units, NEW answer \in Answers, AnswerRow(unit, answer)
      PROVE  LettersInv'
  <2>1. Numbered(obj, clock) /\ obj' = WithResponse /\ clock' = clock
    BY <1>7 DEF AnswerRow
  <2> QED BY <1>1, <1>4, <1>5, <2>1 DEF LettersInv, InTime
<1>8. CASE Renumber
  <2>1. Numbered(obj, clock) /\ obj' = obj /\ clock' = clock /\ Objects' = Objects
    BY <1>8 DEF Renumber, Objects, Given
  <2> QED BY <1>1, <1>2, <1>5, <2>1 DEF LettersInv, InTime
<1>9. CASE UNCHANGED vars
  BY <1>1, <1>9 DEF vars, LettersInv, Linked, InTime, Objects, Given
<1>10. \A number, answer : Answer(number, answer) => LettersInv'
  BY <1>6 DEF Answer
<1>11. \A unit : Dictate(unit, "drop") => LettersInv'
  BY <1>6 DEF Dictate
<1> QED BY <1>3, <1>7, <1>8, <1>9, <1>10, <1>11 DEF Next

\* A chore that has a row of a fold keeps it: where it leaves the state it was
\* asked in, it does so after the fold was raised.
LEMMA RowsStay ==
  ASSUME TypeOK, TypeOK', InTime, [Next]_vars,
         NEW d, d.since \in Nat, d.since <= clock, NEW u \in RowsOf(d)
  PROVE  u \in RowsOf(d)'
<1>1. /\ u \in Units /\ Batch[u] = d.of /\ obj[u].state # "offered"
      /\ u \in StandingIn(d) \/ obj[u].since >= d.since
  BY DEF RowsOf
<1>2. u \in Objects /\ u \in Objects'
  BY <1>1 DEF Objects
<1>3. ASSUME obj'[u] = obj[u] PROVE u \in RowsOf(d)'
  <2>1. u \in StandingIn(d) => u \in StandingIn(d)'
    BY <1>2, <1>3 DEF StandingIn, Card
  <2> QED BY <1>1, <1>3, <2>1 DEF RowsOf
<1>4. ASSUME NEW scope, NEW seen, NEW step \in Steps, Tick(scope, seen, step),
             obj'[u] # obj[u]
      PROVE  u \in RowsOf(d)'
  <2>1. obj'[u].since = clock' /\ clock <= clock' /\ clock' \in Nat /\ clock \in Nat
    <3>1. u \notin Leases
      BY <1>1, RailAssumption
    <3>2. obj'[u].since = clock'
      BY <1>2, <1>4, <3>1, TickInTime DEF InTime
    <3>3. clock' = clock + step /\ step \in Nat /\ clock \in Nat
      BY <1>4, RailAssumption DEF Tick, TypeOK
    <3> QED BY <3>2, <3>3
  <2>2. obj'[u].since >= d.since
    BY <2>1
  <2>3. obj'[u].state # "offered"
    <3> DEFINE now == clock + step
               rule == Fired(u, seen, now)
    <3>1. Fires(u, seen, now) /\ obj'[u] = Moved(u, rule, now)
      BY <1>2, <1>4 DEF Tick
    <3>2. Open(u, seen, now) \subseteq Nat /\ Open(u, seen, now) # {}
      BY <3>1 DEF Fires, Open, Rules, Transitions
    <3>3. Min(Open(u, seen, now)) \in DOMAIN Rules(obj[u].state)
      BY <3>2, MinOfNaturals DEF Open
    <3>4. \A state : \A j \in DOMAIN Rules(state) : Rules(state)[j].to # "offered"
      BY DEF Rules, Transitions
    <3>5. rule.to # "offered"
      BY <3>3, <3>4 DEF Fired
    <3>6. u \notin Leases
      BY <1>1, RailAssumption
    <3> HIDE DEF rule, now
    <3>7. obj'[u].state = rule.to
      BY <3>1, <3>6 DEF Moved
    <3> QED BY <3>5, <3>7
  <2> QED BY <1>1, <2>2, <2>3 DEF RowsOf
<1>5. obj' = WithResponse => obj'[u] = obj[u]
  BY <1>2 DEF WithResponse
<1>6. CASE UNCHANGED vars
  BY <1>3, <1>6 DEF vars
<1>7. CASE Next
  <2>1. \A number, answer : Answer(number, answer) => u \in RowsOf(d)'
    BY <1>3, <1>5 DEF Answer
  <2>2. \A unit : Dictate(unit, "drop") => u \in RowsOf(d)'
    BY <1>3, <1>5 DEF Dictate
  <2>3. \A unit, answer : AnswerRow(unit, answer) => u \in RowsOf(d)'
    BY <1>3, <1>5 DEF AnswerRow
  <2>4. Renumber => u \in RowsOf(d)'
    BY <1>3 DEF Renumber
  <2> QED BY <1>3, <1>4, <1>7, <2>1, <2>2, <2>3, <2>4 DEF Next
<1> QED BY <1>6, <1>7

\* Of the rows drawn from one set of chores, a letter is one chore's.
LEMMA RowOfALetter ==
  ASSUME NEW R \in SUBSET Units, NEW S, NEW u \in R, NEW k,
         k = Cardinality({w \in R : UpTo(w, u)}),
         NEW r \in {[letter |-> Cardinality({w \in R : UpTo(w, v)}), chore |-> v] : v \in R \cap S},
         r.letter = k
  PROVE  r.chore = u
<1>1. PICK v \in R : r = [letter |-> Cardinality({w \in R : UpTo(w, v)}), chore |-> v]
  OBVIOUS
<1>2. v = u
  BY <1>1, LettersDiffer
<1> QED BY <1>1, <1>2

LEMMA PressedLater ==
  ASSUME LettersInv, LettersInv', [Next]_vars, NEW card \in RailCards, NEW row \in card.rows,
         ~ \E d \in standing : entries[d].number = card.number /\ Joins(d)
  PROVE  RowObject(card.number, row.letter)' \in {row.chore, Nobody}
<1>1. TypeOK /\ TypeOK' /\ InTime /\ Linked /\ Linked' /\ EntriesTellWhatStands /\ EntriesTellWhatStands'
  BY DEF LettersInv, RegisterInv
<1>2. PICK d \in standing : card = CardOf(d)
  BY DEF RailCards
<1>3. row \in ChoreRows(d) /\ card.number = entries[d].number
  BY <1>2 DEF CardOf
<1>4. PICK u \in RowsOf(d) : row = [letter |-> Letter(d, u), chore |-> u]
  BY <1>3 DEF ChoreRows
<1>5. d.since \in Nat /\ d.since <= clock /\ d \in DOMAIN entries
  BY <1>1 DEF TypeOK, Ids, InTime, EntriesTellWhatStands
<1>6. RowsOf(d)' = RowsOf(d)
  <2>1. \A v \in RowsOf(d) : v \in RowsOf(d)'
    BY <1>1, <1>5, RowsStay
  <2>2. ~ Joins(d)
    BY <1>3
  <2> QED BY <2>1, <2>2 DEF Joins
<1>7. Letter(d, u)' = Letter(d, u)
  BY <1>6 DEF Letter, UpTo
<1>8. \A e \in standing' : entries'[e].number = card.number => e = d
  <2> SUFFICES ASSUME NEW e \in standing', entries'[e].number = card.number
               PROVE  e = d
    OBVIOUS
  <2>1. e \in DOMAIN entries' /\ given'[card.number] = e
    BY <1>1 DEF EntriesTellWhatStands, Linked
  <2>2. card.number \in DOMAIN given /\ given[card.number] = d
    BY <1>1, <1>3, <1>5 DEF Linked
  <2>3. given'[card.number] = given[card.number]
    BY <1>1, <2>2, StepType DEF vars
  <2> QED BY <2>1, <2>2, <2>3
<1>9. ASSUME NEW e \in standing', entries'[e].number = card.number,
             NEW r \in ChoreRows(e)', r.letter = row.letter
      PROVE  r.chore = u
  <2>1. e = d
    BY <1>8, <1>9
  <2>2. r \in ChoreRows(d)'
    BY <1>9, <2>1
  <2>3. row.letter = Cardinality({w \in RowsOf(d)' : UpTo(w, u)})
    BY <1>4, <1>6 DEF Letter
  <2>4. r \in {[letter |-> Cardinality({w \in RowsOf(d)' : UpTo(w, v)}), chore |-> v] :
                 v \in RowsOf(d)' \cap StandingIn(d)'}
    BY <2>2 DEF ChoreRows, Letter
  <2>5. RowsOf(d)' \in SUBSET Units /\ u \in RowsOf(d)'
    BY <1>6 DEF RowsOf
  <2> QED BY <1>9, <2>3, <2>4, <2>5, RowOfALetter
<1> DEFINE named == {e \in standing' : entries'[e].number = card.number /\ IsFold(e)'}
           found == {r.chore : r \in {q \in UNION {ChoreRows(e)' : e \in named} :
                                         q.letter = row.letter}}
<1>10. \A v \in found : v = u
  BY <1>9
<1>11. RowObject(card.number, row.letter)'
         = IF found = {} THEN Nobody ELSE CHOOSE v \in found : TRUE
  BY DEF RowObject
<1> HIDE DEF found
<1>12. RowObject(card.number, row.letter)' \in {u, Nobody}
  BY <1>10, <1>11
<1> QED BY <1>4, <1>12

\* At first no number is given and no decision stands.
LEMMA InitLetters == Init => LettersInv
<1> SUFFICES ASSUME Init PROVE LettersInv
  OBVIOUS
<1>1. DOMAIN obj = Units \cup Leases /\ \A o \in DOMAIN obj : obj[o].since = 0
  BY DEF Init
<1>2. RegisterInv
  BY InitRegister
<1>3. DOMAIN obj = Objects
  BY <1>2 DEF RegisterInv, TypeOK
<1>4. clock = 0 /\ standing = {} /\ DOMAIN entries = {}
  BY DEF Init
<1>5. InTime
  BY <1>1, <1>3, <1>4 DEF InTime
<1> QED BY <1>2, <1>4, <1>5 DEF LettersInv, Linked

\* A letter pressed on a card drawn a step ago names the chore it was drawn
\* with, or is refused, as long as no chore joins the fold's rows.
THEOREM LettersStillName ==
  ASSUME RaisedAgain = FALSE
  PROVE  Spec => LetterStillNames
<1>1. LettersInv /\ LettersInv' /\ [Next]_vars =>
        \A card \in RailCards, row \in UNION {c.rows : c \in RailCards} :
          row \in card.rows =>
            \/ RowObject(card.number, row.letter)' \in {row.chore, Nobody}
            \/ \E d \in standing : entries[d].number = card.number /\ Joins(d)
  BY PressedLater
<1>2. LettersInv /\ [Next]_vars => LettersInv'
  BY StepLetters
<1> QED BY InitLetters, <1>1, <1>2, PTL DEF Spec, LetterStillNames

-----------------------------------------------------------------------------
(* What the register tells wherever a decision may be raised again *)

\* An object alone, which waits for an answer once at any point of the clock: a
\* unit that no batch holds, or a response.  A lease keeps the point it was taken
\* at, and a fold is of the point its first object entered at: either may be
\* raised again as the decision that was retracted.
Alone(d) == d.of \notin Batches \cup Leases

\* The states an object alone goes on to once it was asked.  Only a deferred
\* unit comes back from there, a week later.
Past == {"deferred", "approved", "started", "superseded", "dropped", "applied", "reported"}

\* The states of a lease.
Coverage == {"free", "uncovered", "acknowledged"}

UnretractedStand == \A d \in DOMAIN entries : entries[d].gone = Never => d \in standing

StandingAreTold ==
  \A d \in standing : Alone(d) => d \in DOMAIN entries /\ entries[d].gone = Never

\* No entry of an object alone is of a later point than the object, and the
\* object of a retracted one is past it.
Behind(register, objects) ==
  \A d \in DOMAIN register : Alone(d) =>
    /\ d.of \in DOMAIN objects /\ d.since <= objects[d.of].since
    /\ register[d].gone # Never => d.since < objects[d.of].since \/ objects[d.of].state \in Past

Dated == \A o \in Objects : obj[o].since <= clock

InLanes == \A o \in Objects \ Leases : obj[o].state \notin Coverage

TellsInv ==
  /\ TypeOK /\ UnretractedStand /\ StandingAreTold /\ Founded(standing, obj)
  /\ Behind(entries, obj) /\ Dated /\ InLanes

\* What the machines of units and responses do: from a state they are asked in
\* they go past it, and of those past it only a deferred unit comes back.
LEMMA MachinesGoOn ==
  ASSUME NEW state \in States \ Coverage, NEW j \in DOMAIN Rules(state)
  PROVE  LET rule == Rules(state)[j]
         IN  /\ rule.to \notin Coverage
             /\ state \in Deciding => rule.to \in Past
             /\ state \in Past => rule.to \in Past \/ rule.on = "week"
BY DEF States, Coverage, Rules, Transitions, Deciding, Past

\* An object alone that moves in a tick does so by a rule whose guard holds.
LEMMA TickMoves ==
  ASSUME TypeOK, NEW scope, NEW seen, NEW step \in Steps, Tick(scope, seen, step),
         NEW o \in Objects \ Leases, obj'[o] # obj[o]
  PROVE  /\ obj'[o].since = clock'
         /\ \E j \in DOMAIN Rules(obj[o].state) :
              /\ obj'[o].state = Rules(obj[o].state)[j].to
              /\ Holds(o, Rules(obj[o].state)[j].on, seen, clock')
<1> DEFINE now == clock + step
           rule == Fired(o, seen, now)
           j == Min(Open(o, seen, now))
<1>1. Fires(o, seen, now) /\ obj'[o] = Moved(o, rule, now) /\ clock' = now
  BY DEF Tick
<1>2. Open(o, seen, now) \subseteq Nat /\ Open(o, seen, now) # {}
  BY <1>1 DEF Fires, Open, Rules, Transitions
<1>3. j \in Open(o, seen, now)
  BY <1>2, MinOfNaturals
<1>4. j \in DOMAIN Rules(obj[o].state) /\ Holds(o, Rules(obj[o].state)[j].on, seen, now)
  BY <1>3 DEF Open
<1>5. rule = Rules(obj[o].state)[j]
  BY DEF Fired
<1> HIDE DEF rule, now, j
<1>6. obj'[o].state = rule.to /\ obj'[o].since = now
  BY <1>1 DEF Moved
<1> QED BY <1>1, <1>4, <1>5, <1>6

\* A tick takes no object alone back to where its entry is.
LEMMA TickBehind ==
  ASSUME Week > 0, TellsInv, NEW scope, NEW seen, NEW step \in Steps, Tick(scope, seen, step)
  PROVE  /\ Behind(entries, obj')
         /\ \A o \in Objects \ Leases : obj'[o].state \notin Coverage
         /\ \A o \in Objects \ Leases : Decides(obj[o]) =>
              obj'[o] = obj[o] \/ obj'[o].state \in Past
<1>1. /\ TypeOK /\ clock' = clock + step /\ step \in Nat /\ clock \in Nat
      /\ DOMAIN obj = Objects /\ DOMAIN obj' = Objects /\ Week \in Nat
  BY RailAssumption DEF TellsInv, TypeOK, Tick
<1>2. \A o \in Objects \ Leases : /\ obj[o].state \in States \ Coverage /\ obj[o].since \in Nat
                                  /\ obj[o].since <= clock
  BY DEF TellsInv, TypeOK, InLanes, Dated
<1>3. ASSUME NEW o \in Objects \ Leases, obj'[o] # obj[o]
      PROVE  /\ obj'[o].since = clock' /\ obj'[o].state \notin Coverage
             /\ Decides(obj[o]) => obj'[o].state \in Past
             /\ obj[o].state \in Past => obj'[o].state \in Past \/ obj[o].since < clock'
  <2>1. PICK j \in DOMAIN Rules(obj[o].state) :
          /\ obj'[o].state = Rules(obj[o].state)[j].to
          /\ Holds(o, Rules(obj[o].state)[j].on, seen, clock')
    BY <1>1, <1>3, TickMoves
  <2>2. obj'[o].since = clock'
    BY <1>1, <1>3, TickMoves
  <2>3. /\ obj'[o].state \notin Coverage
        /\ obj[o].state \in Deciding => obj'[o].state \in Past
        /\ obj[o].state \in Past => obj'[o].state \in Past \/ Rules(obj[o].state)[j].on = "week"
    BY <1>2, <2>1, MachinesGoOn
  <2>4. Rules(obj[o].state)[j].on = "week" => clock' - obj[o].since >= Week
    BY <2>1 DEF Holds
  <2>5. Rules(obj[o].state)[j].on = "week" => obj[o].since < clock'
    BY <1>1, <1>2, <2>4
  <2> QED BY <2>2, <2>3, <2>5 DEF Decides
<1>4. Behind(entries, obj')
  <2> SUFFICES ASSUME NEW d \in DOMAIN entries, Alone(d)
               PROVE  /\ d.of \in DOMAIN obj' /\ d.since <= obj'[d.of].since
                      /\ entries[d].gone # Never => d.since < obj'[d.of].since \/ obj'[d.of].state \in Past
    BY DEF Behind
  <2> DEFINE o == d.of
  <2>1. /\ o \in Objects \ Leases /\ d.since <= obj[o].since
        /\ entries[d].gone # Never => d.since < obj[o].since \/ obj[o].state \in Past
    BY <1>1 DEF TellsInv, Behind, Alone
  <2>2. d.since \in Nat
    BY DEF TellsInv, TypeOK, Ids
  <2> HIDE DEF o
  <2>3. CASE obj'[o] = obj[o]
    BY <1>1, <2>1, <2>3 DEF o
  <2>4. CASE obj'[o] # obj[o]
    <3>1. /\ obj'[o].since = clock'
          /\ obj[o].state \in Past => obj'[o].state \in Past \/ obj[o].since < clock'
      BY <1>3, <2>1, <2>4
    <3>2. obj[o].since \in Nat /\ obj[o].since <= clock /\ clock <= clock'
      BY <1>1, <1>2, <2>1
    <3>3. d.since <= clock' /\ (d.since < obj[o].since \/ obj[o].since < clock' => d.since < clock')
      BY <1>1, <2>1, <2>2, <3>2
    <3> QED BY <1>1, <2>1, <3>1, <3>3 DEF o
  <2> QED BY <2>3, <2>4
<1>5. \A o \in Objects \ Leases : obj'[o].state \notin Coverage
  BY <1>2, <1>3
<1> QED BY <1>3, <1>4, <1>5

\* Numbering retracts the entry of an object alone where that is past it, and
\* gives one to each that waits: none of them is found retracted.
LEMMA NumberingTellsOfAlone ==
  ASSUME TellsInv, NEW objects, DOMAIN objects = Objects,
         \A o \in Objects : objects[o].since \in Nat,
         NEW now \in Nat, Numbered(objects, now), Behind(entries, objects),
         \A o \in Objects \ Leases : objects[o].state \notin Coverage,
         \A o \in Objects \ Leases : Decides(obj[o]) => objects[o] = obj[o] \/ objects[o].state \in Past
  PROVE  /\ UnretractedStand' /\ StandingAreTold'
         /\ Founded(standing', objects) /\ Behind(entries', objects)
<1> DEFINE new  == standing' \ DOMAIN entries
           told == Retracted(standing', now)
<1>1. /\ TypeOK /\ standing' = Decisions(objects) /\ DOMAIN obj = Objects
      /\ Objects \subseteq Units \cup Leases \cup Nat
  BY DEF TellsInv, Numbered, TypeOK, Objects, Given
<1>2. PICK number :
        entries' = [d \in Kept(told, now) \cup new |->
                      IF d \in new THEN [number |-> number[d], gone |-> Never] ELSE told[d]]
  BY DEF Numbered
<1>3. DOMAIN told = DOMAIN entries /\ Kept(told, now) \subseteq DOMAIN entries
  BY DEF Retracted, Kept
<1>4. ASSUME NEW d \in DOMAIN entries
      PROVE  /\ entries[d].gone # Never \/ d \in standing' => told[d] = entries[d]
             /\ entries[d].gone = Never /\ d \notin standing' => told[d].gone # Never
  <2>1. entries[d] \in [number : Nat \ {0}, gone : Nat \cup {Never}]
    BY <1>1 DEF TypeOK
  <2>2. now # Never
    BY DEF Never
  <2> QED BY <2>1, <2>2 DEF Retracted
<1>5. DOMAIN entries' = Kept(told, now) \cup new
  BY <1>2
<1>6. ASSUME NEW d \in DOMAIN entries'
      PROVE  \/ d \in new /\ entries'[d].gone = Never
             \/ d \in DOMAIN entries /\ entries'[d] = told[d]
  BY <1>2, <1>3, <1>5
<1>7. ASSUME NEW d \in standing', Alone(d)
      PROVE  /\ d.of \in Objects \ Leases /\ d.since = objects[d.of].since
             /\ Decides(objects[d.of])
             /\ d \in DOMAIN entries => entries[d].gone = Never
  <2>1. PICK o \in DOMAIN objects : Decides(objects[o]) /\ OnObject(d, o, objects)
    BY <1>1, DecisionsFound
  <2>2. d.of = o /\ d.since = objects[o].since
    BY <1>7, <2>1 DEF OnObject, Alone
  <2>3. o \in Objects \ Leases
    BY <1>7, <2>2 DEF Alone
  <2>4. objects[o].state \notin Past
    BY <2>1 DEF Decides, Deciding, Past
  <2>5. d \in DOMAIN entries => entries[d].gone = Never
    <3>1. objects[o].since \in Nat
      BY <2>3
    <3> QED BY <1>7, <2>2, <2>4, <3>1 DEF Behind
  <2> QED BY <2>1, <2>2, <2>3, <2>5
<1>8. Founded(standing', objects)
  BY <1>1, DerivedIsFounded
<1> HIDE DEF told
<1>9. UnretractedStand'
  <2> SUFFICES ASSUME NEW d \in DOMAIN entries', entries'[d].gone = Never
               PROVE  d \in standing'
    BY DEF UnretractedStand
  <2> QED BY <1>4, <1>6
<1>10. StandingAreTold'
  <2> SUFFICES ASSUME NEW d \in standing', Alone(d)
               PROVE  d \in DOMAIN entries' /\ entries'[d].gone = Never
    BY DEF StandingAreTold, Alone
  <2>1. CASE d \in new
    BY <1>2, <1>5, <2>1
  <2>2. CASE d \notin new
    <3>1. d \in DOMAIN entries /\ told[d] = entries[d] /\ told[d].gone = Never
      BY <1>4, <1>7, <2>2
    <3>2. d \in Kept(told, now)
      BY <1>3, <3>1 DEF Kept
    <3> QED BY <1>2, <1>5, <2>2, <3>1, <3>2
  <2> QED BY <2>1, <2>2
<1>11. Behind(entries', objects)
  <2> SUFFICES ASSUME NEW d \in DOMAIN entries', Alone(d)
               PROVE  /\ d.of \in DOMAIN objects /\ d.since <= objects[d.of].since
                      /\ entries'[d].gone # Never
                           => d.since < objects[d.of].since \/ objects[d.of].state \in Past
    BY DEF Behind
  <2>1. CASE d \in new
    <3>1. d.of \in Objects /\ d.since = objects[d.of].since /\ objects[d.of].since \in Nat
      BY <1>7, <2>1
    <3>2. entries'[d].gone = Never
      BY <1>2, <1>5, <2>1
    <3> QED BY <3>1, <3>2
  <2>2. CASE d \notin new
    <3>1. d \in DOMAIN entries /\ entries'[d] = told[d]
      BY <1>6, <2>2
    <3>2. /\ d.of \in Objects \ Leases /\ d.since <= objects[d.of].since
          /\ entries[d].gone # Never => d.since < objects[d.of].since \/ objects[d.of].state \in Past
      BY <3>1 DEF Behind, Alone
    <3>3. CASE entries[d].gone # Never \/ d \in standing'
      BY <1>4, <3>1, <3>2, <3>3
    <3>4. CASE entries[d].gone = Never /\ d \notin standing'
      <4>1. d \in standing
        BY <3>1, <3>4 DEF TellsInv, UnretractedStand
      <4>2. d.since = obj[d.of].since
        BY <4>1 DEF TellsInv, Founded, Alone
      <4>3. PICK x \in Objects : Decides(obj[x]) /\ Card(x) = d.of
        BY <1>1, <4>1 DEF TellsInv, Founded
      <4>4. x = d.of /\ Card(x) = x
        BY <1>1, <4>3, AloneOnItsCard DEF Alone
      <4>5. ASSUME objects[x] = obj[x]
            PROVE  FALSE
        <5>1. x \in DOMAIN objects /\ Decides(objects[x]) /\ Card(x) \notin Batches
          BY <4>3, <4>4, <4>5 DEF Alone
        <5>2. PICK e \in Decisions(objects) : OnObject(e, x, objects)
          BY <1>1, <5>1, DecisionsFound
        <5>3. e = [of |-> x, since |-> objects[x].since]
          BY <5>1, <5>2 DEF OnObject
        <5>4. d \in Ids
          BY <1>1, <3>1 DEF TypeOK
        <5>5. d = e
          BY <4>2, <4>4, <4>5, <5>3, <5>4 DEF Ids
        <5> QED BY <1>1, <3>4, <5>2, <5>5
      <4>6. objects[d.of].state \in Past
        BY <3>2, <4>3, <4>4, <4>5
      <4> QED BY <3>2, <4>6
    <3> QED BY <3>3, <3>4
  <2> QED BY <2>1, <2>2
<1> QED BY <1>8, <1>9, <1>10, <1>11

LEMMA InitTells == Init => TellsInv
<1> SUFFICES ASSUME Init PROVE TellsInv
  OBVIOUS
<1>1. DOMAIN obj = Units \cup Leases /\ \A o \in DOMAIN obj : obj[o].since = 0 /\ obj[o].applied = {}
  BY DEF Init
<1>2. RegisterInv /\ Objects = DOMAIN obj
  BY InitRegister DEF RegisterInv, TypeOK
<1>3. clock = 0 /\ standing = {} /\ DOMAIN entries = {}
  BY DEF Init
<1>4. InLanes
  BY <1>1, <1>2 DEF InLanes, Init, Coverage
<1>5. Dated
  BY <1>1, <1>2, <1>3 DEF Dated
<1> QED BY <1>2, <1>3, <1>4, <1>5
        DEF TellsInv, RegisterInv, UnretractedStand, StandingAreTold, Behind

\* A response put beside the objects leaves the register as true as it was.
LEMMA ResponseTells ==
  ASSUME TypeOK, Dated, InLanes, obj' = WithResponse, Objects' = DOMAIN WithResponse,
         clock' = clock, NEW register, Behind(register, obj)
  PROVE  Behind(register, obj') /\ Dated' /\ InLanes'
<1> DEFINE n == Len(said) + 1
<1>1. /\ DOMAIN obj = Objects /\ DOMAIN obj' = Objects \cup {n} /\ Objects' = Objects \cup {n}
      /\ \A o \in Objects : obj'[o] = obj[o]
      /\ n \notin Objects => obj'[n] = [state |-> "given", since |-> clock, applied |-> {}]
      /\ clock \in Nat
  BY DEF TypeOK, WithResponse
<1> HIDE DEF n
<1>2. Behind(register, obj')
  BY <1>1 DEF Behind
<1>3. \A o \in Objects' : obj'[o].since <= clock'
  BY <1>1 DEF Dated
<1>4. \A o \in Objects' \ Leases : obj'[o].state \notin Coverage
  BY <1>1 DEF InLanes, Coverage
<1> QED BY <1>2, <1>3, <1>4 DEF Dated, InLanes

LEMMA StepTells ==
  ASSUME Week > 0, TellsInv, [Next]_vars
  PROVE  TellsInv'
<1>1. TypeOK /\ TypeOK'
  BY StepType DEF TellsInv
<1>2. /\ DOMAIN obj = Objects /\ DOMAIN obj' = Objects' /\ clock \in Nat
      /\ \A o \in Objects : obj[o].since \in Nat
  BY <1>1 DEF TypeOK
<1>3. ASSUME NEW scope, NEW seen, NEW step \in Steps, Tick(scope, seen, step)
      PROVE  TellsInv'
  <2>1. /\ Objects' = Objects /\ clock + step \in Nat /\ clock' = clock + step
        /\ Numbered(obj', clock + step)
    BY <1>2, <1>3, RailAssumption DEF Tick, Objects, Given
  <2>2. \A o \in Objects : obj'[o].since \in Nat
    BY <1>1, <2>1 DEF TypeOK
  <2>3. /\ Behind(entries, obj')
        /\ \A o \in Objects \ Leases : obj'[o].state \notin Coverage
        /\ \A o \in Objects \ Leases : Decides(obj[o]) => obj'[o] = obj[o] \/ obj'[o].state \in Past
    BY <1>3, TickBehind
  <2>4. /\ UnretractedStand' /\ StandingAreTold'
        /\ Founded(standing', obj') /\ Behind(entries', obj')
    BY <1>2, <2>1, <2>2, <2>3, NumberingTellsOfAlone
  <2>5. Dated'
    BY <1>1, <1>3, <2>1, TickInTime DEF TellsInv, Dated
  <2> QED BY <1>1, <2>1, <2>3, <2>4, <2>5 DEF TellsInv, InLanes
<1>4. ASSUME Numbered(obj, clock)
      PROVE  /\ UnretractedStand' /\ StandingAreTold'
             /\ Founded(standing', obj) /\ Behind(entries', obj)
  BY <1>2, <1>4, NumberingTellsOfAlone DEF TellsInv, InLanes
<1>5. ASSUME obj' = WithResponse, clock' = clock, UnretractedStand', StandingAreTold',
             Founded(standing', obj), Behind(entries', obj)
      PROVE  TellsInv'
  <2>1. Behind(entries', obj') /\ Dated' /\ InLanes'
    BY <1>1, <1>2, <1>5, ResponseTells DEF TellsInv
  <2>2. Founded(standing', obj')
    BY <1>1, <1>5, ResponseAsksNothing
  <2> QED BY <1>1, <1>5, <2>1, <2>2 DEF TellsInv
<1>6. ASSUME obj' = WithResponse, UNCHANGED <<entries, standing, clock>>
      PROVE  TellsInv'
  BY <1>5, <1>6 DEF TellsInv, UnretractedStand, StandingAreTold, Alone
<1>7. ASSUME NEW unit \in Units, NEW answer \in Answers, AnswerRow(unit, answer)
      PROVE  TellsInv'
  BY <1>4, <1>5, <1>7 DEF AnswerRow
<1>8. CASE Renumber
  <2>1. Numbered(obj, clock) /\ obj' = obj /\ clock' = clock /\ Objects' = Objects
    BY <1>8 DEF Renumber, Objects, Given
  <2> QED BY <1>1, <1>4, <2>1 DEF TellsInv, Dated, InLanes
<1>9. CASE UNCHANGED vars
  BY <1>1, <1>9 DEF vars, TellsInv, UnretractedStand, StandingAreTold, Alone, Dated, InLanes, Objects, Given
<1>10. \A number, answer : Answer(number, answer) => TellsInv'
  BY <1>6 DEF Answer
<1>11. \A unit : Dictate(unit, "drop") => TellsInv'
  BY <1>6 DEF Dictate
<1> QED BY <1>3, <1>7, <1>8, <1>9, <1>10, <1>11 DEF Next

\* The register tells what stands, whichever ticks raise a decision at the hour it
\* was retracted at: an entry that is not retracted is of a decision that stands,
\* and every decision of an object alone, a unit that no batch holds or a response,
\* has such an entry for as long as it stands.  A deferral lasts some time (a week
\* in unit.yaml).
THEOREM RegisterTells ==
  ASSUME Week > 0
  PROVE  Spec => [](UnretractedStand /\ StandingAreTold)
<1>1. TellsInv /\ [Next]_vars => TellsInv'
  BY StepTells
<1>2. TellsInv => UnretractedStand /\ StandingAreTold
  BY DEF TellsInv
<1> QED BY InitTells, <1>1, <1>2, PTL DEF Spec

\* The decision is raised over the entry that was retracted of it, and number_for
\* leaves that as it is.
RaisedOver(d) == d \in standing' \cap DOMAIN entries /\ entries[d].gone # Never

Told(d) == d \in standing <=> d \in DOMAIN entries /\ entries[d].gone = Never

LEMMA NumberingTellsOf ==
  ASSUME TypeOK, NEW objects, NEW now \in Nat, Numbered(objects, now), NEW d, ~ RaisedOver(d)
  PROVE  Told(d)'
<1> DEFINE new  == standing' \ DOMAIN entries
           told == Retracted(standing', now)
<1>1. PICK number :
        entries' = [e \in Kept(told, now) \cup new |->
                      IF e \in new THEN [number |-> number[e], gone |-> Never] ELSE told[e]]
  BY DEF Numbered
<1>2. DOMAIN told = DOMAIN entries /\ Kept(told, now) \subseteq DOMAIN entries
  BY DEF Retracted, Kept
<1>3. DOMAIN entries' = Kept(told, now) \cup new
  BY <1>1
<1>4. CASE d \in standing'
  <2>1. CASE d \in new
    BY <1>1, <1>3, <1>4, <2>1 DEF Told
  <2>2. CASE d \notin new
    <3>1. d \in DOMAIN entries /\ entries[d].gone = Never /\ told[d] = entries[d]
      BY <1>4, <2>2 DEF RaisedOver, Retracted
    <3>2. d \in Kept(told, now)
      BY <1>2, <3>1 DEF Kept
    <3> HIDE DEF told
    <3>3. entries'[d] = told[d] /\ d \in DOMAIN entries'
      BY <1>1, <1>3, <2>2, <3>2
    <3> QED BY <1>4, <3>1, <3>3 DEF Told
  <2> QED BY <2>1, <2>2
<1>5. CASE d \notin standing'
  <2>1. d \in DOMAIN entries => told[d].gone # Never
    <3> SUFFICES ASSUME d \in DOMAIN entries PROVE told[d].gone # Never
      OBVIOUS
    <3>1. entries[d] \in [number : Nat \ {0}, gone : Nat \cup {Never}] /\ now # Never
      BY DEF TypeOK, Never
    <3> QED BY <1>5, <3>1 DEF Retracted
  <2>2. d \in DOMAIN entries' => d \in DOMAIN entries /\ entries'[d] = told[d]
    BY <1>1, <1>2, <1>3, <1>5
  <2> QED BY <1>5, <2>1, <2>2 DEF Told
<1> QED BY <1>4, <1>5

\* Of any decision, on a fold or a lease too, the register tells whether it stands
\* for as long as that decision is not itself raised over its retracted entry,
\* whatever is done with the others.
THEOREM RegisterTellsUntil ==
  ASSUME NEW CONSTANT d
  PROVE  Spec /\ [][~ RaisedOver(d)]_vars => []Told(d)
<1>1. Init => Told(d)
  BY DEF Init, Told
<1>2. ASSUME TypeOK, Told(d), [Next]_vars, [~ RaisedOver(d)]_vars
      PROVE  Told(d)'
  <2>1. ASSUME UNCHANGED <<entries, standing>> PROVE Told(d)'
    BY <1>2, <2>1 DEF Told
  <2>2. CASE UNCHANGED vars
    BY <2>1, <2>2 DEF vars
  <2>3. CASE Next /\ ~ RaisedOver(d)
    <3>1. clock \in Nat
      BY <1>2 DEF TypeOK
    <3>2. \A scope, seen : \A step \in Steps : Tick(scope, seen, step) => Told(d)'
      <4> SUFFICES ASSUME NEW scope, NEW seen, NEW step \in Steps, Tick(scope, seen, step)
                   PROVE  Told(d)'
        OBVIOUS
      <4>1. clock + step \in Nat /\ Numbered(obj', clock + step)
        BY <3>1, RailAssumption DEF Tick
      <4> QED BY <1>2, <2>3, <4>1, NumberingTellsOf
    <3>3. Numbered(obj, clock) => Told(d)'
      BY <1>2, <2>3, <3>1, NumberingTellsOf
    <3>4. \A number, answer : Answer(number, answer) => Told(d)'
      BY <2>1 DEF Answer
    <3>5. \A unit : Dictate(unit, "drop") => Told(d)'
      BY <2>1 DEF Dictate
    <3>6. \A unit, answer : AnswerRow(unit, answer) => Told(d)'
      BY <3>3 DEF AnswerRow
    <3>7. Renumber => Told(d)'
      BY <3>3 DEF Renumber
    <3> QED BY <2>3, <3>2, <3>4, <3>5, <3>6, <3>7 DEF Next
  <2> QED BY <1>2, <2>2, <2>3
<1>3. TypeOK /\ Told(d) /\ [Next]_vars /\ [~ RaisedOver(d)]_vars => Told(d)'
  BY <1>2
<1> QED BY <1>1, <1>3, RailTypesHold, PTL DEF Spec
=============================================================================
