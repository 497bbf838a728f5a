-------------------------------- MODULE Cards --------------------------------
(***************************************************************************)
(* The rail as the page draws it, and what a control of it names when it   *)
(* is pressed (flywheel-surface/src/page.rs, catalogue.rs).  A decision is *)
(* a card.  A fold of chores lists them as lettered rows, and a letter     *)
(* with the fold's number names one chore: the page draws it at one read   *)
(* and the catalogue looks it up at a later one.                           *)
(*                                                                         *)
(* The units of Rail that have a batch are the chores.                     *)
(***************************************************************************)
EXTENDS Rail

CONSTANT IdOrder  \* the units, in the order their ids count them

ASSUME CardsAssumption == IdOrder \in Bijection(1..Cardinality(Units), Units)

\* The rail's groups: what a sweep of the hand may settle is the first alone.
GroupOf(d) == IF d.of \in Units \cup Batches THEN "approve" ELSE "attention"

AnswersOf(d) ==
  CASE d.of \in Units \cup Batches -> {"yes", "drop", "later"}
    [] d.of \in Leases -> {"ok"}
    [] OTHER -> {"ok"}

\* The objects whose decision this is, and whether it is a fold of chores.
StandingIn(d) == {o \in Objects : obj[o].state \in Deciding /\ Card(o) = d.of}
IsFold(d) == d.of \in Batches /\ StandingIn(d) # {}

\* The rows of a fold: every chore of its batch that stands in it, or entered
\* the state it is in since the fold was raised.
RowsOf_Standing(d) == {u \in Units : Batch[u] = d.of /\ u \in StandingIn(d)}

RowsOf(d) ==
  {u \in Units :
    /\ Batch[u] = d.of /\ obj[u].state # "offered"
    /\ u \in StandingIn(d) \/ obj[u].since >= d.since}

\* A row's letter is its place among them, in the order their ids count them.
UpTo(u, v) == \E i, j \in DOMAIN IdOrder : i <= j /\ IdOrder[i] = u /\ IdOrder[j] = v
Letter(d, u) == Cardinality({v \in RowsOf(d) : UpTo(v, u)})

\* The rows its card lists, each with its letter: those that stand.
ChoreRows(d) ==
  {[letter |-> Letter(d, u), chore |-> u] : u \in RowsOf(d) \cap StandingIn(d)}

\* The letters that carry a drop of their own.
RowDrops(d) ==
  IF Cardinality(ChoreRows(d)) > 1 /\ d \in DOMAIN entries
  THEN {row.letter : row \in ChoreRows(d)} ELSE {}

\* The answers the card's controls offer: of a fold, yes and drop.
Offered(d) == IF IsFold(d) THEN AnswersOf(d) \cap {"yes", "drop"} ELSE AnswersOf(d)

CardOf(d) ==
  [number |-> entries[d].number, group |-> GroupOf(d),
   answers |-> Offered(d), rows |-> IF IsFold(d) THEN ChoreRows(d) ELSE {}]

RailCards == {CardOf(d) : d \in standing}

\* The numbers "yes all" is drawn with, and answers.
YesAllAnswers ==
  {card.number : card \in {c \in RailCards : c.group = "approve" /\ "yes" \in c.answers}}

\* The chore a number and a letter name, or Nobody: no decision stands under
\* the number, it is no fold, or no row of that letter stands.
RowObject(number, letter) ==
  LET named == {d \in standing : entries[d].number = number /\ IsFold(d)}
      found == {row.chore : row \in {r \in UNION {ChoreRows(d) : d \in named} : r.letter = letter}}
  IN IF found = {} THEN Nobody ELSE CHOOSE u \in found : TRUE

------------------------------------------------------------------------------
\* A chore came among the rows of a fold that stands: one put off and offered
\* again, one proposed since, or one approved before the fold was raised that
\* has moved on.
Joins(d) == RowsOf(d)' \ RowsOf(d) # {}

\* A letter pressed on a card drawn a step ago names the chore it was drawn
\* with or is refused, whatever was answered in between, as long as no chore
\* joins the rows: a row that leaves takes no other's letter with it (page.rs
\* rows_of, catalogue.rs row_object).
LetterStillNames ==
  [][\A card \in RailCards, row \in UNION {c.rows : c \in RailCards} :
       row \in card.rows =>
         \/ RowObject(card.number, row.letter)' \in {row.chore, Nobody}
         \/ \E d \in standing : entries[d].number = card.number /\ Joins(d)]_vars

==============================================================================
