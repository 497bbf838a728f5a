-------------------------- MODULE SharedLineProofs --------------------------
(***************************************************************************)
(* What holds of SharedLine for every set of hosts, files and effects, any *)
(* number of retries and any bound on the writes.                          *)
(***************************************************************************)
EXTENDS SharedLine, SequenceTheorems, WellFoundedInduction, TLAPS

-----------------------------------------------------------------------------
(* Prefixes *)

\* A prefix agrees with what it begins, entry by entry.
LEMMA PrefixPointwise ==
  ASSUME NEW S, NEW s \in Seq(S), NEW t \in Seq(S)
  PROVE  IsPrefix(s, t) <=> /\ Len(s) <= Len(t)
                            /\ \A i \in 1..Len(s) : s[i] = t[i]
<1>1. Len(s) \in Nat /\ Len(t) \in Nat
  BY LenProperties
<1>2. SubSeq(s, 1, Len(s)) = s
  BY SubSeqFull
<1> SUFFICES ASSUME Len(s) <= Len(t)
             PROVE  SubSeq(s, 1, Len(s)) = SubSeq(t, 1, Len(s))
                      <=> \A i \in 1..Len(s) : s[i] = t[i]
  BY DEF IsPrefix
<1>3. \A i \in 1..Len(s) : s[i] \in S /\ t[i] \in S
  BY <1>1, ElementOfSeq
<1> DEFINE u == SubSeq(t, 1, Len(s))
<1>4. /\ u \in Seq(S)
      /\ Len(u) = Len(s)
      /\ \A i \in 1..Len(s) : u[i] = t[i]
  <2>1. /\ u \in Seq(S)
        /\ Len(u) = IF 1 <= Len(s) THEN Len(s) - 1 + 1 ELSE 0
        /\ \A i \in 1..(Len(s) - 1 + 1) : u[i] = t[1 + i - 1]
    BY <1>1, <1>3, SubSeqProperties
  <2> QED  BY <2>1, <1>1
<1> HIDE DEF u
<1>5. s = u <=> \A i \in 1..Len(s) : s[i] = u[i]
  BY <1>4, SeqEqual
<1> QED  BY <1>2, <1>4, <1>5 DEF u

\* Being a prefix is an order.
LEMMA PrefixReflexive ==
  ASSUME NEW S, NEW s \in Seq(S)
  PROVE  IsPrefix(s, s)
BY LenProperties, PrefixPointwise

LEMMA PrefixTransitive ==
  ASSUME NEW S, NEW s \in Seq(S), NEW t \in Seq(S), NEW u \in Seq(S),
         IsPrefix(s, t), IsPrefix(t, u)
  PROVE  IsPrefix(s, u)
<1>1. Len(s) \in Nat /\ Len(t) \in Nat /\ Len(u) \in Nat
  BY LenProperties
<1>2. /\ Len(s) <= Len(t) /\ \A i \in 1..Len(s) : s[i] = t[i]
      /\ Len(t) <= Len(u) /\ \A i \in 1..Len(t) : t[i] = u[i]
  BY PrefixPointwise
<1>3. Len(s) <= Len(u) /\ \A i \in 1..Len(s) : s[i] = u[i]
  BY <1>1, <1>2
<1> QED  BY <1>3, PrefixPointwise

\* Two prefixes of one sequence are prefixes of one another.
LEMMA PrefixComparable ==
  ASSUME NEW S, NEW s \in Seq(S), NEW t \in Seq(S), NEW u \in Seq(S),
         IsPrefix(s, u), IsPrefix(t, u), Len(s) <= Len(t)
  PROVE  IsPrefix(s, t)
<1>1. Len(s) \in Nat /\ Len(t) \in Nat
  BY LenProperties
<1>2. /\ \A i \in 1..Len(s) : s[i] = u[i]
      /\ \A i \in 1..Len(t) : t[i] = u[i]
  BY PrefixPointwise
<1>3. \A i \in 1..Len(s) : s[i] = t[i]
  BY <1>1, <1>2
<1> QED  BY <1>3, PrefixPointwise

\* A sequence begins what is made by adding to its end.
LEMMA ConcatExtends ==
  ASSUME NEW S, NEW s \in Seq(S), NEW t \in Seq(S)
  PROVE  s \o t \in Seq(S) /\ IsPrefix(s, s \o t)
<1>1. /\ s \o t \in Seq(S)
      /\ Len(s \o t) = Len(s) + Len(t)
      /\ \A i \in 1..(Len(s) + Len(t)) : (s \o t)[i] = IF i <= Len(s) THEN s[i] ELSE t[i - Len(s)]
  BY ConcatProperties
<1>2. Len(s) \in Nat /\ Len(t) \in Nat
  BY LenProperties
<1>3. Len(s) <= Len(s \o t) /\ \A i \in 1..Len(s) : s[i] = (s \o t)[i]
  BY <1>1, <1>2
<1> QED  BY <1>1, <1>3, PrefixPointwise

LEMMA AppendExtends ==
  ASSUME NEW S, NEW s \in Seq(S), NEW e \in S
  PROVE  Append(s, e) \in Seq(S) /\ IsPrefix(s, Append(s, e))
<1>1. /\ Append(s, e) \in Seq(S)
      /\ Len(Append(s, e)) = Len(s) + 1
      /\ \A i \in 1..Len(s) : Append(s, e)[i] = s[i]
  BY AppendProperties
<1>2. Len(s) \in Nat
  BY LenProperties
<1>3. Len(s) <= Len(Append(s, e)) /\ \A i \in 1..Len(s) : s[i] = Append(s, e)[i]
  BY <1>1, <1>2
<1> QED  BY <1>1, <1>3, PrefixPointwise

\* A set of numbers that is not empty has a least one.
LEMMA LeastNumber ==
  ASSUME NEW T, T \subseteq Nat, T # {}
  PROVE  \E x \in T : \A y \in T : x <= y
<1> DEFINE Below == {p \in Nat \X Nat : p[1] < p[2]}
<1>1. IsWellFoundedOn(Below, Nat)
  BY NatLessThanWellFounded DEF OpToRel
<1> HIDE DEF Below
<1>2. PICK x \in T : \A y \in T : <<y, x>> \notin Below
  BY <1>1, WFMin
<1>3. \A y \in T : ~(y < x)
  BY <1>2 DEF Below
<1> QED  BY <1>3

-----------------------------------------------------------------------------
(* Histories and trees *)

Trees == [File -> Seq(Host \cup Nat)]

LEMMA LineType ==
  ASSUME NEW line \in Line
  PROVE  /\ line \in Seq(Commit)
         /\ Len(line) \in Nat \ {0}
         /\ DOMAIN line = 1..Len(line)
         /\ line[Len(line)] \in Commit
         /\ Tree(line) \in Trees
<1>1. /\ line \in Seq(Commit)
      /\ Len(line) \in Nat \ {0}
      /\ DOMAIN line = 1..Len(line)
  BY EmptySeq, LenProperties DEF Line
<1>2. line[Len(line)] \in Commit
  BY <1>1, ElementOfSeq
<1> QED  BY <1>1, <1>2 DEF Tree, Trees, Commit

\* Putting entries at the end of one file makes a tree that begins, in every
\* file, as the tree did.
LEMMA AddedExtends ==
  ASSUME NEW line \in Line, NEW f \in File, NEW entries \in Seq(Host \cup Nat)
  PROVE  /\ Added(line, f, entries) \in Trees
         /\ \A g \in File : IsPrefix(Tree(line)[g], Added(line, f, entries)[g])
<1> DEFINE S == Host \cup Nat
<1>1. Tree(line) \in Trees
  BY LineType
<1>2. \A g \in File : Tree(line)[g] \in Seq(S)
  BY <1>1 DEF Trees
<1>3. /\ Tree(line)[f] \o entries \in Seq(S)
      /\ IsPrefix(Tree(line)[f], Tree(line)[f] \o entries)
  BY <1>2, ConcatExtends
<1>4. \A g \in File : IsPrefix(Tree(line)[g], Tree(line)[g])
  BY <1>2, PrefixReflexive
<1>5. Added(line, f, entries) \in Trees
  BY <1>1, <1>3 DEF Added, Trees
<1>6. \A g \in File : Added(line, f, entries)[g] = IF g = f THEN Tree(line)[f] \o entries ELSE Tree(line)[g]
  BY <1>1 DEF Added, Trees
<1> QED  BY <1>3, <1>4, <1>5, <1>6

\* A commit is put on top of the line it is made on.
LEMMA CommitOnExtends ==
  ASSUME NEW line \in Line, NEW h \in Host, NEW tree \in Trees, NEW effects \in SUBSET Effect
  PROVE  /\ CommitOn(line, h, tree, effects) \in Line
         /\ Len(CommitOn(line, h, tree, effects)) = Len(line) + 1
         /\ Reaches(line, CommitOn(line, h, tree, effects))
         /\ Tree(CommitOn(line, h, tree, effects)) = tree
         /\ \A i \in 1..Len(line) : CommitOn(line, h, tree, effects)[i] = line[i]
<1> DEFINE commit == [by |-> h, tree |-> tree, effects |-> effects]
           next == Append(line, commit)
<1>1. commit \in Commit
  BY DEF Commit, Trees
<1>2. line \in Seq(Commit) /\ Len(line) \in Nat \ {0}
  BY LineType
<1>3. /\ next \in Seq(Commit)
      /\ Len(next) = Len(line) + 1
      /\ \A i \in 1..Len(line) : next[i] = line[i]
      /\ next[Len(line) + 1] = commit
  BY <1>1, <1>2, AppendProperties
<1>4. IsPrefix(line, next)
  BY <1>1, <1>2, AppendExtends
<1>5. next # <<>>
  BY <1>2, <1>3, EmptySeq
<1> QED  BY <1>3, <1>4, <1>5 DEF CommitOn, Line, Reaches, Tree

\* A replay is one commit on top of what it is replayed onto.
LEMMA ReplayedExtends ==
  ASSUME NEW h \in Host, NEW ours \in Line, NEW onto \in Line
  PROVE  /\ Replayed(h, ours, onto) \in Line
         /\ Reaches(onto, Replayed(h, ours, onto))
<1> DEFINE mine == Changed(CommonAncestor(ours, onto), ours)
           tree == [f \in File |-> IF f \in mine THEN Tree(ours)[f] ELSE Tree(onto)[f]]
<1>1. tree \in Trees
  <2> HIDE DEF mine
  <2> QED  BY LineType DEF Trees
<1>2. CommitOn(onto, h, tree, {}) \in Line /\ Reaches(onto, CommitOn(onto, h, tree, {}))
  <2> HIDE DEF tree
  <2> QED  BY <1>1, CommitOnExtends
<1> QED  BY <1>2 DEF Replayed

LEMMA OnFetchedHeadType ==
  ASSUME NEW local \in Line, NEW line \in Line
  PROVE  OnFetchedHead(local, line) \in Line
BY DEF OnFetchedHead

-----------------------------------------------------------------------------
(* Types *)

GuardsType == /\ DOMAIN guards = Host
              /\ \A h \in Host : /\ DOMAIN guards[h] \subseteq Record
                                 /\ \A r \in DOMAIN guards[h] : guards[h][r] \in Nat

\* A host's guards are dropped, replaced or left, the others' stay.
LEMMA GuardsKept ==
  ASSUME GuardsType, NEW h \in Host, NEW g, DOMAIN g \subseteq Record,
         \A r \in DOMAIN g : g[r] \in Nat,
         guards' = [guards EXCEPT ![h] = g]
  PROVE  GuardsType'
BY DEF GuardsType

\* The first push of a flush is one of those it may make.
LEMMA FirstAttempt == 0 \in 0..(Retries - 1)
BY LineAssumption

LEMMA NoGuards == DOMAIN <<>> = {}
OBVIOUS

\* A file that a writer adds an entry to.
LEMMA FileNames ==
  /\ Record \subseteq File /\ Log \subseteq File /\ Delivery \subseteq File /\ Host \subseteq File
BY DEF File

\* A commit made between ticks or in one keeps the types it touches.
LEMMA CommittedType ==
  ASSUME TypeOK, NEW h \in Host, MayWrite(h), NEW line \in Line,
         NEW flush \in Pushing, Committed(h, line, flush)
  PROVE  /\ main' \in Line /\ head' \in [Host -> Line] /\ fetched' \in [Host -> Line]
         /\ doing' \in [Host -> {Idle, Tick, Failed} \cup Pushing]
         /\ attempt' \in [Host -> 0..(Retries - 1)]
         /\ offline' \in [Host -> BOOLEAN]
         /\ writes' \in 0..MaxWrites
BY LineAssumption DEF TypeOK, MayWrite, MayCall, Committed

\* The same of the outcomes of a rejected push.
LEMMA RejectedType ==
  ASSUME TypeOK, NEW h \in Host, NEW line \in Line, Rejected(h, line)
  PROVE  /\ head' \in [Host -> Line] /\ fetched' \in [Host -> Line]
         /\ doing' \in [Host -> {Idle, Tick, Failed} \cup Pushing]
         /\ attempt' \in [Host -> 0..(Retries - 1)]
         /\ GuardsType'
         /\ offline' = offline /\ pending' = pending /\ owed' = owed /\ said' = said
<1> USE DEF TypeOK, GuardsType
<1>1. head[h] \in Line /\ OnFetchedHead(head[h], line) \in Line
  BY OnFetchedHeadType
<1>2. Replayed(h, head[h], line) \in Line
  BY <1>1, ReplayedExtends
<1>3. /\ fetched' = [fetched EXCEPT ![h] = line]
      /\ offline' = offline /\ pending' = pending /\ owed' = owed /\ said' = said
  BY DEF Rejected
<1>4. \A l \in Line : GivesUp(h, l) =>
        /\ head' \in [Host -> Line]
        /\ doing' \in [Host -> {Idle, Tick, Failed} \cup Pushing]
        /\ attempt' \in [Host -> 0..(Retries - 1)]
  BY DEF GivesUp
<1>5. \A l \in Line : TriesAgain(h, l) /\ ~LastAttempt(h) =>
        /\ head' \in [Host -> Line]
        /\ doing' \in [Host -> {Idle, Tick, Failed} \cup Pushing]
        /\ attempt' \in [Host -> 0..(Retries - 1)]
  BY LineAssumption DEF TriesAgain, LastAttempt
<1>6. CASE ReconnectRejected(h, line)
  BY <1>1, <1>2, <1>3, <1>4, <1>5, <1>6 DEF ReconnectRejected
<1>7. CASE FlushRejected(h, line)
  <2>1. GuardsType'
    <3>1. guards' = [guards EXCEPT ![h] = <<>>] \/ guards' = [guards EXCEPT ![h] = guards[h]]
      BY <1>7 DEF FlushRejected
    <3> QED  BY <3>1, NoGuards, GuardsKept
  <2>2. \/ \E l \in Line : GivesUp(h, l)
        \/ \E l \in Line : TriesAgain(h, l) /\ ~LastAttempt(h)
    BY <1>1, <1>2, <1>7 DEF FlushRejected
  <2> QED  BY <1>3, <1>4, <1>5, <2>1, <2>2
<1> QED  BY <1>6, <1>7 DEF Rejected

\* The entries the end of a tick writes: what is owed and what it says.
LEMMA EntriesType ==
  ASSUME TypeOK, NEW h \in Host, NEW k \in Nat
  PROVE  /\ owed[h] \o [i \in 1..k |-> said[h] + i] \in Seq(Nat)
         /\ owed[h] \o [i \in 1..k |-> said[h] + i] \in Seq(Host \cup Nat)
<1>1. [i \in 1..k |-> said[h] + i] \in [1..k -> Nat] /\ owed[h] \in Seq(Nat)
  BY DEF TypeOK
<1>2. Seq(Nat) = UNION {[1..n -> Nat] : n \in Nat}
  BY SeqDef
<1>3. [i \in 1..k |-> said[h] + i] \in Seq(Nat)
  BY <1>1, <1>2
<1>4. owed[h] \o [i \in 1..k |-> said[h] + i] \in Seq(Nat)
  BY <1>1, <1>3, ConcatProperties
<1> QED  BY <1>4, SeqMonotonic

LEMMA TypeStep ==
  ASSUME TypeOK, [Next]_vars
  PROVE  TypeOK'
<1>1. CASE UNCHANGED vars
  BY <1>1 DEF vars, TypeOK
<1> SUFFICES ASSUME NEW h \in Host,
                    \/ \E r \in Record : Put(h, r)
                    \/ \E l \in Log : AppendThread(h, l)
                    \/ \E d \in Delivery : Receive(h, d)
                    \/ \E e \in Effect : WriteEffect(h, e)
                    \/ SettleRecord(h)
                    \/ TickBegins(h)
                    \/ TakeRefused(h)
                    \/ TickFails(h)
                    \/ TickEnds(h)
                    \/ PushLands(h)
                    \/ PushRejected(h)
                    \/ PushUnreachable(h)
                    \/ PushUnheard(h)
                    \/ Disconnect(h)
                    \/ Reconnect(h)
                    \/ CrashAndOpen(h)
             PROVE  TypeOK'
  BY <1>1 DEF Next
<1> USE DEF TypeOK
<1>h. /\ head[h] \in Line /\ fetched[h] \in Line /\ main \in Line
      /\ Tree(head[h]) \in Trees
      /\ <<h>> \in Seq(Host \cup Nat)
  BY LineType
<1>2. ASSUME NEW r \in Record, Put(h, r) PROVE TypeOK'
  <2>1. CommitOn(head[h], h, Added(head[h], r, <<h>>), {}) \in Line
    BY <1>h, FileNames, AddedExtends, CommitOnExtends
  <2>2. Len(Tree(head[h])[r]) \in Nat
    BY <1>h, FileNames, LenProperties DEF Trees
  <2>3. GuardsType'
    BY <1>2, <2>2 DEF Put, GuardsType
  <2> QED  BY <1>2, <2>1, <2>3, CommittedType DEF Put, GuardsType, Pushing, Flushing
<1>3. ASSUME NEW l \in Log, AppendThread(h, l) PROVE TypeOK'
  <2>1. CommitOn(head[h], h, Added(head[h], l, <<h>>), {}) \in Line
    BY <1>h, FileNames, AddedExtends, CommitOnExtends
  <2> QED  BY <1>3, <2>1, CommittedType DEF AppendThread, Pushing, Flushing
<1>4. ASSUME NEW d \in Delivery, Receive(h, d) PROVE TypeOK'
  <2>1. CommitOn(head[h], h, Added(head[h], d, <<h>>), {}) \in Line
    BY <1>h, FileNames, AddedExtends, CommitOnExtends
  <2> QED  BY <1>4, <2>1, CommittedType DEF Receive, MayWrite, Pushing, Flushing
<1>5. ASSUME NEW e \in Effect, WriteEffect(h, e) PROVE TypeOK'
  <2>1. CommitOn(head[h], h, Tree(head[h]), {e}) \in Line
    BY <1>h, CommitOnExtends
  <2> QED  BY <1>5, <2>1, CommittedType DEF WriteEffect, Pushing, Flushing
<1>6. CASE SettleRecord(h)
  <2>1. owed[h] \in Seq(Host \cup Nat)
    BY SeqMonotonic
  <2>2. CommitOn(head[h], h, Added(head[h], h, owed[h]), {}) \in Line
    BY <1>h, <2>1, FileNames, AddedExtends, CommitOnExtends
  <2>3. owed' \in [Host -> Seq(Nat)]
    <3>1. <<>> \in Seq(Nat)
      BY EmptySeq
    <3> QED  BY <1>6, <3>1 DEF SettleRecord
  <2>4. doing' \in [Host -> {Idle, Tick, Failed} \cup Pushing]
    BY <1>6 DEF SettleRecord, Pushing, Flushing
  <2>5. attempt' \in [Host -> 0..(Retries - 1)]
    BY <1>6, FirstAttempt DEF SettleRecord
  <2>6. head' \in [Host -> Line]
    BY <1>6, <2>2 DEF SettleRecord
  <2> QED  BY <1>6, <2>3, <2>4, <2>5, <2>6 DEF SettleRecord
<1>7. CASE TickBegins(h)
  BY <1>7, <1>h, OnFetchedHeadType DEF TickBegins
<1>8. CASE TakeRefused(h)
  BY <1>8, <1>h, OnFetchedHeadType DEF TakeRefused
<1>9. CASE TickFails(h)
  BY <1>9 DEF TickFails
<1>10. CASE TickEnds(h)
  <2>1. PICK k \in IF writes < MaxWrites THEN 0..1 ELSE {0} :
          LET entries == owed[h] \o [i \in 1..k |-> said[h] + i]
              line == IF entries = <<>> THEN head[h]
                      ELSE CommitOn(head[h], h, Added(head[h], h, entries), {})
              over == offline[h] \/ line = fetched[h]
          IN  /\ said' = [said EXCEPT ![h] = @ + k]
              /\ writes' = writes + k
              /\ head' = [head EXCEPT ![h] = line]
              /\ doing' = [doing EXCEPT ![h] = IF over THEN Idle ELSE "tick ends"]
              /\ owed' = [owed EXCEPT ![h] = IF over THEN <<>> ELSE entries]
              /\ guards' = [guards EXCEPT ![h] = IF over THEN <<>> ELSE @]
              /\ attempt' = [attempt EXCEPT ![h] = 0]
              /\ UNCHANGED <<main, fetched, offline, pending>>
    BY <1>10 DEF TickEnds
  <2> DEFINE entries == owed[h] \o [i \in 1..k |-> said[h] + i]
             line == IF entries = <<>> THEN head[h]
                     ELSE CommitOn(head[h], h, Added(head[h], h, entries), {})
  <2> HIDE DEF entries, line
  <2>2. k \in Nat /\ writes + k \in 0..MaxWrites
    <3>1. k \in IF writes < MaxWrites THEN 0..1 ELSE {0}
      BY <2>1
    <3> QED  BY <3>1, LineAssumption
  <2> USE DEF entries, line
  <2>4. entries \in Seq(Nat)
    BY <2>2, EntriesType
  <2>5. entries \in Seq(Host \cup Nat)
    BY <2>2, EntriesType
  <2> HIDE DEF entries
  <2>6. CommitOn(head[h], h, Added(head[h], h, entries), {}) \in Line
    BY <1>h, <2>5, FileNames, AddedExtends, CommitOnExtends
  <2>7. line \in Line
    BY <1>h, <2>6
  <2> HIDE DEF line
  <2>8. \E over \in BOOLEAN :
              /\ said' = [said EXCEPT ![h] = @ + k]
              /\ writes' = writes + k
              /\ head' = [head EXCEPT ![h] = line]
              /\ doing' = [doing EXCEPT ![h] = IF over THEN Idle ELSE "tick ends"]
              /\ owed' = [owed EXCEPT ![h] = IF over THEN <<>> ELSE entries]
              /\ guards' = [guards EXCEPT ![h] = IF over THEN <<>> ELSE @]
              /\ attempt' = [attempt EXCEPT ![h] = 0]
              /\ UNCHANGED <<main, fetched, offline, pending>>
    BY <2>1 DEF entries, line
  <2>9. GuardsType'
    <3>1. guards' = [guards EXCEPT ![h] = <<>>] \/ guards' = [guards EXCEPT ![h] = guards[h]]
      BY <2>8
    <3> QED  BY <3>1, NoGuards, GuardsKept DEF GuardsType
  <2>10. said[h] + k \in Nat
    BY <2>2
  <2>11. /\ attempt' = [attempt EXCEPT ![h] = 0]
         /\ owed' = [owed EXCEPT ![h] = <<>>] \/ owed' = [owed EXCEPT ![h] = entries]
         /\ said' = [said EXCEPT ![h] = said[h] + k]
         /\ writes' = writes + k
         /\ head' = [head EXCEPT ![h] = line]
         /\ UNCHANGED <<main, fetched, offline, pending>>
    BY <2>8
  <2>12. owed' \in [Host -> Seq(Nat)]
    <3>1. <<>> \in Seq(Nat)
      BY EmptySeq
    <3> QED  BY <2>4, <2>11, <3>1
  <2>13. doing' \in [Host -> {Idle, Tick, Failed} \cup Pushing]
    BY <2>8 DEF Pushing, Flushing
  <2>14. attempt' \in [Host -> 0..(Retries - 1)]
    BY <2>11, FirstAttempt
  <2> QED  BY <2>2, <2>7, <2>9, <2>10, <2>11, <2>12, <2>13, <2>14 DEF GuardsType
<1>11. CASE PushLands(h)
  <2>1. GuardsType'
    <3>1. guards' = [guards EXCEPT ![h] = <<>>] \/ guards' = [guards EXCEPT ![h] = guards[h]]
      BY <1>11 DEF PushLands
    <3> QED  BY <3>1, NoGuards, GuardsKept DEF GuardsType
  <2> QED  BY <1>11, <1>h, <2>1, EmptySeq DEF PushLands, GuardsType
<1>12. CASE PushRejected(h)
  BY <1>12, <1>h, RejectedType DEF PushRejected, GuardsType
<1>13. CASE PushUnreachable(h)
  <2>1. writes + 1 \in 0..MaxWrites
    BY <1>13, LineAssumption DEF PushUnreachable, GoesWrong
  <2> QED  BY <1>13, <1>h, <2>1, RejectedType DEF PushUnreachable, GoesWrong, GuardsType
<1>14. CASE PushUnheard(h)
  <2>1. writes + 1 \in 0..MaxWrites
    BY <1>14, LineAssumption DEF PushUnheard, GoesWrong
  <2> QED  BY <1>14, <1>h, <2>1, RejectedType DEF PushUnheard, GoesWrong, GuardsType
<1>15. CASE Disconnect(h)
  BY <1>15 DEF Disconnect
<1>16. CASE Reconnect(h)
  <2> DEFINE local == OnFetchedHead(head[h], main)
  <2>1. local \in Line
    BY <1>h, OnFetchedHeadType
  <2> HIDE DEF local
  <2>2. Replayed(h, local, main) \in Line
    BY <1>h, <2>1, ReplayedExtends
  <2>3. \E line \in Line, over \in BOOLEAN :
          /\ offline' = [offline EXCEPT ![h] = FALSE]
          /\ fetched' = [fetched EXCEPT ![h] = main]
          /\ head' = [head EXCEPT ![h] = line]
          /\ doing' = [doing EXCEPT ![h] = IF over THEN Idle ELSE "reconnect"]
          /\ attempt' = [attempt EXCEPT ![h] = 0]
          /\ UNCHANGED <<main, guards, pending, owed, said, writes>>
    BY <1>16, <1>h, <2>1, <2>2 DEF Reconnect, local
  <2> QED  BY <1>h, <2>3, LineAssumption DEF Pushing
<1>17. CASE CrashAndOpen(h)
  <2>1. GuardsType'
    BY <1>17, NoGuards, GuardsKept DEF CrashAndOpen, GuardsType
  <2> QED  BY <1>17, <1>h, <2>1, EmptySeq, OnFetchedHeadType, LineAssumption DEF CrashAndOpen, GuardsType
<1> QED  BY <1>2, <1>3, <1>4, <1>5, <1>6, <1>7, <1>8, <1>9, <1>10, <1>11, <1>12, <1>13,
            <1>14, <1>15, <1>16, <1>17

\* What every host starts from.
LEMMA RootType == Root \in Line
<1> DEFINE first == [by |-> "init", tree |-> [f \in File |-> <<>>], effects |-> {}]
<1>1. [f \in File |-> <<>>] \in [File -> Seq(Host \cup Nat)]
  BY EmptySeq
<1>2. first \in Commit
  BY <1>1 DEF Commit
<1> HIDE DEF first
<1>3. <<first>> \in Seq(Commit) /\ <<first>> # <<>>
  BY <1>2
<1> QED  BY <1>3 DEF Root, Line, first

\* Every variable keeps its type, whatever goes wrong: in particular no flush
\* pushes more often than RETRIES allows (flush, push_unpushed).
THEOREM TypesHold == Spec => []TypeOK
<1>1. Init => TypeOK
  BY RootType, LineAssumption DEF Init, TypeOK
<1>2. TypeOK /\ [Next]_vars => TypeOK'
  BY TypeStep
<1> QED  BY <1>1, <1>2, PTL DEF Spec

-----------------------------------------------------------------------------
(* The shared line under whole, connected ticks *)

\* Hosts write only in ticks that run to their end with the route up and every
\* lease take answered.  Pushes and fetches may still fail, and a push may land
\* unheard.
TickOnly == Faults \subseteq {"unreachable", "unheard"}

\* What a host believes of main is a past of main, and its own line stands on
\* it; between ticks it has nothing of its own.
Standing(h) ==
  /\ Reaches(fetched[h], main)
  /\ Reaches(fetched[h], head[h])
  /\ doing[h] = Idle => head[h] = fetched[h]
  /\ doing[h] \in {Idle, Tick, "tick ends", "run record"}
  /\ Connected(h)

StandingInv == TypeOK /\ \A h \in Host : Standing(h)

\* A step of one host that leaves main alone keeps the others where they are.
LEMMA OthersStand ==
  ASSUME StandingInv, NEW h \in Host, Reaches(main, main'),
         TypeOK', Standing(h)',
         \A k \in Host \ {h} : /\ fetched'[k] = fetched[k] /\ head'[k] = head[k]
                               /\ doing'[k] = doing[k] /\ offline'[k] = offline[k]
  PROVE  StandingInv'
<1>1. ASSUME NEW k \in Host, k # h PROVE Standing(k)'
  <2>1. main \in Seq(Commit) /\ main' \in Seq(Commit) /\ fetched[k] \in Seq(Commit)
    BY LineType DEF StandingInv, TypeOK
  <2>2. Reaches(fetched[k], main')
    BY <2>1, PrefixTransitive DEF StandingInv, Standing, Reaches
  <2> QED  BY <1>1, <2>2 DEF StandingInv, Standing, Connected
<1> QED  BY <1>1 DEF StandingInv

\* A commit on a host's own line keeps it standing on what was fetched.
LEMMA StandsOn ==
  ASSUME NEW s \in Line, NEW t \in Line, NEW u \in Line, Reaches(s, t), Reaches(t, u)
  PROVE  Reaches(s, u)
BY LineType, PrefixTransitive DEF Reaches

LEMMA StandsOnItself ==
  ASSUME NEW s \in Line
  PROVE  Reaches(s, s)
BY LineType, PrefixReflexive DEF Reaches

\* After a rejected push the checkout stands on what was fetched, and equals
\* it when the flush is over.
LEMMA RejectedStands ==
  ASSUME TypeOK, NEW h \in Host, NEW line \in Line, Rejected(h, line),
         doing[h] \in {"tick ends", "run record"}
  PROVE  /\ fetched'[h] = line
         /\ Reaches(line, head'[h])
         /\ doing'[h] \in {Idle, "tick ends", "run record"}
         /\ doing'[h] = Idle => head'[h] = line
         /\ \A k \in Host \ {h} : /\ fetched'[k] = fetched[k] /\ head'[k] = head[k]
                                  /\ doing'[k] = doing[k] /\ offline'[k] = offline[k]
         /\ offline' = offline
<1> USE DEF TypeOK
<1>1. head[h] \in Line /\ Reaches(line, line)
  BY StandsOnItself
<1>2. Reaches(line, Replayed(h, head[h], line))
  BY <1>1, ReplayedExtends
<1>3. FlushRejected(h, line) /\ fetched' = [fetched EXCEPT ![h] = line] /\ offline' = offline
  BY DEF Rejected
<1>4. GivesUp(h, line) \/ TriesAgain(h, Replayed(h, head[h], line))
  BY <1>3 DEF FlushRejected
<1>5. CASE GivesUp(h, line)
  BY <1>1, <1>3, <1>5 DEF GivesUp
<1>6. CASE TriesAgain(h, Replayed(h, head[h], line))
  BY <1>2, <1>3, <1>6 DEF TriesAgain, Idle
<1> QED  BY <1>4, <1>5, <1>6

LEMMA StandingStep ==
  ASSUME TickOnly, StandingInv, [Next]_vars
  PROVE  StandingInv' /\ Reaches(main, main')
<1>1. TypeOK'
  BY TypeStep DEF StandingInv
<1>2. CASE UNCHANGED vars
  <2>1. Reaches(main, main')
    BY <1>2, StandsOnItself DEF vars, StandingInv, TypeOK
  <2> QED  BY <1>1, <1>2, <2>1 DEF vars, StandingInv, Standing, Connected
<1> SUFFICES ASSUME NEW h \in Host,
                    \/ \E r \in Record : Put(h, r)
                    \/ \E l \in Log : AppendThread(h, l)
                    \/ \E d \in Delivery : Receive(h, d)
                    \/ \E e \in Effect : WriteEffect(h, e)
                    \/ SettleRecord(h)
                    \/ TickBegins(h)
                    \/ TakeRefused(h)
                    \/ TickFails(h)
                    \/ TickEnds(h)
                    \/ PushLands(h)
                    \/ PushRejected(h)
                    \/ PushUnreachable(h)
                    \/ PushUnheard(h)
                    \/ Disconnect(h)
                    \/ Reconnect(h)
                    \/ CrashAndOpen(h)
             PROVE  StandingInv' /\ Reaches(main, main')
  BY <1>2 DEF Next
<1> DEFINE Others == \A k \in Host \ {h} : /\ fetched'[k] = fetched[k] /\ head'[k] = head[k]
                                           /\ doing'[k] = doing[k] /\ offline'[k] = offline[k]
<1> SUFFICES Others /\ Reaches(main, main') /\ Standing(h)'
  BY <1>1, OthersStand
<1>3. /\ main \in Line /\ head \in [Host -> Line] /\ fetched \in [Host -> Line]
      /\ DOMAIN doing = Host /\ DOMAIN offline = Host
      /\ head[h] \in Line /\ fetched[h] \in Line
      /\ Standing(h)
  BY DEF StandingInv, TypeOK
<1>4. Reaches(main, main) /\ Reaches(head[h], head[h])
  BY <1>3, StandsOnItself
<1>5. ~MayCall(h)
  BY DEF MayCall, TickOnly
<1>6. ASSUME NEW line \in Line, NEW flush, Reaches(head[h], line), MayWrite(h), Committed(h, line, flush)
      PROVE  Others /\ Reaches(main, main') /\ Standing(h)'
  <2>1. doing[h] = Tick /\ Tick # Idle
    BY <1>5, <1>6 DEF MayWrite, Tick, Idle
  <2>2. Reaches(fetched[h], line)
    BY <1>3, <1>6, StandsOn DEF Standing
  <2> QED  BY <1>3, <1>4, <1>6, <2>1, <2>2 DEF Committed, Standing, Connected
<1>7. ASSUME NEW tree \in Trees, NEW effects \in SUBSET Effect
      PROVE  CommitOn(head[h], h, tree, effects) \in Line /\ Reaches(head[h], CommitOn(head[h], h, tree, effects))
  BY <1>3, CommitOnExtends
<1>8. ASSUME NEW f \in File, NEW entries \in Seq(Host \cup Nat)
      PROVE  Added(head[h], f, entries) \in Trees
  BY <1>3, AddedExtends
<1>9. <<h>> \in Seq(Host \cup Nat) /\ Tree(head[h]) \in Trees
  BY <1>3, LineType
<1>10. ASSUME NEW r \in Record, Put(h, r) PROVE Others /\ Reaches(main, main') /\ Standing(h)'
  BY <1>6, <1>7, <1>8, <1>9, <1>10, FileNames DEF Put
<1>11. ASSUME NEW l \in Log, AppendThread(h, l) PROVE Others /\ Reaches(main, main') /\ Standing(h)'
  BY <1>6, <1>7, <1>8, <1>9, <1>11, FileNames DEF AppendThread
<1>12. ASSUME NEW d \in Delivery, Receive(h, d) PROVE FALSE
  BY <1>5, <1>12 DEF Receive
<1>13. ASSUME NEW e \in Effect, WriteEffect(h, e) PROVE Others /\ Reaches(main, main') /\ Standing(h)'
  BY <1>6, <1>7, <1>9, <1>13 DEF WriteEffect
<1>14. CASE SettleRecord(h)
  <2>1. owed[h] \in Seq(Host \cup Nat)
    BY SeqMonotonic DEF StandingInv, TypeOK
  <2> DEFINE line == CommitOn(head[h], h, Added(head[h], h, owed[h]), {})
  <2>2. line \in Line /\ Reaches(head[h], line)
    BY <1>7, <1>8, <2>1, FileNames
  <2>3. Reaches(fetched[h], line)
    BY <1>3, <2>2, StandsOn DEF Standing
  <2>4. /\ head' = [head EXCEPT ![h] = line]
        /\ doing' = [doing EXCEPT ![h] = "run record"]
        /\ UNCHANGED <<main, fetched, offline>>
    BY <1>3, <1>14 DEF SettleRecord, Standing
  <2> HIDE DEF line
  <2> QED  BY <1>3, <1>4, <2>3, <2>4 DEF Standing, Connected, Idle
<1>15. CASE TickBegins(h)
  <2>1. doing[h] = Idle
    BY <1>3, <1>15 DEF TickBegins, Standing, Idle, Failed, Tick
  <2>2. OnFetchedHead(head[h], main) = main
    BY <1>3, <2>1 DEF OnFetchedHead, Standing
  <2> QED  BY <1>3, <1>4, <1>15, <2>2 DEF TickBegins, Standing, Connected, Tick, Idle
<1>16. CASE TakeRefused(h)
  BY <1>16 DEF TakeRefused, TickOnly
<1>17. CASE TickFails(h)
  BY <1>17 DEF TickFails, TickOnly
<1>18. CASE TickEnds(h)
  <2>1. PICK k \in IF writes < MaxWrites THEN 0..1 ELSE {0} :
          LET entries == owed[h] \o [i \in 1..k |-> said[h] + i]
              line == IF entries = <<>> THEN head[h]
                      ELSE CommitOn(head[h], h, Added(head[h], h, entries), {})
              over == offline[h] \/ line = fetched[h]
          IN  /\ head' = [head EXCEPT ![h] = line]
              /\ doing' = [doing EXCEPT ![h] = IF over THEN Idle ELSE "tick ends"]
              /\ UNCHANGED <<main, fetched, offline>>
    BY <1>18 DEF TickEnds
  <2> DEFINE entries == owed[h] \o [i \in 1..k |-> said[h] + i]
             line == IF entries = <<>> THEN head[h]
                     ELSE CommitOn(head[h], h, Added(head[h], h, entries), {})
  <2>2. entries \in Seq(Host \cup Nat)
    <3>1. k \in IF writes < MaxWrites THEN 0..1 ELSE {0}
      BY <2>1
    <3>2. TypeOK /\ k \in Nat
      BY <3>1 DEF StandingInv
    <3> QED  BY <3>2, EntriesType
  <2> HIDE DEF entries
  <2>3. line \in Line /\ Reaches(head[h], line)
    BY <1>3, <1>4, <1>7, <1>8, <2>2, FileNames
  <2> HIDE DEF line
  <2>4. Reaches(fetched[h], line)
    BY <1>3, <2>3, StandsOn DEF Standing
  <2>5. /\ head' = [head EXCEPT ![h] = line]
        /\ doing' = [doing EXCEPT ![h] = IF line = fetched[h] THEN Idle ELSE "tick ends"]
        /\ UNCHANGED <<main, fetched, offline>>
    BY <1>3, <2>1 DEF entries, line, Standing, Connected
  <2> QED  BY <1>3, <1>4, <2>4, <2>5 DEF Standing, Connected, Idle
<1>19. CASE PushLands(h)
  <2>1. Reaches(main, head[h])
    BY <1>3, <1>19 DEF PushLands, Standing
  <2> QED  BY <1>3, <1>4, <1>19, <2>1 DEF PushLands, Standing, Connected
<1>20. ASSUME NEW line \in Line, Rejected(h, line), main' \in Line, Reaches(main, main'), Reaches(line, main')
       PROVE  Others /\ Reaches(main, main') /\ Standing(h)'
  <2>1. doing[h] \in {"tick ends", "run record"}
    BY <1>3, <1>20 DEF Standing, Rejected, Pushing, Flushing, Idle, Tick
  <2>2. TypeOK
    BY DEF StandingInv
  <2> QED  BY <1>3, <1>20, <2>1, <2>2, RejectedStands DEF Standing, Connected
<1>21. CASE PushRejected(h)
  BY <1>3, <1>4, <1>20, <1>21 DEF PushRejected
<1>22. CASE PushUnreachable(h)
  BY <1>3, <1>4, <1>20, <1>22 DEF PushUnreachable, Standing
<1>23. CASE PushUnheard(h)
  BY <1>3, <1>4, <1>20, <1>23 DEF PushUnheard, Standing
<1>24. CASE Disconnect(h)
  BY <1>24 DEF Disconnect, TickOnly
<1>25. CASE Reconnect(h)
  BY <1>3, <1>25 DEF Reconnect, Standing, Connected
<1>26. CASE CrashAndOpen(h)
  BY <1>26 DEF CrashAndOpen, TickOnly
<1> QED  BY <1>10, <1>11, <1>12, <1>13, <1>14, <1>15, <1>16, <1>17, <1>18, <1>19, <1>21, <1>22,
            <1>23, <1>24, <1>25, <1>26

LEMMA StandingHolds == ASSUME TickOnly PROVE Spec => []StandingInv
<1>1. Init => StandingInv
  <2>1. Reaches(Root, Root)
    BY RootType, StandsOnItself
  <2>2. Init => TypeOK
    BY RootType, LineAssumption DEF Init, TypeOK
  <2> QED  BY <2>1, <2>2 DEF Init, StandingInv, Standing, Connected
<1>2. StandingInv /\ [Next]_vars => StandingInv'
  BY StandingStep
<1> QED  BY <1>1, <1>2, PTL DEF Spec

\* With hosts that write only in whole ticks no push takes a commit off main,
\* although a push never compares what it sends with what it replaces
\* (push_expecting, git-only.yaml guarantees.durable).
THEOREM TicksKeepTheLine == ASSUME TickOnly PROVE Spec => LineIsAppendOnly
<1>1. StandingInv /\ [Next]_vars => [Reaches(main, main')]_main
  BY StandingStep
<1> QED  BY <1>1, StandingHolds, PTL DEF Spec, LineIsAppendOnly

\* A tick that did not land leaves nothing of itself on the checkout
\* (end_tick, on_fetched_head).
THEOREM TicksStrandNothing == ASSUME TickOnly PROVE Spec => []NothingStranded
<1>1. StandingInv => NothingStranded
  BY DEF StandingInv, Standing, NothingStranded
<1> QED  BY <1>1, StandingHolds, PTL

-----------------------------------------------------------------------------
(* What every history keeps, whatever goes wrong *)

\* A history from the first commit on in which no commit takes from a file.
Sound(line) == Grows(line) /\ line[1] = Root[1]

LEMMA TreesInLine ==
  ASSUME NEW line \in Line, NEW i \in 1..Len(line), NEW f \in File
  PROVE  line[i].tree[f] \in Seq(Host \cup Nat)
<1>1. line[i] \in Commit
  BY LineType, ElementOfSeq
<1> QED  BY <1>1 DEF Commit

\* A commit that only adds keeps a history sound.
LEMMA CommitOnSound ==
  ASSUME NEW line \in Line, Sound(line), NEW h \in Host, NEW tree \in Trees,
         NEW effects \in SUBSET Effect,
         \A f \in File : IsPrefix(Tree(line)[f], tree[f])
  PROVE  Sound(CommitOn(line, h, tree, effects))
<1> DEFINE next == CommitOn(line, h, tree, effects)
<1>1. /\ next \in Line
      /\ Len(next) = Len(line) + 1
      /\ Tree(next) = tree
      /\ \A i \in 1..Len(line) : next[i] = line[i]
  BY CommitOnExtends
<1>2. Len(line) \in Nat \ {0}
  BY LineType
<1> HIDE DEF next
<1>3. next[Len(line) + 1].tree = tree
  BY <1>1, <1>2 DEF Tree
<1>4. next[1] = Root[1]
  BY <1>1, <1>2 DEF Sound
<1>5. ASSUME NEW j \in 1..Len(next), NEW i \in 1..j, NEW f \in File
      PROVE  IsPrefix(next[i].tree[f], next[j].tree[f])
  <2>1. CASE j \in 1..Len(line)
    <3>1. i \in 1..j /\ i \in 1..Len(line)
      BY <1>2, <2>1
    <3> QED  BY <1>1, <2>1, <3>1 DEF Sound, Grows
  <2>2. CASE j = Len(line) + 1 /\ i \in 1..Len(line)
    <3>1. Len(line) \in 1..Len(line)
      BY <1>2
    <3>2. IsPrefix(line[i].tree[f], line[Len(line)].tree[f])
      BY <2>2, <3>1 DEF Sound, Grows
    <3>3. IsPrefix(line[Len(line)].tree[f], tree[f])
      BY DEF Tree
    <3>4. /\ line[i].tree[f] \in Seq(Host \cup Nat)
          /\ line[Len(line)].tree[f] \in Seq(Host \cup Nat)
          /\ tree[f] \in Seq(Host \cup Nat)
      BY <2>2, <3>1, TreesInLine DEF Trees
    <3>5. IsPrefix(line[i].tree[f], tree[f])
      BY <3>2, <3>3, <3>4, PrefixTransitive
    <3> QED  BY <1>1, <1>3, <2>2, <3>5
  <2>3. CASE j = Len(line) + 1 /\ i = j
    BY <1>3, <2>3, PrefixReflexive DEF Trees
  <2> QED  BY <1>1, <1>2, <2>1, <2>2, <2>3
<1> QED  BY <1>4, <1>5 DEF Sound, Grows, next

\* The n-th commit of a history is the last it shares with another.
Part(ours, onto, n) ==
  /\ CommonAncestor(ours, onto) = SubSeq(ours, 1, n)
  /\ Tree(CommonAncestor(ours, onto)) = ours[n].tree
  /\ Reaches(CommonAncestor(ours, onto), onto)
  /\ n = Len(ours) \/ ~Reaches(SubSeq(ours, 1, n + 1), onto)

\* Two histories from one first commit part at a commit of the first of them.
LEMMA CommonAncestorParts ==
  ASSUME NEW ours \in Line, NEW onto \in Line, ours[1] = onto[1]
  PROVE  \E n \in 1..Len(ours) : Part(ours, onto, n)
<1> DEFINE Shared(k) == Reaches(SubSeq(ours, 1, k), onto)
           Parting(k) == Shared(k) /\ (k = Len(ours) \/ ~Shared(k + 1))
           Beyond == {k \in 1..(Len(ours) + 1) : k = Len(ours) + 1 \/ ~Shared(k)}
<1>1. /\ ours \in Seq(Commit) /\ onto \in Seq(Commit)
      /\ Len(ours) \in Nat \ {0} /\ Len(onto) \in Nat \ {0}
  BY LineType
<1>2. \A i \in 1..Len(ours) : ours[i] \in Commit
  BY <1>1, ElementOfSeq
<1>3. ASSUME NEW n \in 1..Len(ours)
      PROVE  /\ SubSeq(ours, 1, n) \in Seq(Commit)
             /\ Len(SubSeq(ours, 1, n)) = n
             /\ \A i \in 1..n : SubSeq(ours, 1, n)[i] = ours[i]
  <2>1. \A i \in 1..n : ours[i] \in Commit
    BY <1>1, <1>2
  <2>2. /\ SubSeq(ours, 1, n) \in Seq(Commit)
        /\ Len(SubSeq(ours, 1, n)) = IF 1 <= n THEN n - 1 + 1 ELSE 0
        /\ \A i \in 1..(n - 1 + 1) : SubSeq(ours, 1, n)[i] = ours[1 + i - 1]
    BY <2>1, SubSeqProperties
  <2> QED  BY <2>2
<1>4. Shared(1)
  <2>1. 1 \in 1..Len(ours)
    BY <1>1
  <2>2. /\ SubSeq(ours, 1, 1) \in Seq(Commit)
        /\ Len(SubSeq(ours, 1, 1)) = 1
        /\ \A i \in 1..1 : SubSeq(ours, 1, 1)[i] = ours[i]
    BY <1>3, <2>1
  <2>3. Len(SubSeq(ours, 1, 1)) <= Len(onto) /\ \A i \in 1..Len(SubSeq(ours, 1, 1)) : SubSeq(ours, 1, 1)[i] = onto[i]
    BY <1>1, <2>2
  <2> QED  BY <1>1, <2>2, <2>3, PrefixPointwise DEF Reaches
<1>5. \E k \in 0..Len(ours) : Parting(k)
  <2>1. Beyond \subseteq Nat /\ Len(ours) + 1 \in Beyond
    BY <1>1
  <2>2. PICK m \in Beyond : \A k \in Beyond : m <= k
    <3> HIDE DEF Beyond
    <3> QED  BY <2>1, LeastNumber
  <2>3. m # 1
    BY <1>1, <1>4
  <2>4. m - 1 \in 1..Len(ours) /\ m - 1 \notin Beyond
    BY <1>1, <2>1, <2>2, <2>3
  <2>5. Shared(m - 1)
    BY <1>1, <2>4
  <2>6. m - 1 = Len(ours) \/ ~Shared(m - 1 + 1)
    <3>1. m - 1 + 1 = m
      BY <2>1
    <3> QED  BY <1>1, <2>1, <2>2, <3>1
  <2> QED  BY <1>1, <2>4, <2>5, <2>6
<1> DEFINE n == CHOOSE k \in 0..Len(ours) : Parting(k)
<1>6. n \in 0..Len(ours) /\ Parting(n)
  <2> HIDE DEF Parting
  <2> QED  BY <1>5
<1>7. CommonAncestor(ours, onto) = SubSeq(ours, 1, n)
  BY DEF CommonAncestor
<1> HIDE DEF n
<1>8. n \in 1..Len(ours)
  BY <1>1, <1>4, <1>6
<1>9. Tree(SubSeq(ours, 1, n)) = ours[n].tree
  BY <1>3, <1>8 DEF Tree
<1> QED  BY <1>6, <1>7, <1>8, <1>9 DEF Part

LEMMA CommonAncestorIsPast ==
  ASSUME NEW ours \in Line, NEW onto \in Line, ours[1] = onto[1]
  PROVE  \E n \in 1..Len(ours) : Tree(CommonAncestor(ours, onto)) = ours[n].tree
<1>1. PICK n \in 1..Len(ours) : Part(ours, onto, n)
  BY CommonAncestorParts
<1> QED  BY <1>1 DEF Part

\* A replay that overlaps with nothing adds to every file of its base.
LEMMA ReplayedSound ==
  ASSUME NEW h \in Host, NEW ours \in Line, NEW onto \in Line, Sound(ours), Sound(onto),
         ~Overlap(ours, onto)
  PROVE  Sound(Replayed(h, ours, onto))
<1> DEFINE base == CommonAncestor(ours, onto)
           mine == Changed(base, ours)
           tree == [f \in File |-> IF f \in mine THEN Tree(ours)[f] ELSE Tree(onto)[f]]
<1>1. PICK n \in 1..Len(ours) : Tree(base) = ours[n].tree
  <2>1. ours[1] = onto[1]
    BY DEF Sound
  <2> QED  BY <2>1, CommonAncestorIsPast
<1>2. Changed(base, ours) \cap Changed(base, onto) = {}
  BY DEF Overlap
<1> HIDE DEF base
<1>3. ASSUME NEW f \in File PROVE IsPrefix(Tree(onto)[f], tree[f])
  <2>1. Tree(onto)[f] \in Seq(Host \cup Nat)
    BY LineType DEF Trees
  <2>2. CASE f \notin mine
    BY <2>1, <2>2, PrefixReflexive
  <2>3. CASE f \in mine
    <3>1. Tree(onto)[f] = Tree(base)[f]
      BY <1>2, <2>3 DEF Changed
    <3>2. Len(ours) \in 1..Len(ours) /\ n \in 1..Len(ours)
      BY LineType
    <3>3. IsPrefix(ours[n].tree[f], ours[Len(ours)].tree[f])
      BY <3>2 DEF Sound, Grows
    <3> QED  BY <1>1, <2>3, <3>1, <3>3 DEF Tree
  <2> QED  BY <2>2, <2>3
<1>4. tree \in Trees
  <2> HIDE DEF mine
  <2> QED  BY LineType DEF Trees
<1>5. Sound(CommitOn(onto, h, tree, {}))
  <2> HIDE DEF tree
  <2> QED  BY <1>3, <1>4, CommitOnSound
<1> QED  BY <1>5 DEF Replayed, base

\* A push that follows a rejection, or the one a reconnect makes, sends a line
\* that stands on what was fetched.
Onward(h) ==
  doing[h] \in Pushing /\ (attempt[h] > 0 \/ doing[h] = "reconnect") => Reaches(fetched[h], head[h])

HistoryInv ==
  /\ TypeOK
  /\ Sound(main)
  /\ \A h \in Host : Sound(head[h]) /\ Sound(fetched[h]) /\ Onward(h)

\* What a rejected push leaves is sound, and what is tried again goes onward.
LEMMA RejectedSound ==
  ASSUME TypeOK, NEW h \in Host, NEW line \in Line, Rejected(h, line),
         Sound(line), Sound(head[h])
  PROVE  /\ Sound(head'[h]) /\ Sound(fetched'[h]) /\ Onward(h)'
         /\ \A k \in Host \ {h} : /\ fetched'[k] = fetched[k] /\ head'[k] = head[k]
                                  /\ doing'[k] = doing[k] /\ attempt'[k] = attempt[k]
<1> USE DEF TypeOK
<1>1. head[h] \in Line /\ Sound(OnFetchedHead(head[h], line))
  BY DEF OnFetchedHead
<1>2. Reaches(line, Replayed(h, head[h], line))
  BY <1>1, ReplayedExtends
<1>3. ~Overlap(head[h], line) => Sound(Replayed(h, head[h], line))
  BY <1>1, ReplayedSound
<1>4. fetched' = [fetched EXCEPT ![h] = line]
  BY DEF Rejected
<1>5. \/ \E l : Sound(l) /\ GivesUp(h, l)
      \/ ~Overlap(head[h], line) /\ TriesAgain(h, Replayed(h, head[h], line))
  BY <1>1, <1>3 DEF Rejected, FlushRejected, ReconnectRejected
<1>6. ASSUME NEW l, Sound(l), GivesUp(h, l)
      PROVE  /\ Sound(head'[h]) /\ Sound(fetched'[h]) /\ Onward(h)'
             /\ \A k \in Host \ {h} : /\ fetched'[k] = fetched[k] /\ head'[k] = head[k]
                                      /\ doing'[k] = doing[k] /\ attempt'[k] = attempt[k]
  BY <1>4, <1>6 DEF GivesUp, Onward, Pushing, Flushing, Idle
<1>7. CASE ~Overlap(head[h], line) /\ TriesAgain(h, Replayed(h, head[h], line))
  BY <1>2, <1>3, <1>4, <1>7 DEF TriesAgain, Onward
<1> QED  BY <1>5, <1>6, <1>7

LEMMA HistoryStep ==
  ASSUME HistoryInv, [Next]_vars
  PROVE  HistoryInv'
<1>1. TypeOK'
  BY TypeStep DEF HistoryInv
<1>2. CASE UNCHANGED vars
  BY <1>1, <1>2 DEF vars, HistoryInv, Onward
<1> SUFFICES ASSUME NEW h \in Host,
                    \/ \E r \in Record : Put(h, r)
                    \/ \E l \in Log : AppendThread(h, l)
                    \/ \E d \in Delivery : Receive(h, d)
                    \/ \E e \in Effect : WriteEffect(h, e)
                    \/ SettleRecord(h)
                    \/ TickBegins(h)
                    \/ TakeRefused(h)
                    \/ TickFails(h)
                    \/ TickEnds(h)
                    \/ PushLands(h)
                    \/ PushRejected(h)
                    \/ PushUnreachable(h)
                    \/ PushUnheard(h)
                    \/ Disconnect(h)
                    \/ Reconnect(h)
                    \/ CrashAndOpen(h)
             PROVE  HistoryInv'
  BY <1>2 DEF Next
<1> DEFINE Others == \A k \in Host \ {h} : /\ fetched'[k] = fetched[k] /\ head'[k] = head[k]
                                           /\ doing'[k] = doing[k] /\ attempt'[k] = attempt[k]
           Kept == Others /\ Sound(main') /\ Sound(head'[h]) /\ Sound(fetched'[h]) /\ Onward(h)'
<1> SUFFICES Kept
  <2>1. ASSUME NEW k \in Host, k # h, Others PROVE Sound(head'[k]) /\ Sound(fetched'[k]) /\ Onward(k)'
    BY <2>1 DEF HistoryInv, Onward
  <2> QED  BY <1>1, <2>1 DEF HistoryInv
<1>3. /\ TypeOK
      /\ main \in Line /\ head \in [Host -> Line] /\ fetched \in [Host -> Line]
      /\ DOMAIN doing = Host /\ DOMAIN attempt = Host
      /\ head[h] \in Line /\ fetched[h] \in Line
      /\ Sound(main) /\ Sound(head[h]) /\ Sound(fetched[h]) /\ Onward(h)
  BY DEF HistoryInv, TypeOK
<1>4. ASSUME NEW f \in File, NEW entries \in Seq(Host \cup Nat)
      PROVE  Sound(CommitOn(head[h], h, Added(head[h], f, entries), {}))
  <2>1. /\ Added(head[h], f, entries) \in Trees
        /\ \A g \in File : IsPrefix(Tree(head[h])[g], Added(head[h], f, entries)[g])
    BY <1>3, AddedExtends
  <2> QED  BY <1>3, <2>1, CommitOnSound
<1>5. <<h>> \in Seq(Host \cup Nat)
  OBVIOUS
<1>6. ASSUME NEW line, NEW flush \in Flushing, Sound(line), MayWrite(h), Committed(h, line, flush)
      PROVE  Kept
  <2>1. doing[h] \notin Pushing
    BY <1>6 DEF MayWrite, MayCall, Pushing, Flushing, Idle, Failed, Tick
  <2>2. doing'[h] = flush \/ doing'[h] \notin Pushing
    BY <1>3, <1>6, <2>1 DEF Committed
  <2>3. attempt'[h] = 0 /\ flush # "reconnect"
    BY <1>3, <1>6 DEF Committed, Flushing
  <2>4. Onward(h)'
    BY <2>2, <2>3 DEF Onward
  <2> QED  BY <1>3, <1>6, <2>4 DEF Committed
<1>7. "call" \in Flushing
  BY DEF Flushing
<1>8. ASSUME NEW r \in Record, Put(h, r) PROVE Kept
  BY <1>4, <1>5, <1>6, <1>7, <1>8, FileNames DEF Put
<1>9. ASSUME NEW l \in Log, AppendThread(h, l) PROVE Kept
  BY <1>4, <1>5, <1>6, <1>7, <1>9, FileNames DEF AppendThread
<1>10. ASSUME NEW d \in Delivery, Receive(h, d) PROVE Kept
  BY <1>4, <1>5, <1>6, <1>7, <1>10, FileNames DEF Receive, MayWrite
<1>11. ASSUME NEW e \in Effect, WriteEffect(h, e) PROVE Kept
  <2>1. Tree(head[h]) \in Trees
    BY <1>3, LineType
  <2>2. \A g \in File : IsPrefix(Tree(head[h])[g], Tree(head[h])[g])
    BY <2>1, PrefixReflexive DEF Trees
  <2>3. Sound(CommitOn(head[h], h, Tree(head[h]), {e}))
    BY <1>3, <2>1, <2>2, CommitOnSound
  <2> QED  BY <1>6, <1>7, <1>11, <2>3 DEF WriteEffect
<1>12. CASE SettleRecord(h)
  <2> DEFINE line == CommitOn(head[h], h, Added(head[h], h, owed[h]), {})
  <2>1. owed[h] \in Seq(Host \cup Nat)
    BY <1>3, SeqMonotonic DEF TypeOK
  <2>2. Sound(line)
    BY <1>4, <2>1, FileNames
  <2> HIDE DEF line
  <2>3. /\ head' = [head EXCEPT ![h] = line]
        /\ \/ doing' = [doing EXCEPT ![h] = "run record"] /\ attempt' = [attempt EXCEPT ![h] = 0]
           \/ doing' = doing /\ attempt' = attempt /\ doing[h] = Idle
        /\ UNCHANGED <<main, fetched>>
    BY <1>12 DEF SettleRecord, line
  <2>4. (doing'[h] = "run record" /\ attempt'[h] = 0) \/ doing'[h] = Idle
    BY <1>3, <2>3
  <2>5. Onward(h)'
    <3>1. doing'[h] \notin Pushing \/ (attempt'[h] = 0 /\ doing'[h] # "reconnect")
      BY <2>4 DEF Idle, Pushing, Flushing
    <3> QED  BY <3>1 DEF Onward
  <2> QED  BY <1>3, <2>2, <2>3, <2>5
<1>13. CASE TickBegins(h)
  BY <1>3, <1>13 DEF TickBegins, OnFetchedHead, Onward, Tick, Pushing, Flushing
<1>14. CASE TakeRefused(h)
  BY <1>3, <1>14 DEF TakeRefused, OnFetchedHead, Onward, Tick, Pushing, Flushing
<1>15. CASE TickFails(h)
  BY <1>3, <1>15 DEF TickFails, Onward, Failed, Pushing, Flushing
<1>16. CASE TickEnds(h)
  <2>1. PICK k \in IF writes < MaxWrites THEN 0..1 ELSE {0} :
          LET entries == owed[h] \o [i \in 1..k |-> said[h] + i]
              line == IF entries = <<>> THEN head[h]
                      ELSE CommitOn(head[h], h, Added(head[h], h, entries), {})
              over == offline[h] \/ line = fetched[h]
          IN  /\ head' = [head EXCEPT ![h] = line]
              /\ doing' = [doing EXCEPT ![h] = IF over THEN Idle ELSE "tick ends"]
              /\ attempt' = [attempt EXCEPT ![h] = 0]
              /\ UNCHANGED <<main, fetched>>
    BY <1>16 DEF TickEnds
  <2> DEFINE entries == owed[h] \o [i \in 1..k |-> said[h] + i]
             line == IF entries = <<>> THEN head[h]
                     ELSE CommitOn(head[h], h, Added(head[h], h, entries), {})
  <2>2. k \in Nat
    <3>1. k \in IF writes < MaxWrites THEN 0..1 ELSE {0}
      BY <2>1
    <3> QED  BY <3>1
  <2>3. entries \in Seq(Host \cup Nat)
    BY <1>3, <2>2, EntriesType
  <2> HIDE DEF entries
  <2>4. Sound(line)
    BY <1>3, <1>4, <2>3, FileNames
  <2> HIDE DEF line
  <2>5. /\ head' = [head EXCEPT ![h] = line]
        /\ doing' = [doing EXCEPT ![h] = Idle] \/ doing' = [doing EXCEPT ![h] = "tick ends"]
        /\ attempt' = [attempt EXCEPT ![h] = 0]
        /\ UNCHANGED <<main, fetched>>
    BY <2>1 DEF entries, line
  <2>6. doing'[h] \in {"tick ends", Idle} /\ attempt'[h] = 0
    BY <1>3, <2>5
  <2>7. Onward(h)'
    <3>1. attempt'[h] = 0 /\ doing'[h] # "reconnect"
      BY <2>6 DEF Idle
    <3> QED  BY <3>1 DEF Onward
  <2> QED  BY <1>3, <2>4, <2>5, <2>7
<1>17. CASE PushLands(h)
  BY <1>3, <1>17 DEF PushLands, Onward, Idle, Pushing, Flushing
<1>18. CASE PushRejected(h)
  BY <1>3, <1>18, RejectedSound DEF PushRejected
<1>19. CASE PushUnreachable(h)
  BY <1>3, <1>19, RejectedSound DEF PushUnreachable
<1>20. CASE PushUnheard(h)
  BY <1>3, <1>20, RejectedSound DEF PushUnheard
<1>21. CASE Disconnect(h)
  BY <1>3, <1>21 DEF Disconnect, Onward
<1>22. CASE Reconnect(h)
  <2> DEFINE local == OnFetchedHead(head[h], main)
             replayed == IF Reaches(main, local) THEN local ELSE Replayed(h, local, main)
             over == local = main \/ (~Reaches(main, local) /\ Overlap(local, main))
  <2>1. local \in Line /\ Sound(local) /\ Reaches(main, main)
    BY <1>3, StandsOnItself DEF OnFetchedHead
  <2> HIDE DEF local
  <2>2. ~over => Sound(replayed) /\ Reaches(main, replayed)
    BY <1>3, <2>1, ReplayedSound, ReplayedExtends
  <2> HIDE DEF over, replayed
  <2>3. /\ fetched' = [fetched EXCEPT ![h] = main]
        /\ head' = [head EXCEPT ![h] = IF over THEN main ELSE replayed]
        /\ doing' = [doing EXCEPT ![h] = IF over THEN Idle ELSE "reconnect"]
        /\ UNCHANGED main
        /\ attempt' = [attempt EXCEPT ![h] = 0]
    BY <1>22 DEF Reconnect, local, replayed, over
  <2> QED  BY <1>3, <2>1, <2>2, <2>3 DEF Onward
<1>23. CASE CrashAndOpen(h)
  BY <1>3, <1>23 DEF CrashAndOpen, OnFetchedHead, Onward, Idle, Pushing, Flushing
<1> QED  BY <1>8, <1>9, <1>10, <1>11, <1>12, <1>13, <1>14, <1>15, <1>16, <1>17, <1>18, <1>19,
            <1>20, <1>21, <1>22, <1>23

LEMMA HistoryHolds == Spec => []HistoryInv
<1>1. Init => HistoryInv
  <2>1. Sound(Root)
    <3> DEFINE first == [by |-> "init", tree |-> [f \in File |-> <<>>], effects |-> {}]
    <3>1. Len(Root) = 1 /\ Root[1] = first
      BY DEF Root
    <3>2. <<>> \in Seq(Nat)
      BY EmptySeq
    <3>3. IsPrefix(<<>>, <<>>)
      BY <3>2, PrefixReflexive
    <3>4. \A f \in File : first.tree[f] = <<>>
      OBVIOUS
    <3> HIDE DEF first
    <3> QED  BY <3>1, <3>3, <3>4 DEF Sound, Grows
  <2>2. Init => TypeOK
    BY RootType, LineAssumption DEF Init, TypeOK
  <2> QED  BY <2>1, <2>2 DEF Init, HistoryInv, Onward, Idle, Pushing, Flushing
<1>2. HistoryInv /\ [Next]_vars => HistoryInv'
  BY HistoryStep
<1> QED  BY <1>1, <1>2, PTL DEF Spec

\* Whatever is written between ticks, cut, crashed or lost: no commit on any
\* line takes an entry from a file its parent holds (replay_onto, hard_reset).
THEOREM HistoriesAlwaysGrow == Spec => []HistoriesGrow
<1>1. HistoryInv => HistoriesGrow
  BY DEF HistoryInv, Sound, HistoriesGrow
<1> QED  BY <1>1, HistoryHolds, PTL

\* A longer history holds, file by file, what the shorter one held.
LEMMA TreesGrow ==
  ASSUME NEW s \in Line, NEW t \in Line, Reaches(s, t), Sound(t), NEW f \in File
  PROVE  IsPrefix(Tree(s)[f], Tree(t)[f])
<1>1. /\ s \in Seq(Commit) /\ t \in Seq(Commit)
      /\ Len(s) \in Nat \ {0} /\ Len(t) \in Nat \ {0}
  BY LineType
<1>2. Len(s) <= Len(t) /\ s[Len(s)] = t[Len(s)]
  BY <1>1, PrefixPointwise DEF Reaches
<1>3. Len(t) \in 1..Len(t) /\ Len(s) \in 1..Len(t)
  BY <1>1, <1>2
<1> QED  BY <1>2, <1>3 DEF Sound, Grows, Tree

\* With hosts that write only in whole ticks no push takes anything from a
\* file that stands on main (git-only.yaml single_writer).
THEOREM TicksOverwriteNothing == ASSUME TickOnly PROVE Spec => NothingOverwritten
<1>1. StandingInv /\ HistoryInv /\ HistoryInv' /\ [Next]_vars
        => [\A f \in File : IsPrefix(Tree(main)[f], Tree(main')[f])]_main
  BY StandingStep, TreesGrow DEF HistoryInv, TypeOK
<1> QED  BY <1>1, StandingHolds, HistoryHolds, PTL DEF Spec, NothingOverwritten

\* A push after a rejection, and the push of a reconnect, extend main and
\* every file on it, whatever state the checkout was in (replay_onto, 165).
THEOREM ReplaysExtendTheLine == Spec => ReplayExtendsLine
<1> DEFINE Extends(h) ==
       /\ doing[h] \in Pushing
       /\ attempt[h] > 0 \/ doing[h] = "reconnect"
       /\ doing'[h] = Idle
       /\ main' # main
       => /\ Reaches(main, main')
          /\ \A f \in File : IsPrefix(Tree(main)[f], Tree(main')[f])
<1>1. HistoryInv /\ HistoryInv' /\ [Next]_vars => [\A h \in Host : Extends(h)]_vars
  <2> SUFFICES ASSUME HistoryInv, HistoryInv', [Next]_vars, NEW h \in Host,
                      doing[h] \in Pushing,
                      attempt[h] > 0 \/ doing[h] = "reconnect",
                      doing'[h] = Idle,
                      main' # main
               PROVE  Reaches(main, main')
    BY TreesGrow DEF HistoryInv, TypeOK
  <2>1. main = fetched[h] /\ main' = head[h]
    <3>1. doing'[h] # doing[h] /\ doing[h] # Idle
      BY DEF Idle, Pushing, Flushing
    <3>2. PICK k \in Host : \/ PushLands(k) \/ PushUnheard(k)
      <4>1. ASSUME NEW k \in Host, NEW line, NEW flush, Committed(k, line, flush) PROVE FALSE
        BY <4>1 DEF Committed
      <4> QED  BY <4>1 DEF Next, vars, Put, AppendThread, Receive, WriteEffect, SettleRecord,
                 TickBegins, TakeRefused, TickFails, TickEnds, PushRejected, PushUnreachable,
                 Disconnect, Reconnect, CrashAndOpen
    <3>3. k = h
      BY <3>1, <3>2 DEF PushLands, PushUnheard, Rejected, FlushRejected, ReconnectRejected,
                        GivesUp, TriesAgain, HistoryInv, TypeOK
    <3> QED  BY <3>2, <3>3 DEF PushLands, PushUnheard
  <2> QED  BY <2>1 DEF HistoryInv, Onward
<1> QED  BY <1>1, HistoryHolds, PTL DEF Spec, ReplayExtendsLine

-----------------------------------------------------------------------------
(* What a host said in its run record *)

\* A sequence has the entries of what begins it.
LEMMA PrefixEntries ==
  ASSUME NEW S, NEW s \in Seq(S), NEW t \in Seq(S), IsPrefix(s, t)
  PROVE  ToSet(s) \subseteq ToSet(t)
<1>1. Len(s) <= Len(t) /\ \A i \in 1..Len(s) : s[i] = t[i]
  BY PrefixPointwise
<1>2. DOMAIN s = 1..Len(s) /\ DOMAIN t = 1..Len(t) /\ Len(s) \in Nat /\ Len(t) \in Nat
  BY LenProperties
<1> QED  BY <1>1, <1>2 DEF ToSet

LEMMA ConcatEntries ==
  ASSUME NEW S, NEW s \in Seq(S), NEW t \in Seq(S)
  PROVE  ToSet(s \o t) = ToSet(s) \cup ToSet(t)
<1>1. /\ Len(s) \in Nat /\ Len(t) \in Nat
      /\ DOMAIN s = 1..Len(s) /\ DOMAIN t = 1..Len(t)
  BY LenProperties
<1>2. /\ DOMAIN (s \o t) = 1..(Len(s) + Len(t))
      /\ \A i \in 1..(Len(s) + Len(t)) : (s \o t)[i] = IF i <= Len(s) THEN s[i] ELSE t[i - Len(s)]
  BY ConcatProperties, LenProperties
<1>3. \A i \in 1..Len(s) : i \in 1..(Len(s) + Len(t)) /\ (s \o t)[i] = s[i]
  BY <1>1, <1>2
<1>4. \A i \in 1..Len(t) : i + Len(s) \in 1..(Len(s) + Len(t)) /\ (s \o t)[i + Len(s)] = t[i]
  BY <1>1, <1>2
<1>5. \A i \in 1..(Len(s) + Len(t)) : i \in 1..Len(s) \/ i - Len(s) \in 1..Len(t)
  BY <1>1
<1>6. ToSet(s) \subseteq ToSet(s \o t) /\ ToSet(t) \subseteq ToSet(s \o t)
  <2>1. \A x \in ToSet(s) : \E i \in 1..Len(s) : x = (s \o t)[i]
    BY <1>1, <1>3 DEF ToSet
  <2>2. \A x \in ToSet(t) : \E i \in 1..Len(t) : x = (s \o t)[i + Len(s)]
    BY <1>1, <1>4 DEF ToSet
  <2>3. \A j \in 1..(Len(s) + Len(t)) : (s \o t)[j] \in ToSet(s \o t)
    BY <1>2 DEF ToSet
  <2> QED  BY <1>3, <1>4, <2>1, <2>2, <2>3
<1>7. ToSet(s \o t) \subseteq ToSet(s) \cup ToSet(t)
  <2>1. ASSUME NEW i \in 1..(Len(s) + Len(t)) PROVE (s \o t)[i] \in ToSet(s) \cup ToSet(t)
    <3>1. CASE i \in 1..Len(s)
      BY <1>1, <1>3, <3>1 DEF ToSet
    <3>2. CASE i - Len(s) \in 1..Len(t)
      BY <1>1, <1>2, <3>2 DEF ToSet
    <3> QED  BY <1>5, <3>1, <3>2
  <2> QED  BY <1>2, <2>1 DEF ToSet
<1> QED  BY <1>6, <1>7

\* A replay that overlaps with nothing keeps what its host has of every file.
LEMMA ReplayedKeeps ==
  ASSUME NEW h \in Host, NEW ours \in Line, NEW onto \in Line, Sound(ours), Sound(onto), NEW f \in File
  PROVE  IsPrefix(Tree(ours)[f], Tree(Replayed(h, ours, onto))[f])
<1> DEFINE base == CommonAncestor(ours, onto)
           mine == Changed(base, ours)
           tree == [g \in File |-> IF g \in mine THEN Tree(ours)[g] ELSE Tree(onto)[g]]
<1>0. ours[1] = onto[1]
  BY DEF Sound
<1>1. PICK n \in 1..Len(ours) : Part(ours, onto, n)
  BY <1>0, CommonAncestorParts
<1>2. base \in Line
  <2>1. ours \in Seq(Commit) /\ Len(ours) \in Nat /\ \A i \in 1..n : ours[i] \in Commit
    BY LineType, ElementOfSeq
  <2>2. SubSeq(ours, 1, n) \in Seq(Commit) /\ Len(SubSeq(ours, 1, n)) = n
    BY <2>1, SubSeqProperties
  <2>3. base = SubSeq(ours, 1, n) /\ Len(base) # 0
    BY <1>1, <2>2 DEF Part
  <2> QED  BY <2>2, <2>3, EmptySeq DEF Line
<1>7. Reaches(base, onto)
  BY <1>1 DEF Part
<1> HIDE DEF base
<1>3. /\ Tree(ours)[f] \in Seq(Host \cup Nat) /\ Tree(onto)[f] \in Seq(Host \cup Nat)
      /\ IsPrefix(Tree(base)[f], Tree(onto)[f])
  BY <1>7, <1>2, LineType, TreesGrow DEF Trees
<1>4. IsPrefix(Tree(ours)[f], tree[f])
  <2>1. CASE f \in mine
    BY <1>3, <2>1, PrefixReflexive
  <2>2. CASE f \notin mine
    BY <1>3, <2>2 DEF Changed
  <2> QED  BY <2>1, <2>2
<1>5. tree \in Trees
  <2> HIDE DEF mine
  <2> QED  BY LineType DEF Trees
<1>6. Tree(CommitOn(onto, h, tree, {})) = tree
  <2> HIDE DEF tree
  <2> QED  BY <1>5, CommitOnExtends
<1> QED  BY <1>4, <1>6 DEF Replayed, base

\* What a host owes its record is on its checkout while it is being pushed, and
\* what it owes no longer is on main.
Kept(h) ==
  /\ \A n \in 1..said[h] : n \in ToSet(Tree(main)[h]) \cup ToSet(owed[h])
  /\ doing[h] \in {"tick ends", "run record"} => ToSet(owed[h]) \subseteq ToSet(Tree(head[h])[h])

KeptInv == \A h \in Host : Kept(h)

\* A host that does nothing itself loses nothing while main grows.
LEMMA OthersKept ==
  ASSUME HistoryInv, HistoryInv', KeptInv, Reaches(main, main'), NEW k \in Host,
         head'[k] = head[k], doing'[k] = doing[k], owed'[k] = owed[k], said'[k] = said[k]
  PROVE  Kept(k)'
<1>1. IsPrefix(Tree(main)[k], Tree(main')[k])
  BY TreesGrow, FileNames DEF HistoryInv, TypeOK
<1>2. Tree(main)[k] \in Seq(Host \cup Nat) /\ Tree(main')[k] \in Seq(Host \cup Nat)
  BY LineType, FileNames DEF HistoryInv, TypeOK, Trees
<1>3. ToSet(Tree(main)[k]) \subseteq ToSet(Tree(main')[k])
  BY <1>1, <1>2, PrefixEntries
<1> QED  BY <1>3 DEF KeptInv, Kept

\* Neither does a host whose entries are still owed, whose checkout is at main
\* or holds a replay of what it was pushing.
LEMMA RejectedKept ==
  ASSUME HistoryInv, HistoryInv', KeptInv, Reaches(main, main'), NEW h \in Host, NEW line \in Line,
         Sound(line), Rejected(h, line), doing[h] \in {"tick ends", "run record"}
  PROVE  Kept(h)'
<1>1. owed' = owed /\ said' = said
  BY DEF Rejected
<1>2. IsPrefix(Tree(main)[h], Tree(main')[h])
  BY TreesGrow, FileNames DEF HistoryInv, TypeOK
<1>3. Tree(main)[h] \in Seq(Host \cup Nat) /\ Tree(main')[h] \in Seq(Host \cup Nat)
  BY LineType, FileNames DEF HistoryInv, TypeOK, Trees
<1>4. \A n \in 1..said'[h] : n \in ToSet(Tree(main')[h]) \cup ToSet(owed'[h])
  BY <1>1, <1>2, <1>3, PrefixEntries DEF KeptInv, Kept
<1>5. CASE doing'[h] = Idle
  BY <1>4, <1>5 DEF Kept, Idle
<1>6. CASE doing'[h] # Idle
  <2>1. TriesAgain(h, Replayed(h, head[h], line))
    BY <1>6 DEF Rejected, FlushRejected, GivesUp, HistoryInv, TypeOK
  <2>2. head[h] \in Line /\ Sound(head[h])
    BY DEF HistoryInv, TypeOK
  <2>3. head'[h] = Replayed(h, head[h], line) /\ head'[h] \in Line
    BY <2>1 DEF TriesAgain, HistoryInv, TypeOK
  <2>4. IsPrefix(Tree(head[h])[h], Tree(head'[h])[h])
    BY <2>2, <2>3, ReplayedKeeps, FileNames
  <2>5. Tree(head[h])[h] \in Seq(Host \cup Nat) /\ Tree(head'[h])[h] \in Seq(Host \cup Nat)
    BY <2>2, <2>3, LineType, FileNames DEF Trees
  <2>6. ToSet(Tree(head[h])[h]) \subseteq ToSet(Tree(head'[h])[h])
    BY <2>4, <2>5, PrefixEntries
  <2> QED  BY <1>1, <1>4, <2>6 DEF Kept, KeptInv
<1> QED  BY <1>5, <1>6

\* The entries of a file a host adds to.
LEMMA AddedEntries ==
  ASSUME NEW line \in Line, NEW h \in Host, NEW entries \in Seq(Host \cup Nat)
  PROVE  LET next == CommitOn(line, h, Added(line, h, entries), {})
         IN  /\ next \in Line /\ Len(next) = Len(line) + 1
             /\ Tree(next)[h] = Tree(line)[h] \o entries
             /\ ToSet(Tree(next)[h]) = ToSet(Tree(line)[h]) \cup ToSet(entries)
<1>1. Tree(line) \in Trees /\ Tree(line)[h] \in Seq(Host \cup Nat) /\ h \in File
  BY LineType, FileNames DEF Trees
<1>2. Added(line, h, entries) \in Trees /\ Added(line, h, entries)[h] = Tree(line)[h] \o entries
  BY <1>1, AddedExtends DEF Added, Trees
<1>3. /\ CommitOn(line, h, Added(line, h, entries), {}) \in Line
      /\ Len(CommitOn(line, h, Added(line, h, entries), {})) = Len(line) + 1
      /\ Tree(CommitOn(line, h, Added(line, h, entries), {})) = Added(line, h, entries)
  BY <1>2, CommitOnExtends
<1>4. ToSet(Tree(line)[h] \o entries) = ToSet(Tree(line)[h]) \cup ToSet(entries)
  BY <1>1, ConcatEntries
<1> QED  BY <1>2, <1>3, <1>4

LEMMA KeptStep ==
  ASSUME TickOnly, StandingInv, HistoryInv, KeptInv, [Next]_vars
  PROVE  KeptInv'
<1>1. HistoryInv' /\ StandingInv' /\ Reaches(main, main')
  BY HistoryStep, StandingStep
<1>2. CASE UNCHANGED vars
  BY <1>2 DEF vars, KeptInv, Kept
<1> SUFFICES ASSUME NEW h \in Host,
                    \/ \E r \in Record : Put(h, r)
                    \/ \E l \in Log : AppendThread(h, l)
                    \/ \E d \in Delivery : Receive(h, d)
                    \/ \E e \in Effect : WriteEffect(h, e)
                    \/ SettleRecord(h)
                    \/ TickBegins(h)
                    \/ TakeRefused(h)
                    \/ TickFails(h)
                    \/ TickEnds(h)
                    \/ PushLands(h)
                    \/ PushRejected(h)
                    \/ PushUnreachable(h)
                    \/ PushUnheard(h)
                    \/ Disconnect(h)
                    \/ Reconnect(h)
                    \/ CrashAndOpen(h)
             PROVE  KeptInv'
  BY <1>2 DEF Next
<1> DEFINE Others == \A k \in Host \ {h} : /\ head'[k] = head[k] /\ doing'[k] = doing[k]
                                           /\ owed'[k] = owed[k] /\ said'[k] = said[k]
<1> SUFFICES Others /\ Kept(h)'
  BY <1>1, OthersKept DEF KeptInv
<1>3. /\ main \in Line /\ head \in [Host -> Line] /\ fetched \in [Host -> Line]
      /\ DOMAIN doing = Host /\ owed \in [Host -> Seq(Nat)] /\ said \in [Host -> Nat]
      /\ head[h] \in Line /\ fetched[h] \in Line /\ main' \in Line
      /\ Standing(h) /\ Kept(h) /\ Sound(main) /\ Sound(fetched[h]) /\ Sound(head[h])
      /\ owed[h] \in Seq(Host \cup Nat)
  BY <1>1, SeqMonotonic DEF StandingInv, HistoryInv, KeptInv, TypeOK
<1>4. ~MayCall(h)
  BY DEF MayCall, TickOnly
\* A host that is not at a push may write, or be at the start or the end of a tick.
<1>5. ASSUME owed'[h] = owed[h], said'[h] = said[h], doing'[h] \notin {"tick ends", "run record"}, main' = main
      PROVE  Kept(h)'
  BY <1>3, <1>5 DEF Kept
<1>6. ASSUME NEW line, NEW flush, MayWrite(h), Committed(h, line, flush), UNCHANGED <<owed, said>>
      PROVE  Others /\ Kept(h)'
  <2>1. doing[h] = Tick /\ doing' = doing
    <3>1. doing[h] = Tick /\ Tick # Idle
      BY <1>4, <1>6 DEF MayWrite, Tick, Idle
    <3>2. doing' = [doing EXCEPT ![h] = doing[h]]
      BY <1>6, <3>1 DEF Committed
    <3> QED  BY <3>1, <3>2 DEF HistoryInv, TypeOK
  <2> QED  BY <1>3, <1>5, <1>6, <2>1 DEF Committed, Tick
<1>7. ASSUME NEW r \in Record, Put(h, r) PROVE Others /\ Kept(h)'
  BY <1>6, <1>7 DEF Put
<1>8. ASSUME NEW l \in Log, AppendThread(h, l) PROVE Others /\ Kept(h)'
  BY <1>6, <1>8 DEF AppendThread
<1>9. ASSUME NEW d \in Delivery, Receive(h, d) PROVE FALSE
  BY <1>4, <1>9 DEF Receive
<1>10. ASSUME NEW e \in Effect, WriteEffect(h, e) PROVE Others /\ Kept(h)'
  BY <1>6, <1>10 DEF WriteEffect
<1>11. CASE SettleRecord(h)
  <2> DEFINE line == CommitOn(head[h], h, Added(head[h], h, owed[h]), {})
  <2>1. ToSet(owed[h]) \subseteq ToSet(Tree(line)[h])
    BY <1>3, AddedEntries
  <2>2. /\ head' = [head EXCEPT ![h] = line] /\ doing' = [doing EXCEPT ![h] = "run record"]
        /\ UNCHANGED <<main, owed, said>>
    BY <1>3, <1>11 DEF SettleRecord, Standing
  <2> HIDE DEF line
  <2> QED  BY <1>3, <2>1, <2>2 DEF Kept
<1>12. CASE TickBegins(h)
  BY <1>3, <1>5, <1>12 DEF TickBegins, Tick
<1>13. CASE TakeRefused(h) \/ TickFails(h) \/ Disconnect(h) \/ CrashAndOpen(h)
  BY <1>13 DEF TakeRefused, TickFails, Disconnect, CrashAndOpen, TickOnly
<1>14. CASE Reconnect(h)
  BY <1>3, <1>14 DEF Reconnect, Standing, Connected
<1>15. CASE TickEnds(h)
  <2>1. PICK k \in IF writes < MaxWrites THEN 0..1 ELSE {0} :
          LET entries == owed[h] \o [i \in 1..k |-> said[h] + i]
              line == IF entries = <<>> THEN head[h]
                      ELSE CommitOn(head[h], h, Added(head[h], h, entries), {})
              over == offline[h] \/ line = fetched[h]
          IN  /\ said' = [said EXCEPT ![h] = @ + k]
              /\ head' = [head EXCEPT ![h] = line]
              /\ doing' = [doing EXCEPT ![h] = IF over THEN Idle ELSE "tick ends"]
              /\ owed' = [owed EXCEPT ![h] = IF over THEN <<>> ELSE entries]
              /\ UNCHANGED main
    BY <1>15 DEF TickEnds
  <2> DEFINE new == [i \in 1..k |-> said[h] + i]
             entries == owed[h] \o new
             line == IF entries = <<>> THEN head[h]
                     ELSE CommitOn(head[h], h, Added(head[h], h, entries), {})
  <2>2. k \in Nat
    <3>1. k \in IF writes < MaxWrites THEN 0..1 ELSE {0}
      BY <2>1
    <3> QED  BY <3>1
  <2>3. entries \in Seq(Nat) /\ entries \in Seq(Host \cup Nat)
    BY <2>2, EntriesType DEF HistoryInv
  <2>4. \A n \in 1..(said[h] + k) : n \in ToSet(Tree(main)[h]) \cup ToSet(entries)
    <3>1. new \in Seq(Nat) /\ Len(new) = k
      BY <1>3, <2>2
    <3>2. ToSet(entries) = ToSet(owed[h]) \cup ToSet(new)
      <4>1. owed[h] \in Seq(Nat)
        BY <1>3
      <4> HIDE DEF new
      <4> QED  BY <3>1, <4>1, ConcatEntries
    <3>3. ASSUME NEW n \in 1..(said[h] + k), n \notin 1..said[h] PROVE n \in ToSet(new)
      <4>1. n - said[h] \in 1..k /\ new[n - said[h]] = n /\ DOMAIN new = 1..k
        BY <1>3, <2>2, <3>3
      <4> QED  BY <4>1 DEF ToSet
    <3> HIDE DEF new
    <3> QED  BY <1>3, <3>2, <3>3 DEF Kept
  <2> HIDE DEF new
  <2>5. entries # <<>> => line # fetched[h] /\ ToSet(entries) \subseteq ToSet(Tree(line)[h])
    <3>1. Len(fetched[h]) <= Len(head[h]) /\ Len(head[h]) \in Nat /\ Len(fetched[h]) \in Nat
      BY <1>3, LineType, PrefixPointwise DEF Standing, Reaches
    <3> HIDE DEF entries
    <3>2. LET next == CommitOn(head[h], h, Added(head[h], h, entries), {})
          IN  /\ Len(next) = Len(head[h]) + 1
              /\ ToSet(Tree(next)[h]) = ToSet(Tree(head[h])[h]) \cup ToSet(entries)
      BY <1>3, <2>3, AddedEntries
    <3>3. CASE entries # <<>>
      <4>1. line = CommitOn(head[h], h, Added(head[h], h, entries), {})
        BY <3>3
      <4> HIDE DEF line
      <4>2. Len(line) = Len(head[h]) + 1 /\ ToSet(entries) \subseteq ToSet(Tree(line)[h])
        BY <3>2, <4>1
      <4>3. line # fetched[h]
        BY <3>1, <4>2
      <4> QED  BY <4>2, <4>3
    <3> QED  BY <3>3
  <2>6. ~offline[h]
    BY <1>3 DEF Standing, Connected
  <2> DEFINE over == line = fetched[h]
  <2>7. /\ said'[h] = said[h] + k /\ head'[h] = line /\ main' = main /\ Others
        /\ doing'[h] = IF over THEN Idle ELSE "tick ends"
        /\ owed'[h] = IF over THEN <<>> ELSE entries
    BY <1>3, <2>1, <2>6 DEF new
  <2>8. CASE over
    <3>1. entries = <<>>
      BY <2>5, <2>8
    <3> HIDE DEF entries, line, over
    <3> QED  BY <2>4, <2>7, <2>8, <3>1 DEF Kept, Idle
  <2>9. CASE ~over
    <3>1. entries = <<>> => ToSet(entries) = {}
      BY NoGuards DEF ToSet
    <3>2. ToSet(entries) \subseteq ToSet(Tree(line)[h])
      <4> HIDE DEF entries, line
      <4> QED  BY <2>5, <3>1
    <3> HIDE DEF entries, line, over
    <3> QED  BY <2>4, <2>7, <2>9, <3>2 DEF Kept
  <2> QED  BY <2>7, <2>8, <2>9
<1>16. CASE PushLands(h)
  <2>1. doing[h] \in {"tick ends", "run record"}
    BY <1>3, <1>16 DEF PushLands, Standing, Pushing, Flushing, Idle, Tick
  <2>2. main' = head[h] /\ owed' = [owed EXCEPT ![h] = <<>>] /\ doing'[h] = Idle /\ said' = said /\ Others
    BY <1>3, <1>16, <2>1 DEF PushLands
  <2>3. ToSet(Tree(main)[h]) \subseteq ToSet(Tree(main')[h])
    <3>1. IsPrefix(Tree(main)[h], Tree(main')[h])
      BY <1>1, <1>3, TreesGrow, FileNames DEF HistoryInv
    <3>2. Tree(main)[h] \in Seq(Host \cup Nat) /\ Tree(main')[h] \in Seq(Host \cup Nat)
      BY <1>3, LineType, FileNames DEF Trees
    <3> QED  BY <3>1, <3>2, PrefixEntries
  <2>4. ToSet(owed[h]) \subseteq ToSet(Tree(main')[h])
    BY <1>3, <2>1, <2>2 DEF Kept
  <2> QED  BY <1>3, <2>2, <2>3, <2>4 DEF Kept, Idle
<1>17. ASSUME NEW line \in Line, Sound(line), Rejected(h, line)
       PROVE  Others /\ Kept(h)'
  <2>1. doing[h] \in {"tick ends", "run record"}
    BY <1>3, <1>17 DEF Standing, Rejected, Pushing, Flushing, Idle, Tick
  <2>2. Others
    BY <1>3, <1>17, <2>1 DEF Rejected, FlushRejected, GivesUp, TriesAgain
  <2> QED  BY <1>1, <1>17, <2>1, <2>2, RejectedKept
<1>18. CASE PushRejected(h)
  BY <1>3, <1>17, <1>18 DEF PushRejected
<1>19. CASE PushUnreachable(h)
  BY <1>3, <1>17, <1>19 DEF PushUnreachable
<1>20. CASE PushUnheard(h)
  BY <1>3, <1>17, <1>20 DEF PushUnheard
<1> QED  BY <1>7, <1>8, <1>9, <1>10, <1>11, <1>12, <1>13, <1>14, <1>15, <1>16, <1>18, <1>19, <1>20

\* With hosts that write only in whole ticks no entry a host said is lost,
\* whatever its pushes met: it is on main, on the host's checkout or owed
\* (owed_run, settle_record, 79, 167).
THEOREM TicksKeepTheRecord == ASSUME TickOnly PROVE Spec => []RunEntriesKept
<1>1. Init => KeptInv
  BY DEF Init, KeptInv, Kept, Idle
<1>2. StandingInv /\ HistoryInv /\ KeptInv /\ [Next]_vars => KeptInv'
  BY KeptStep
<1>3. KeptInv => RunEntriesKept
  BY DEF KeptInv, Kept, RunEntriesKept
<1> QED  BY <1>1, <1>2, <1>3, StandingHolds, HistoryHolds, PTL DEF Spec

-----------------------------------------------------------------------------
(* The shared line under whole ticks implements the store *)

\* What a sequence holds beyond one it begins with.
More(s, t) == SubSeq(t, Len(s) + 1, Len(t))

LEMMA MoreType ==
  ASSUME NEW S, NEW s \in Seq(S), NEW t \in Seq(S), IsPrefix(s, t)
  PROVE  More(s, t) \in Seq(S) /\ t = s \o More(s, t)
<1>1. /\ Len(s) \in Nat /\ Len(t) \in Nat /\ Len(s) <= Len(t)
      /\ \A i \in 1..Len(s) : s[i] = t[i]
      /\ \A i \in 1..Len(t) : t[i] \in S
  BY LenProperties, PrefixPointwise, ElementOfSeq
<1>2. /\ More(s, t) \in Seq(S)
      /\ Len(More(s, t)) = Len(t) - Len(s)
      /\ \A i \in 1..(Len(t) - Len(s)) : More(s, t)[i] = t[Len(s) + i]
  <2>1. Len(s) + 1 \in Int /\ Len(t) \in Int /\ \A i \in (Len(s) + 1)..Len(t) : t[i] \in S
    BY <1>1
  <2>2. /\ More(s, t) \in Seq(S)
        /\ Len(More(s, t)) = IF Len(s) + 1 <= Len(t) THEN Len(t) - (Len(s) + 1) + 1 ELSE 0
        /\ \A i \in 1..(Len(t) - (Len(s) + 1) + 1) : More(s, t)[i] = t[Len(s) + 1 + i - 1]
    BY <2>1, SubSeqProperties DEF More
  <2> QED  BY <1>1, <2>2
<1>3. /\ s \o More(s, t) \in Seq(S)
      /\ Len(s \o More(s, t)) = Len(t)
      /\ \A i \in 1..Len(t) : (s \o More(s, t))[i] = t[i]
  <2>1. /\ s \o More(s, t) \in Seq(S)
        /\ Len(s \o More(s, t)) = Len(s) + Len(More(s, t))
        /\ \A i \in 1..(Len(s) + Len(More(s, t))) :
             (s \o More(s, t))[i] = IF i <= Len(s) THEN s[i] ELSE More(s, t)[i - Len(s)]
    BY <1>2, ConcatProperties
  <2> QED  BY <1>1, <1>2, <2>1
<1> QED  BY <1>2, <1>3, SeqEqual

LEMMA MoreOfItself ==
  ASSUME NEW S, NEW s \in Seq(S)
  PROVE  More(s, s) = <<>>
BY LenProperties, SubSeqEmpty DEF More

LEMMA MoreOfConcat ==
  ASSUME NEW S, NEW s \in Seq(S), NEW t \in Seq(S)
  PROVE  More(s, s \o t) = t
<1>1. s \o t \in Seq(S) /\ IsPrefix(s, s \o t)
  BY ConcatExtends
<1>2. More(s, s \o t) \in Seq(S) /\ s \o t = s \o More(s, s \o t)
  BY <1>1, MoreType
<1> QED  BY <1>2, ConcatSimplifications

LEMMA MoreAdded ==
  ASSUME NEW S, NEW s \in Seq(S), NEW t \in Seq(S), NEW u \in Seq(S), IsPrefix(s, t)
  PROVE  More(s, t \o u) = More(s, t) \o u
<1>1. More(s, t) \in Seq(S) /\ t = s \o More(s, t)
  BY MoreType
<1>2. More(s, t) \o u \in Seq(S)
  BY <1>1, ConcatProperties
<1> DEFINE m == More(s, t)
<1> HIDE DEF m
<1>3. (s \o m) \o u = s \o (m \o u) /\ m \o u \in Seq(S)
  BY <1>1, <1>2, ConcatAssociative DEF m
<1>4. t \o u = s \o (m \o u)
  BY <1>1, <1>3 DEF m
<1>5. More(s, s \o (m \o u)) = m \o u
  BY <1>3, MoreOfConcat
<1> QED  BY <1>4, <1>5 DEF m

LEMMA MoreEmpty ==
  ASSUME NEW S, NEW s \in Seq(S), NEW t \in Seq(S), IsPrefix(s, t)
  PROVE  More(s, t) = <<>> <=> s = t
<1>1. t = s \o More(s, t) /\ s \o <<>> = s
  BY MoreType, ConcatEmptySeq
<1> QED  BY <1>1, MoreOfItself

\* The history two lines share is where one of them parts from the other.
LEMMA CommonAncestorIs ==
  ASSUME NEW s \in Line, NEW t \in Line, NEW base \in Line, Reaches(base, s), Reaches(base, t),
         Len(base) = Len(s) \/ Len(base) = Len(t) \/ s[Len(base) + 1] # t[Len(base) + 1]
  PROVE  CommonAncestor(s, t) = base
<1> DEFINE n == Len(base)
           Shared(k) == Reaches(SubSeq(s, 1, k), t)
           Parting(k) == Shared(k) /\ (k = Len(s) \/ ~Shared(k + 1))
<1>1. /\ s \in Seq(Commit) /\ t \in Seq(Commit) /\ base \in Seq(Commit)
      /\ Len(s) \in Nat /\ Len(t) \in Nat /\ n \in Nat
      /\ \A i \in 1..Len(s) : s[i] \in Commit
  BY LineType, ElementOfSeq
<1>2. /\ n <= Len(s) /\ n <= Len(t)
      /\ \A i \in 1..n : s[i] = t[i]
      /\ base = SubSeq(s, 1, n)
  <2>1. /\ n <= Len(s) /\ \A i \in 1..n : base[i] = s[i]
        /\ n <= Len(t) /\ \A i \in 1..n : base[i] = t[i]
    BY <1>1, PrefixPointwise DEF Reaches
  <2>2. SubSeq(base, 1, n) = base /\ SubSeq(base, 1, n) = SubSeq(s, 1, n)
    BY <1>1, SubSeqFull DEF Reaches, IsPrefix
  <2> QED  BY <2>1, <2>2
<1>3. ASSUME NEW k \in 0..Len(s)
      PROVE  Shared(k) <=> k <= Len(t) /\ \A i \in 1..k : s[i] = t[i]
  <2>1. /\ SubSeq(s, 1, k) \in Seq(Commit)
        /\ Len(SubSeq(s, 1, k)) = IF 1 <= k THEN k - 1 + 1 ELSE 0
        /\ \A i \in 1..(k - 1 + 1) : SubSeq(s, 1, k)[i] = s[1 + i - 1]
    BY <1>1, SubSeqProperties
  <2>2. Len(SubSeq(s, 1, k)) = k /\ \A i \in 1..k : SubSeq(s, 1, k)[i] = s[i]
    BY <2>1
  <2> DEFINE u == SubSeq(s, 1, k)
  <2>3. u \in Seq(Commit) /\ Len(u) = k /\ \A i \in 1..k : u[i] = s[i]
    BY <2>1, <2>2
  <2> HIDE DEF u
  <2>4. IsPrefix(u, t) <=> Len(u) <= Len(t) /\ \A i \in 1..Len(u) : u[i] = t[i]
    <3>1. u \in Seq(Commit) /\ t \in Seq(Commit)
      BY <1>1, <2>3
    <3> QED  BY <3>1, PrefixPointwise
  <2>5. IsPrefix(u, t) <=> k <= Len(t) /\ \A i \in 1..k : s[i] = t[i]
    BY <2>3, <2>4
  <2> QED  BY <2>5 DEF Reaches, u
<1>4. n \in 0..Len(s) /\ Shared(n)
  BY <1>1, <1>2, <1>3
<1>5. n = Len(s) \/ ~Shared(n + 1)
  <2>1. CASE n < Len(s)
    <3>1. n + 1 \in 0..Len(s) /\ n + 1 \in 1..(n + 1)
      BY <1>1, <2>1
    <3> HIDE DEF n
    <3> QED  BY <1>1, <1>2, <1>3, <2>1, <3>1 DEF n
  <2> QED  BY <1>1, <1>2, <2>1
<1>6. ASSUME NEW k \in 0..Len(s), Parting(k) PROVE k = n
  <2>1. CASE k < n
    <3>1. k + 1 \in 0..Len(s) /\ k + 1 <= Len(t) /\ \A i \in 1..(k + 1) : s[i] = t[i]
      BY <1>1, <1>2, <2>1
    <3>2. k # Len(s)
      BY <1>1, <1>2, <2>1
    <3> QED  BY <1>3, <1>6, <3>1, <3>2
  <2>2. CASE n < k
    <3>1. n + 1 \in 1..k /\ k <= Len(t) /\ s[n + 1] = t[n + 1]
      BY <1>1, <1>3, <1>6, <2>2
    <3> QED  BY <1>1, <2>2, <3>1
  <2> QED  BY <1>1, <2>1, <2>2
<1>7. CommonAncestor(s, t) = SubSeq(s, 1, CHOOSE k \in 0..Len(s) : Parting(k))
  BY DEF CommonAncestor
<1>8. (CHOOSE k \in 0..Len(s) : Parting(k)) = n
  <2> HIDE DEF n, Parting
  <2>1. n \in 0..Len(s) /\ Parting(n)
    BY <1>4, <1>5 DEF Parting
  <2> QED  BY <1>6, <2>1
<1> QED  BY <1>2, <1>7, <1>8

\* Beyond what a host fetched, main has nothing of that host's and its own line
\* nothing of anyone else's: a host learns of each push of its own.
Own(h) ==
  /\ \A i \in (Len(fetched[h]) + 1)..Len(main) : main[i].by # h
  /\ \A i \in (Len(fetched[h]) + 1)..Len(head[h]) : head[h][i].by = h

OwnInv == \A h \in Host : Own(h)

LEMMA CommitOnBy ==
  ASSUME NEW line \in Line, NEW h \in Host, NEW tree \in Trees, NEW effects \in SUBSET Effect
  PROVE  /\ CommitOn(line, h, tree, effects)[Len(line) + 1].by = h
         /\ Len(CommitOn(line, h, tree, effects)) = Len(line) + 1
         /\ \A i \in 1..Len(line) : CommitOn(line, h, tree, effects)[i] = line[i]
<1> DEFINE commit == [by |-> h, tree |-> tree, effects |-> effects]
<1>1. commit \in Commit
  BY DEF Commit, Trees
<1>2. line \in Seq(Commit)
  BY LineType
<1>3. Append(line, commit)[Len(line) + 1] = commit
  BY <1>1, <1>2, AppendProperties
<1> QED  BY <1>3, CommitOnExtends DEF CommitOn

LEMMA ReplayedBy ==
  ASSUME NEW h \in Host, NEW ours \in Line, NEW onto \in Line
  PROVE  LET next == Replayed(h, ours, onto)
         IN  Len(next) = Len(onto) + 1 /\ next[Len(onto) + 1].by = h
<1> DEFINE tree == [f \in File |-> IF f \in Changed(CommonAncestor(ours, onto), ours) THEN Tree(ours)[f]
                                                                                      ELSE Tree(onto)[f]]
<1>1. tree \in Trees
  BY LineType DEF Trees
<1>2. Replayed(h, ours, onto) = CommitOn(onto, h, tree, {})
  BY DEF Replayed
<1> HIDE DEF tree
<1> QED  BY <1>1, <1>2, CommitOnBy

\* One more commit of its own keeps a host's line its own.
LEMMA OwnCommit ==
  ASSUME NEW h \in Host, NEW base \in Line, NEW line \in Line, Len(base) <= Len(line),
         \A i \in (Len(base) + 1)..Len(line) : line[i].by = h,
         NEW tree \in Trees, NEW effects \in SUBSET Effect
  PROVE  \A i \in (Len(base) + 1)..Len(CommitOn(line, h, tree, effects)) : CommitOn(line, h, tree, effects)[i].by = h
<1> DEFINE next == CommitOn(line, h, tree, effects)
<1>1. /\ next[Len(line) + 1].by = h /\ Len(next) = Len(line) + 1
      /\ \A i \in 1..Len(line) : next[i] = line[i]
  BY CommitOnBy
<1>2. Len(line) \in Nat /\ Len(base) \in Nat
  BY LineType
<1> HIDE DEF next
<1>3. ASSUME NEW i \in (Len(base) + 1)..Len(next) PROVE next[i].by = h
  <2>1. CASE i = Len(line) + 1
    BY <1>1, <2>1
  <2>2. CASE i # Len(line) + 1
    <3>1. i \in 1..Len(line) /\ i \in (Len(base) + 1)..Len(line)
      BY <1>1, <1>2, <2>2
    <3> QED  BY <1>1, <3>1
  <2> QED  BY <2>1, <2>2
<1> QED  BY <1>3 DEF next

\* A push puts on main what is its host's own, over what it fetched.
LEMMA OwnPush ==
  ASSUME StandingInv, OwnInv, NEW h \in Host, NEW k \in Host, k # h, main = fetched[h]
  PROVE  \A i \in (Len(fetched[k]) + 1)..Len(head[h]) : head[h][i].by # k
<1>1. /\ main \in Line /\ head[h] \in Line /\ fetched[k] \in Line
      /\ Reaches(main, head[h]) /\ Reaches(fetched[k], main)
  BY DEF StandingInv, Standing, TypeOK
<1>2. /\ Len(main) <= Len(head[h]) /\ \A i \in 1..Len(main) : main[i] = head[h][i]
      /\ Len(fetched[k]) <= Len(main)
      /\ Len(main) \in Nat /\ Len(head[h]) \in Nat /\ Len(fetched[k]) \in Nat
  BY <1>1, LineType, PrefixPointwise DEF Reaches
<1>3. ASSUME NEW i \in (Len(fetched[k]) + 1)..Len(head[h]) PROVE head[h][i].by # k
  <2>1. CASE i <= Len(main)
    <3>1. i \in 1..Len(main) /\ i \in (Len(fetched[k]) + 1)..Len(main)
      BY <1>2, <2>1
    <3> QED  BY <1>2, <3>1 DEF OwnInv, Own
  <2>2. CASE ~(i <= Len(main))
    <3>1. i \in (Len(fetched[h]) + 1)..Len(head[h])
      BY <1>2, <2>2
    <3> QED  BY <3>1 DEF OwnInv, Own
  <2> QED  BY <2>1, <2>2
<1> QED  BY <1>3

\* What a step does to the lines: a commit to a file or for an effect, a fetch
\* between ticks, a push, and a push that did not land or was not heard.
Adds(h, f, entries) ==
  /\ head' = [head EXCEPT ![h] = CommitOn(@, h, Added(@, f, entries), {})]
  /\ UNCHANGED <<main, fetched>>

Marks(h, e) ==
  /\ head' = [head EXCEPT ![h] = CommitOn(@, h, Tree(@), {e})]
  /\ UNCHANGED <<main, fetched>>

Follows(h) ==
  /\ head[h] = fetched[h]
  /\ head' = [head EXCEPT ![h] = main] /\ fetched' = [fetched EXCEPT ![h] = main]
  /\ UNCHANGED main

Sends(h) ==
  /\ main = fetched[h] /\ main' = head[h]
  /\ fetched' = [fetched EXCEPT ![h] = head[h]]
  /\ UNCHANGED head

Loses(h, line) ==
  /\ \/ line \in {main, fetched[h]} /\ UNCHANGED main
     \/ line = head[h] /\ main = fetched[h] /\ main' = head[h]
  /\ fetched' = [fetched EXCEPT ![h] = line]
  /\ \/ head' = [head EXCEPT ![h] = line]
     \/ ~Overlap(head[h], line) /\ head' = [head EXCEPT ![h] = Replayed(h, @, line)]

LEMMA Shapes ==
  ASSUME TickOnly, StandingInv, [Next]_vars
  PROVE  \/ UNCHANGED <<main, head, fetched>>
         \/ \E h \in Host :
              \/ \E f \in Record \cup Log : Adds(h, f, <<h>>)
              \/ \E entries \in Seq(Nat) \ {<<>>} : Adds(h, h, entries)
              \/ \E e \in Effect : Marks(h, e)
              \/ Follows(h)
              \/ Sends(h)
              \/ \E line \in Line : Loses(h, line)
<1>1. CASE UNCHANGED vars
  BY <1>1 DEF vars
<1> SUFFICES ASSUME NEW h \in Host,
                    \/ \E r \in Record : Put(h, r)
                    \/ \E l \in Log : AppendThread(h, l)
                    \/ \E d \in Delivery : Receive(h, d)
                    \/ \E e \in Effect : WriteEffect(h, e)
                    \/ SettleRecord(h)
                    \/ TickBegins(h)
                    \/ TakeRefused(h)
                    \/ TickFails(h)
                    \/ TickEnds(h)
                    \/ PushLands(h)
                    \/ PushRejected(h)
                    \/ PushUnreachable(h)
                    \/ PushUnheard(h)
                    \/ Disconnect(h)
                    \/ Reconnect(h)
                    \/ CrashAndOpen(h),
                    ~(UNCHANGED <<main, head, fetched>>)
             PROVE  \/ \E f \in Record \cup Log : Adds(h, f, <<h>>)
                    \/ \E entries \in Seq(Nat) \ {<<>>} : Adds(h, h, entries)
                    \/ \E e \in Effect : Marks(h, e)
                    \/ Follows(h)
                    \/ Sends(h)
                    \/ \E line \in Line : Loses(h, line)
  BY <1>1 DEF Next
<1>2. /\ main \in Line /\ head \in [Host -> Line] /\ fetched \in [Host -> Line]
      /\ head[h] \in Line /\ fetched[h] \in Line
      /\ Standing(h) /\ owed[h] \in Seq(Nat)
  BY DEF StandingInv, TypeOK
<1>3. ~MayCall(h)
  BY DEF MayCall, TickOnly
<1>4. ASSUME NEW r \in Record, Put(h, r) PROVE Adds(h, r, <<h>>)
  BY <1>4 DEF Put, Committed, Adds
<1>5. ASSUME NEW l \in Log, AppendThread(h, l) PROVE Adds(h, l, <<h>>)
  BY <1>5 DEF AppendThread, Committed, Adds
<1>6. ASSUME NEW d \in Delivery, Receive(h, d) PROVE FALSE
  BY <1>3, <1>6 DEF Receive
<1>7. ASSUME NEW e \in Effect, WriteEffect(h, e) PROVE Marks(h, e)
  BY <1>7 DEF WriteEffect, Committed, Marks
<1>8. CASE SettleRecord(h)
  BY <1>2, <1>8 DEF SettleRecord, Adds
<1>9. CASE TickBegins(h)
  <2>1. doing[h] = Idle
    BY <1>2, <1>9 DEF TickBegins, Standing, Idle, Failed, Tick
  <2>2. OnFetchedHead(head[h], main) = main /\ ~offline[h] /\ head[h] = fetched[h]
    BY <1>2, <2>1 DEF OnFetchedHead, Standing, Connected
  <2> QED  BY <1>9, <2>2 DEF TickBegins, Follows
<1>10. CASE TickEnds(h)
  <2>1. PICK k \in IF writes < MaxWrites THEN 0..1 ELSE {0} :
          LET entries == owed[h] \o [i \in 1..k |-> said[h] + i]
              line == IF entries = <<>> THEN head[h]
                      ELSE CommitOn(head[h], h, Added(head[h], h, entries), {})
          IN  /\ head' = [head EXCEPT ![h] = line]
              /\ UNCHANGED <<main, fetched>>
    BY <1>10 DEF TickEnds
  <2> DEFINE entries == owed[h] \o [i \in 1..k |-> said[h] + i]
  <2>2. entries \in Seq(Nat)
    <3>1. k \in IF writes < MaxWrites THEN 0..1 ELSE {0}
      BY <2>1
    <3>2. TypeOK /\ k \in Nat
      BY <3>1 DEF StandingInv
    <3> QED  BY <3>2, EntriesType
  <2> HIDE DEF entries
  <2>3. CASE entries = <<>>
    <3>1. head' = [head EXCEPT ![h] = head[h]] /\ UNCHANGED <<main, fetched>>
      BY <2>1, <2>3 DEF entries
    <3> QED  BY <1>2, <3>1
  <2>4. CASE entries # <<>>
    BY <2>1, <2>2, <2>4 DEF entries, Adds
  <2> QED  BY <2>3, <2>4
<1>11. CASE PushLands(h)
  BY <1>11 DEF PushLands, Sends
<1>12. ASSUME NEW line \in Line, Rejected(h, line),
              \/ line \in {main, fetched[h]} /\ UNCHANGED main
              \/ line = head[h] /\ main = fetched[h] /\ main' = head[h]
       PROVE  Loses(h, line)
  <2>1. doing[h] \in {"tick ends", "run record"}
    BY <1>2, <1>12 DEF Standing, Rejected, Pushing, Flushing, Idle, Tick
  <2>2. FlushRejected(h, line) /\ fetched' = [fetched EXCEPT ![h] = line]
    BY <1>12, <2>1 DEF Rejected
  <2>3. \/ GivesUp(h, line)
        \/ ~Overlap(head[h], line) /\ TriesAgain(h, Replayed(h, head[h], line))
    BY <2>1, <2>2 DEF FlushRejected
  <2> QED  BY <1>12, <2>2, <2>3 DEF Loses, GivesUp, TriesAgain
<1>13. CASE PushRejected(h)
  BY <1>2, <1>12, <1>13 DEF PushRejected
<1>14. CASE PushUnreachable(h)
  BY <1>2, <1>12, <1>14 DEF PushUnreachable
<1>15. CASE PushUnheard(h)
  BY <1>2, <1>12, <1>15 DEF PushUnheard
<1>16. CASE TakeRefused(h) \/ TickFails(h) \/ Disconnect(h) \/ CrashAndOpen(h)
  BY <1>16 DEF TakeRefused, TickFails, Disconnect, CrashAndOpen, TickOnly
<1>17. CASE Reconnect(h)
  BY <1>2, <1>17 DEF Reconnect, Standing, Connected
<1> QED  BY <1>4, <1>5, <1>6, <1>7, <1>8, <1>9, <1>10, <1>11, <1>13, <1>14, <1>15, <1>16, <1>17

\* A host that keeps its line and its idea of main stays in the right when main
\* does not move.
LEMMA OwnStep ==
  ASSUME TickOnly, StandingInv, StandingInv', OwnInv, [Next]_vars
  PROVE  OwnInv'
<1>1. /\ main \in Line /\ main' \in Line
      /\ head \in [Host -> Line] /\ fetched \in [Host -> Line]
      /\ head' \in [Host -> Line] /\ fetched' \in [Host -> Line]
  BY DEF StandingInv, TypeOK
<1>2. CASE UNCHANGED <<main, head, fetched>>
  BY <1>2 DEF OwnInv, Own
<1>3. ASSUME NEW h \in Host, UNCHANGED <<main, fetched>>, NEW tree \in Trees, NEW effects \in SUBSET Effect,
             head' = [head EXCEPT ![h] = CommitOn(@, h, tree, effects)]
      PROVE  OwnInv'
  <2>1. Len(fetched[h]) <= Len(head[h])
    BY <1>1, LineType, PrefixPointwise DEF StandingInv, Standing, Reaches
  <2>2. \A i \in (Len(fetched[h]) + 1)..Len(CommitOn(head[h], h, tree, effects)) :
          CommitOn(head[h], h, tree, effects)[i].by = h
    <3>1. head[h] \in Line /\ fetched[h] \in Line
      BY <1>1
    <3>2. \A i \in (Len(fetched[h]) + 1)..Len(head[h]) : head[h][i].by = h
      BY DEF OwnInv, Own
    <3> QED  BY <2>1, <3>1, <3>2, OwnCommit
  <2>3. head'[h] = CommitOn(head[h], h, tree, effects) /\ \A k \in Host \ {h} : head'[k] = head[k]
    BY <1>1, <1>3
  <2> QED  BY <1>3, <2>2, <2>3 DEF OwnInv, Own
<1>4. ASSUME NEW h \in Host, NEW f \in File, NEW entries \in Seq(Host \cup Nat), Adds(h, f, entries)
      PROVE  OwnInv'
  <2>1. Added(head[h], f, entries) \in Trees
    BY <1>1, AddedExtends
  <2> DEFINE tree == Added(head[h], f, entries)
  <2>2. head' = [head EXCEPT ![h] = CommitOn(@, h, tree, {})] /\ UNCHANGED <<main, fetched>>
    BY <1>1, <1>4 DEF Adds
  <2> HIDE DEF tree
  <2>3. tree \in Trees /\ {} \in SUBSET Effect
    BY <2>1 DEF tree
  <2> QED  BY <1>3, <2>2, <2>3
<1>5. ASSUME NEW h \in Host, NEW e \in Effect, Marks(h, e)
      PROVE  OwnInv'
  <2>1. Tree(head[h]) \in Trees
    BY <1>1, LineType
  <2>2. head' = [head EXCEPT ![h] = CommitOn(@, h, Tree(head[h]), {e})] /\ UNCHANGED <<main, fetched>>
    BY <1>1, <1>5 DEF Marks
  <2> QED  BY <1>3, <2>1, <2>2
<1>6. ASSUME NEW h \in Host, NEW line \in Line,
             \/ main' = main \/ (main = fetched[h] /\ main' = head[h]),
             line = main' \/ (line = fetched[h] /\ main' = main),
             fetched' = [fetched EXCEPT ![h] = line],
             \/ head'[h] = line
             \/ head'[h] = Replayed(h, head[h], line),
             \A k \in Host \ {h} : head'[k] = head[k]
      PROVE  OwnInv'
  <2>1. \A i \in (Len(line) + 1)..Len(main') : main'[i].by # h
    <3>1. CASE line = main'
      BY <1>1, <3>1, LineType
    <3>2. CASE line = fetched[h] /\ main' = main
      BY <3>2 DEF OwnInv, Own
    <3> QED  BY <1>6, <3>1, <3>2
  <2>2. \A i \in (Len(line) + 1)..Len(head'[h]) : head'[h][i].by = h
    <3>1. CASE head'[h] = line
      BY <1>6, <3>1, LineType
    <3>2. CASE head'[h] = Replayed(h, head[h], line)
      <4>1. head[h] \in Line
        BY <1>1
      <4>2. Len(head'[h]) = Len(line) + 1 /\ head'[h][Len(line) + 1].by = h
        BY <3>2, <4>1, ReplayedBy
      <4>3. Len(line) \in Nat
        BY LineType
      <4> QED  BY <4>2, <4>3
    <3> QED  BY <1>6, <3>1, <3>2
  <2>3. ASSUME NEW k \in Host, k # h PROVE Own(k)'
    <3>1. fetched'[k] = fetched[k] /\ head'[k] = head[k]
      BY <1>1, <1>6, <2>3
    <3>2. \A i \in (Len(fetched[k]) + 1)..Len(main') : main'[i].by # k
      BY <1>6, <2>3, OwnPush DEF OwnInv, Own
    <3> QED  BY <3>1, <3>2 DEF OwnInv, Own
  <2>4. fetched'[h] = line
    BY <1>1, <1>6
  <2> QED  BY <2>1, <2>2, <2>3, <2>4 DEF OwnInv, Own
<1>7. ASSUME NEW h \in Host, Follows(h) PROVE OwnInv'
  <2>1. head'[h] = main /\ \A k \in Host \ {h} : head'[k] = head[k]
    BY <1>1, <1>7 DEF Follows
  <2> QED  BY <1>1, <1>6, <1>7, <2>1 DEF Follows
<1>8. ASSUME NEW h \in Host, Sends(h) PROVE OwnInv'
  BY <1>1, <1>6, <1>8 DEF Sends
<1>9. ASSUME NEW h \in Host, NEW line \in Line, Loses(h, line) PROVE OwnInv'
  <2>1. /\ head'[h] = line \/ head'[h] = Replayed(h, head[h], line)
        /\ \A k \in Host \ {h} : head'[k] = head[k]
    BY <1>1, <1>9 DEF Loses
  <2> QED  BY <1>6, <1>9, <2>1 DEF Loses
<1>10. ASSUME NEW h \in Host PROVE <<h>> \in Seq(Host \cup Nat) /\ h \in File /\ Record \cup Log \subseteq File
                                   /\ Seq(Nat) \subseteq Seq(Host \cup Nat)
  <2>1. <<h>> \in Seq(Host \cup Nat)
    OBVIOUS
  <2> QED  BY <2>1, FileNames DEF File
<1>11. CASE \E h \in Host :
              \/ \E f \in Record \cup Log : Adds(h, f, <<h>>)
              \/ \E entries \in Seq(Nat) \ {<<>>} : Adds(h, h, entries)
  BY <1>4, <1>10, <1>11
<1>12. CASE \E h \in Host :
              \/ \E e \in Effect : Marks(h, e)
              \/ Follows(h)
              \/ Sends(h)
              \/ \E line \in Line : Loses(h, line)
  BY <1>5, <1>7, <1>8, <1>9, <1>12
<1> QED  BY <1>2, <1>11, <1>12, Shapes

LEMMA OwnHolds == ASSUME TickOnly PROVE Spec => [](StandingInv /\ OwnInv)
<1>1. Init => OwnInv
  <2>1. Len(Root) = 1
    BY DEF Root
  <2>2. \A i \in (Len(Root) + 1)..Len(Root) : FALSE
    BY <2>1
  <2> QED  BY <2>2 DEF Init, OwnInv, Own
<1>2. StandingInv /\ StandingInv' /\ OwnInv /\ [Next]_vars => OwnInv'
  BY OwnStep
<1> QED  BY <1>1, <1>2, StandingHolds, PTL DEF Spec

\* What one line holds in every file over another.
DraftsOf(s, t) == [f \in File |-> More(Tree(s)[f], Tree(t)[f])]

LEMMA DraftsAre == Drafts = [h \in Host |-> DraftsOf(fetched[h], head[h])]
BY DEF Drafts, DraftsOf, More

LEMMA DraftsType ==
  ASSUME NEW s \in Line, NEW t \in Line, Reaches(s, t), Sound(t)
  PROVE  /\ DraftsOf(s, t) \in Trees
         /\ Tree(t) = [f \in File |-> Tree(s)[f] \o DraftsOf(s, t)[f]]
         /\ \A f \in File : DraftsOf(s, t)[f] = <<>> <=> Tree(s)[f] = Tree(t)[f]
<1>1. Tree(s) \in Trees /\ Tree(t) \in Trees
  BY LineType
<1>2. ASSUME NEW f \in File
      PROVE  /\ DraftsOf(s, t)[f] \in Seq(Host \cup Nat)
             /\ Tree(t)[f] = Tree(s)[f] \o DraftsOf(s, t)[f]
             /\ DraftsOf(s, t)[f] = <<>> <=> Tree(s)[f] = Tree(t)[f]
  <2>1. /\ Tree(s)[f] \in Seq(Host \cup Nat) /\ Tree(t)[f] \in Seq(Host \cup Nat)
        /\ IsPrefix(Tree(s)[f], Tree(t)[f])
    BY <1>1, TreesGrow DEF Trees
  <2>2. DraftsOf(s, t)[f] = More(Tree(s)[f], Tree(t)[f])
    BY DEF DraftsOf
  <2>3. /\ More(Tree(s)[f], Tree(t)[f]) \in Seq(Host \cup Nat)
        /\ Tree(t)[f] = Tree(s)[f] \o More(Tree(s)[f], Tree(t)[f])
    BY <2>1, MoreType
  <2>4. More(Tree(s)[f], Tree(t)[f]) = <<>> <=> Tree(s)[f] = Tree(t)[f]
    BY <2>1, MoreEmpty
  <2> QED  BY <2>2, <2>3, <2>4
<1>3. DraftsOf(s, t) = [f \in File |-> DraftsOf(s, t)[f]]
  BY DEF DraftsOf
<1>4. DraftsOf(s, t) \in Trees
  BY <1>2, <1>3 DEF Trees
<1>5. Tree(t) = [f \in File |-> Tree(s)[f] \o DraftsOf(s, t)[f]]
  <2>1. Tree(t) = [f \in File |-> Tree(t)[f]]
    BY <1>1 DEF Trees
  <2> QED  BY <1>2, <2>1
<1> QED  BY <1>2, <1>4, <1>5

LEMMA NoDrafts ==
  ASSUME NEW s \in Line, NEW t \in Line, Tree(t) = Tree(s)
  PROVE  DraftsOf(s, t) = Contract!Nothing
<1>1. \A f \in File : More(Tree(s)[f], Tree(t)[f]) = <<>>
  BY LineType, MoreOfItself DEF Trees
<1> QED  BY <1>1 DEF DraftsOf, Contract!Nothing, Contract!File, File

\* A commit adds its entries to what a host has not landed.
LEMMA DraftsAdded ==
  ASSUME NEW s \in Line, NEW t \in Line, Reaches(s, t), Sound(t),
         NEW h \in Host, NEW f \in File, NEW entries \in Seq(Host \cup Nat)
  PROVE  DraftsOf(s, CommitOn(t, h, Added(t, f, entries), {}))
           = [DraftsOf(s, t) EXCEPT ![f] = @ \o entries]
<1>1. /\ Tree(t) \in Trees /\ Added(t, f, entries) \in Trees
      /\ Tree(s) \in Trees
  BY LineType, AddedExtends
<1> DEFINE added == Added(t, f, entries)
<1>2. added \in Trees /\ \A g \in File : added[g] = IF g = f THEN Tree(t)[f] \o entries ELSE Tree(t)[g]
  BY <1>1 DEF Added, Trees
<1> HIDE DEF added
<1>3. Tree(CommitOn(t, h, added, {})) = added
  BY <1>2, CommitOnExtends
<1>4. \A g \in File : More(Tree(s)[g], added[g])
                        = IF g = f THEN More(Tree(s)[f], Tree(t)[f]) \o entries ELSE More(Tree(s)[g], Tree(t)[g])
  <2>1. /\ Tree(s)[f] \in Seq(Host \cup Nat) /\ Tree(t)[f] \in Seq(Host \cup Nat)
        /\ IsPrefix(Tree(s)[f], Tree(t)[f])
    BY <1>1, TreesGrow DEF Trees
  <2>2. More(Tree(s)[f], Tree(t)[f] \o entries) = More(Tree(s)[f], Tree(t)[f]) \o entries
    BY <2>1, MoreAdded
  <2> QED  BY <1>2, <2>2
<1>5. DraftsOf(s, CommitOn(t, h, added, {})) = [g \in File |-> More(Tree(s)[g], added[g])]
  BY <1>3 DEF DraftsOf
<1>6. [DraftsOf(s, t) EXCEPT ![f] = @ \o entries]
        = [g \in File |-> IF g = f THEN More(Tree(s)[f], Tree(t)[f]) \o entries ELSE More(Tree(s)[g], Tree(t)[g])]
  BY DEF DraftsOf
<1> QED  BY <1>4, <1>5, <1>6 DEF added

\* What is replayed where nobody else wrote is what was there to land.
LEMMA DraftsReplayed ==
  ASSUME NEW h \in Host, NEW s \in Line, NEW ours \in Line, NEW onto \in Line,
         CommonAncestor(ours, onto) = s, ~Overlap(ours, onto), Sound(ours), Reaches(s, ours)
  PROVE  /\ DraftsOf(onto, Replayed(h, ours, onto)) = DraftsOf(s, ours)
         /\ \A f \in File : DraftsOf(s, ours)[f] # <<>> => Tree(s)[f] = Tree(onto)[f]
<1> DEFINE tree == [f \in File |-> IF f \in Changed(s, ours) THEN Tree(ours)[f] ELSE Tree(onto)[f]]
<1>1. Tree(s) \in Trees /\ Tree(ours) \in Trees /\ Tree(onto) \in Trees
  BY LineType
<1>2. tree \in Trees
  BY <1>1 DEF Trees
<1>3. Replayed(h, ours, onto) = CommitOn(onto, h, tree, {})
  BY DEF Replayed
<1>4. ASSUME NEW f \in File
      PROVE  /\ More(Tree(onto)[f], tree[f]) = More(Tree(s)[f], Tree(ours)[f])
             /\ More(Tree(s)[f], Tree(ours)[f]) # <<>> => Tree(s)[f] = Tree(onto)[f]
  <2>1. \A T \in Trees : T[f] \in Seq(Host \cup Nat) /\ More(T[f], T[f]) = <<>>
    BY MoreOfItself DEF Trees
  <2>2. CASE f \in Changed(s, ours)
    <3>1. f \notin Changed(s, onto)
      BY <2>2 DEF Overlap
    <3> QED  BY <2>2, <3>1 DEF Changed
  <2>3. CASE f \notin Changed(s, ours)
    <3>1. Tree(s)[f] = Tree(ours)[f] /\ tree[f] = Tree(onto)[f]
      BY <2>3 DEF Changed
    <3> QED  BY <1>1, <2>1, <3>1
  <2> QED  BY <2>2, <2>3
<1> HIDE DEF tree
<1>5. Tree(CommitOn(onto, h, tree, {})) = tree
  BY <1>2, CommitOnExtends
<1> QED  BY <1>3, <1>4, <1>5 DEF DraftsOf

\* Where a host's own commits part from main is what it last fetched.
LEMMA PartsWhereFetched ==
  ASSUME StandingInv, OwnInv, NEW h \in Host
  PROVE  CommonAncestor(head[h], main) = fetched[h]
<1>1. /\ main \in Line /\ head[h] \in Line /\ fetched[h] \in Line
      /\ Reaches(fetched[h], main) /\ Reaches(fetched[h], head[h])
  BY DEF StandingInv, Standing, TypeOK
<1>2. /\ Len(fetched[h]) \in Nat /\ Len(head[h]) \in Nat /\ Len(main) \in Nat
      /\ Len(fetched[h]) <= Len(head[h]) /\ Len(fetched[h]) <= Len(main)
  BY <1>1, LineType, PrefixPointwise DEF Reaches
<1> DEFINE n == Len(fetched[h])
<1>3. CASE n # Len(head[h]) /\ n # Len(main)
  <2>1. n + 1 \in (n + 1)..Len(head[h]) /\ n + 1 \in (n + 1)..Len(main)
    BY <1>2, <1>3
  <2>2. head[h][n + 1].by = h /\ main[n + 1].by # h
    BY <2>1 DEF OwnInv, Own
  <2> QED  BY <1>1, <2>2, CommonAncestorIs
<1> QED  BY <1>1, <1>3, CommonAncestorIs

LEMMA PartsFromItself ==
  ASSUME NEW s \in Line, NEW t \in Line, Reaches(s, t)
  PROVE  CommonAncestor(t, s) = s
<1>1. Reaches(s, s) /\ Len(s) = Len(s)
  BY StandsOnItself
<1> QED  BY <1>1, CommonAncestorIs

\* What each host read of the line.
Read == [h \in Host |-> Tree(fetched[h])]

LEMMA ReadMoves ==
  ASSUME NEW h \in Host, NEW line, fetched' = [fetched EXCEPT ![h] = line], fetched \in [Host -> Line]
  PROVE  Read' = [Read EXCEPT ![h] = Tree(line)]
BY DEF Read

LEMMA DraftsMove ==
  ASSUME NEW h \in Host, fetched \in [Host -> Line], head \in [Host -> Line],
         \A k \in Host \ {h} : fetched'[k] = fetched[k] /\ head'[k] = head[k]
  PROVE  Drafts' = [Drafts EXCEPT ![h] = DraftsOf(fetched'[h], head'[h])]
<1>1. /\ Drafts = [k \in Host |-> DraftsOf(fetched[k], head[k])]
      /\ Drafts' = [k \in Host |-> DraftsOf(fetched'[k], head'[k])]
  BY DraftsAre DEF Drafts, DraftsOf, More
<1> QED  BY <1>1

\* A commit to a file is a write of the store.
LEMMA AddsWrites ==
  ASSUME StandingInv, HistoryInv, NEW h \in Host, NEW f \in Record \cup Log \cup {h},
         NEW entries \in Seq(Host \cup Nat), Adds(h, f, entries),
         IF f = h THEN entries \in Seq(Nat) \ {<<>>} ELSE entries = <<h>>
  PROVE  Contract!Writes(h, f)
<1>1. /\ head \in [Host -> Line] /\ fetched \in [Host -> Line] /\ head[h] \in Line /\ fetched[h] \in Line
      /\ Reaches(fetched[h], head[h]) /\ Sound(head[h]) /\ f \in File
  BY FileNames DEF StandingInv, Standing, HistoryInv, TypeOK, File
<1> DEFINE before == DraftsOf(fetched[h], head[h])
           after == DraftsOf(fetched'[h], head'[h])
<1>2. after = [before EXCEPT ![f] = @ \o entries]
  <2>1. /\ head'[h] = CommitOn(head[h], h, Added(head[h], f, entries), {})
        /\ fetched'[h] = fetched[h]
    BY <1>1 DEF Adds
  <2> QED  BY <1>1, <2>1, DraftsAdded
<1>3. before \in Trees /\ before[f] \in Seq(Host \cup Nat)
  BY <1>1, DraftsType DEF Trees
<1>4. Drafts' = [Drafts EXCEPT ![h] = after]
  BY <1>1, DraftsMove DEF Adds
<1>5. Drafts[h] = before /\ DOMAIN Drafts = Host
  BY DraftsAre
<1> HIDE DEF before, after
<1>6. Drafts' = [Drafts EXCEPT ![h][f] = @ \o entries] /\ Drafts'[h][f] = Drafts[h][f] \o entries
  BY <1>1, <1>2, <1>3, <1>4, <1>5 DEF Trees
<1>7. SubSeq(Drafts'[h][f], Len(Drafts[h][f]) + 1, Len(Drafts'[h][f])) = entries
  BY <1>3, <1>5, <1>6, MoreOfConcat DEF More
<1>8. entries \in Contract!Entries(h, f) /\ Contract!MayAdd(h, f)
  BY FileAssumption DEF Contract!Entries, Contract!MayAdd
<1>9. UNCHANGED <<Tree(main), [k \in Host |-> Tree(fetched[k])]>>
  BY DEF Adds
<1> QED  BY <1>6, <1>7, <1>8, <1>9 DEF Contract!Writes

LEMMA WhatIsDrafted ==
  ASSUME StandingInv, HistoryInv, NEW h \in Host
  PROVE  /\ Contract!Drafted(h) = {f \in File : DraftsOf(fetched[h], head[h])[f] # <<>>}
         /\ Contract!Drafted(h) = {} => DraftsOf(fetched[h], head[h]) = Contract!Nothing
<1>1. Contract!Drafted(h) = {f \in File : DraftsOf(fetched[h], head[h])[f] # <<>>}
  BY DraftsAre DEF Contract!Drafted, Contract!File, File
<1>2. DraftsOf(fetched[h], head[h]) = [f \in File |-> DraftsOf(fetched[h], head[h])[f]]
  BY DEF DraftsOf
<1> QED  BY <1>1, <1>2 DEF Contract!Nothing, Contract!File, File

\* A push that lands is the store's landing, or sends nothing of any file.
LEMMA PushIsLanding ==
  ASSUME StandingInv, HistoryInv, NEW h \in Host,
         main = fetched[h], main' = head[h],
         fetched' = [fetched EXCEPT ![h] = head[h]],
         Tree(head'[h]) = Tree(head[h]), head' \in [Host -> Line],
         \A k \in Host \ {h} : head'[k] = head[k]
  PROVE  Contract!Lands(h) \/ UNCHANGED Contract!vars
<1>1. /\ head \in [Host -> Line] /\ fetched \in [Host -> Line] /\ head[h] \in Line /\ fetched[h] \in Line
      /\ Reaches(fetched[h], head[h]) /\ Sound(head[h]) /\ head'[h] \in Line /\ fetched'[h] = head[h]
  BY DEF StandingInv, Standing, HistoryInv, TypeOK
<1> DEFINE before == DraftsOf(fetched[h], head[h])
<1>2. before \in Trees /\ Tree(head[h]) = [f \in File |-> Tree(main)[f] \o before[f]]
  <2>1. before \in Trees /\ Tree(head[h]) = [f \in File |-> Tree(fetched[h])[f] \o before[f]]
    BY <1>1, DraftsType
  <2> QED  BY <2>1
<1>3. DraftsOf(fetched'[h], head'[h]) = Contract!Nothing
  BY <1>1, NoDrafts
<1>4. Drafts' = [Drafts EXCEPT ![h] = Contract!Nothing]
  BY <1>1, <1>3, DraftsMove
<1>5. Drafts[h] = before /\ DOMAIN Drafts = Host
  BY DraftsAre
<1>6. Contract!Drafted(h) = {f \in File : before[f] # <<>>}
      /\ (Contract!Drafted(h) = {} => before = Contract!Nothing)
  BY WhatIsDrafted
<1>7. Read' = [Read EXCEPT ![h] = Tree(main')] /\ Read[h] = Tree(main)
  BY <1>1, ReadMoves DEF Read
<1> HIDE DEF before
<1>8. CASE Contract!Drafted(h) = {}
  <2>1. Drafts' = Drafts
    BY <1>4, <1>5, <1>6, <1>8, DraftsAre
  <2>2. before = Contract!Nothing /\ Tree(head[h]) \in Trees /\ Tree(main) \in Trees
    BY <1>1, <1>6, <1>8, LineType
  <2>3. Tree(main') = Tree(main)
    <3>1. Tree(head[h]) = Tree(fetched[h])
      <4>1. \A f \in File : Tree(fetched[h])[f] = Tree(head[h])[f]
        BY <1>1, <2>2, DraftsType DEF before, Contract!Nothing, Contract!File, File
      <4> QED  BY <2>2, <4>1 DEF Trees
    <3> QED  BY <3>1
  <2>4. Read' = Read
    BY <1>7, <2>3 DEF Read
  <2> QED  BY <2>1, <2>3, <2>4 DEF Contract!vars, Read
<1>9. CASE Contract!Drafted(h) # {}
  <2>1. Tree(main') = [f \in File |-> Tree(main)[f] \o Drafts[h][f]]
    BY <1>2, <1>5
  <2> QED  BY <1>4, <1>7, <1>9, <2>1 DEF Contract!Lands, Read, Contract!File, File
<1> QED  BY <1>8, <1>9

\* A push that does not land is a drop, a rebase or nothing to the store.
LEMMA LossIsDrop ==
  ASSUME StandingInv, StandingInv', HistoryInv, OwnInv, NEW h \in Host, NEW line \in {main, fetched[h]},
         UNCHANGED main, Loses(h, line)
  PROVE  \/ Contract!Reads(h) \/ Contract!Rebases(h) \/ Contract!Drops(h)
         \/ UNCHANGED Contract!vars
<1>1. /\ head \in [Host -> Line] /\ fetched \in [Host -> Line] /\ head[h] \in Line /\ fetched[h] \in Line
      /\ Reaches(fetched[h], head[h]) /\ Sound(head[h]) /\ fetched'[h] = line /\ line \in Line
      /\ head' \in [Host -> Line] /\ main \in Line
  BY DEF StandingInv, Standing, HistoryInv, TypeOK, Loses
<1> DEFINE before == DraftsOf(fetched[h], head[h])
           after == DraftsOf(line, head'[h])
<1>2. Drafts' = [Drafts EXCEPT ![h] = after]
  <2>1. \A k \in Host \ {h} : fetched'[k] = fetched[k] /\ head'[k] = head[k]
    BY <1>1 DEF Loses
  <2> QED  BY <1>1, <2>1, DraftsMove
<1>3. Drafts[h] = before /\ DOMAIN Drafts = Host /\ Drafts = [k \in Host |-> Drafts[k]]
  BY DraftsAre
<1>4. Contract!Drafted(h) = {f \in File : before[f] # <<>>}
      /\ (Contract!Drafted(h) = {} => before = Contract!Nothing)
  BY WhatIsDrafted
<1>5. Read' = [Read EXCEPT ![h] = Tree(line)] /\ Read[h] = Tree(fetched[h]) /\ Read = [k \in Host |-> Read[k]]
  <2>1. fetched' = [fetched EXCEPT ![h] = line]
    BY DEF Loses
  <2> QED  BY <1>1, <2>1, ReadMoves DEF Read
<1>6. Tree(main') = Tree(main)
  OBVIOUS
<1>7. line = fetched[h] => Read' = Read
  BY <1>5
<1>8. CASE head' = [head EXCEPT ![h] = line]
  <2>1. after = Contract!Nothing
    BY <1>1, <1>8, NoDrafts
  <2> HIDE DEF before, after
  <2>2. CASE Contract!Drafted(h) # {}
    <3>1. Read' \in {Read, [Read EXCEPT ![h] = Tree(main)]}
      BY <1>5, <1>7
    <3> QED  BY <1>2, <1>6, <2>1, <2>2, <3>1 DEF Contract!Drops, Read
  <2>3. CASE Contract!Drafted(h) = {}
    <3>1. Drafts' = Drafts /\ Drafts[h] = Contract!Nothing
      BY <1>2, <1>3, <1>4, <2>1, <2>3
    <3>2. CASE line = fetched[h]
      BY <1>6, <1>7, <3>1, <3>2 DEF Contract!vars, Read
    <3>3. CASE line = main
      BY <1>5, <1>6, <3>1, <3>3 DEF Contract!Reads, Read
    <3> QED  BY <3>2, <3>3
  <2> QED  BY <2>2, <2>3
<1>9. CASE ~Overlap(head[h], line) /\ head' = [head EXCEPT ![h] = Replayed(h, @, line)]
  <2>1. CommonAncestor(head[h], line) = fetched[h]
    BY <1>1, PartsWhereFetched, PartsFromItself
  <2>2. head'[h] = Replayed(h, head[h], line)
    BY <1>1, <1>9
  <2>3. /\ after = before
        /\ \A f \in File : before[f] # <<>> => Tree(fetched[h])[f] = Tree(line)[f]
    BY <1>1, <1>9, <2>1, <2>2, DraftsReplayed
  <2> HIDE DEF before, after
  <2>4. Drafts' = Drafts
    BY <1>2, <1>3, <2>3
  <2>5. CASE line = fetched[h]
    BY <1>6, <1>7, <2>4, <2>5 DEF Contract!vars, Read
  <2>6. CASE line = main
    <3>1. \A f \in Contract!Drafted(h) : Read[h][f] = Tree(main)[f]
      BY <1>4, <1>5, <2>3, <2>6
    <3> QED  BY <1>5, <1>6, <2>4, <2>6, <3>1 DEF Contract!Rebases, Read
  <2> QED  BY <2>5, <2>6
<1> QED  BY <1>8, <1>9 DEF Loses

LEMMA StepOfTheStore ==
  ASSUME TickOnly, StandingInv, StandingInv', HistoryInv, OwnInv, [Next]_vars
  PROVE  [Contract!Next]_(Contract!vars)
<1>1. /\ main \in Line /\ head \in [Host -> Line] /\ fetched \in [Host -> Line]
      /\ head' \in [Host -> Line]
      /\ \A h \in Host : head[h] \in Line
  BY DEF StandingInv, TypeOK
<1>2. CASE UNCHANGED <<main, head, fetched>>
  BY <1>2 DEF Contract!vars, Drafts
<1>3. ASSUME NEW h \in Host, NEW f \in Record \cup Log, Adds(h, f, <<h>>) PROVE Contract!Next
  <2>1. <<h>> \in Seq(Host \cup Nat) /\ f # h
    BY FileAssumption
  <2>2. f \in Record \cup Log \cup {h}
    OBVIOUS
  <2>3. Contract!Writes(h, f)
    BY <1>3, <2>1, <2>2, AddsWrites
  <2> QED  BY <2>3 DEF Contract!Next, Contract!File
<1>4. ASSUME NEW h \in Host, NEW entries \in Seq(Nat) \ {<<>>}, Adds(h, h, entries) PROVE Contract!Next
  <2>1. entries \in Seq(Host \cup Nat)
    OBVIOUS
  <2>2. h \in Record \cup Log \cup {h}
    OBVIOUS
  <2>3. Contract!Writes(h, h)
    BY <1>4, <2>1, <2>2, AddsWrites
  <2> QED  BY <2>3 DEF Contract!Next, Contract!File
<1>5. ASSUME NEW h \in Host, NEW e \in Effect, Marks(h, e) PROVE UNCHANGED Contract!vars
  <2>1. Tree(head[h]) \in Trees
    BY <1>1, LineType
  <2>2. {e} \in SUBSET Effect
    OBVIOUS
  <2>3. Tree(CommitOn(head[h], h, Tree(head[h]), {e})) = Tree(head[h])
    BY <1>1, <2>1, <2>2, CommitOnExtends
  <2>4. head' = [head EXCEPT ![h] = CommitOn(head[h], h, Tree(head[h]), {e})] /\ UNCHANGED <<main, fetched>>
    BY <1>1, <1>5 DEF Marks
  <2>5. \A k \in Host : Tree(head'[k]) = Tree(head[k])
    BY <1>1, <2>3, <2>4
  <2>6. \A k \in Host : DraftsOf(fetched'[k], head'[k]) = DraftsOf(fetched[k], head[k])
    BY <2>4, <2>5 DEF DraftsOf
  <2>7. Drafts' = [k \in Host |-> DraftsOf(fetched'[k], head'[k])]
    BY DEF Drafts, DraftsOf, More
  <2>8. Drafts' = Drafts
    BY <2>6, <2>7, DraftsAre
  <2> QED  BY <2>4, <2>8 DEF Contract!vars
<1>6. ASSUME NEW h \in Host, Follows(h) PROVE [Contract!Next]_(Contract!vars)
  <2>1. Loses(h, main)
    BY <1>6 DEF Follows, Loses
  <2>2. main \in {main, fetched[h]} /\ UNCHANGED main
    BY <1>6 DEF Follows
  <2>3. \/ Contract!Reads(h) \/ Contract!Rebases(h) \/ Contract!Drops(h)
        \/ UNCHANGED Contract!vars
    BY <2>1, <2>2, LossIsDrop
  <2> QED  BY <2>3 DEF Contract!Next
<1>7. ASSUME NEW h \in Host, Sends(h) PROVE [Contract!Next]_(Contract!vars)
  <2>1. /\ main = fetched[h] /\ main' = head[h] /\ fetched' = [fetched EXCEPT ![h] = head[h]]
        /\ head' = head
    BY <1>7 DEF Sends
  <2>2. Contract!Lands(h) \/ UNCHANGED Contract!vars
    BY <1>1, <2>1, PushIsLanding
  <2> QED  BY <2>2 DEF Contract!Next
<1>8. ASSUME NEW h \in Host, NEW line \in Line, Loses(h, line) PROVE [Contract!Next]_(Contract!vars)
  <2>1. CASE line \in {main, fetched[h]} /\ UNCHANGED main
    <3>1. \/ Contract!Reads(h) \/ Contract!Rebases(h) \/ Contract!Drops(h)
          \/ UNCHANGED Contract!vars
      BY <1>8, <2>1, LossIsDrop
    <3> QED  BY <3>1 DEF Contract!Next
  <2>2. CASE line = head[h] /\ main = fetched[h] /\ main' = head[h]
    <3>1. /\ head'[h] = head[h] \/ head'[h] = Replayed(h, head[h], head[h])
          /\ \A k \in Host \ {h} : head'[k] = head[k]
          /\ fetched' = [fetched EXCEPT ![h] = head[h]]
      BY <1>1, <1>8, <2>2 DEF Loses
    <3>2. Tree(Replayed(h, head[h], head[h])) = Tree(head[h])
      <4> DEFINE s == head[h]
      <4>1. s \in Line /\ Tree(s) \in Trees
        BY <1>1, LineType
      <4> HIDE DEF s
      <4>2. CommonAncestor(s, s) = s
        BY <4>1, StandsOnItself, PartsFromItself
      <4>3. [f \in File |-> IF f \in Changed(s, s) THEN Tree(s)[f] ELSE Tree(s)[f]] = Tree(s)
        BY <4>1 DEF Trees
      <4>4. Replayed(h, s, s) = CommitOn(s, h, Tree(s), {})
        BY <4>2, <4>3 DEF Replayed
      <4>5. {} \in SUBSET Effect
        OBVIOUS
      <4> QED  BY <4>1, <4>4, <4>5, CommitOnExtends DEF s
    <3>3. Contract!Lands(h) \/ UNCHANGED Contract!vars
      BY <1>1, <2>2, <3>1, <3>2, PushIsLanding
    <3> QED  BY <3>3 DEF Contract!Next
  <2> QED  BY <1>8, <2>1, <2>2 DEF Loses
<1> QED  BY <1>2, <1>3, <1>4, <1>5, <1>6, <1>7, <1>8, Shapes

\* Whole ticks of any hosts over the shared line are the store's steps, however
\* many pushes are rejected, out of reach or unheard: what one tick wrote lands
\* in one step over the very files it was made from, or is dropped (traits.rs
\* StateStore, flush, 134, 167).  That it is one or the other in the end is
\* IsAStore, which TLC checks.
THEOREM TicksAreAStore ==
  ASSUME TickOnly
  PROVE  Spec => Contract!Init /\ [][Contract!Next]_(Contract!vars)
<1>1. Init => Contract!Init
  <2>1. Init => Drafts = [h \in Host |-> Contract!Nothing]
    <3>1. DraftsOf(Root, Root) = Contract!Nothing
      BY RootType, NoDrafts
    <3> QED  BY <3>1, DraftsAre DEF Init
  <2>2. Tree(Root) = Contract!Nothing
    BY DEF Root, Tree, Contract!Nothing, Contract!File, File
  <2> QED  BY <2>1, <2>2 DEF Init, Contract!Init
<1>2. StandingInv /\ StandingInv' /\ HistoryInv /\ OwnInv /\ [Next]_vars => [Contract!Next]_(Contract!vars)
  BY StepOfTheStore
<1> QED  BY <1>1, <1>2, OwnHolds, HistoryHolds, PTL DEF Spec

-----------------------------------------------------------------------------
(* The order of a run record *)

\* Whole ticks whose pushes are answered, if they reach the git host at all: a
\* push that landed unheard leaves what it said owed, and it is said again.
TicksAnswered == Faults \subseteq {"unreachable"}

\* A run record of entries in their order, none beyond the last that was said.
Rising(s, n) ==
  \A i \in DOMAIN s : s[i] \in 1..n /\ \A j \in DOMAIN s : i < j => s[i] < s[j]

\* A host knows all of its own record that is on main, which nobody else writes,
\* and goes on from there: with what it owes, once, when it is at a push.
Once(h) ==
  /\ Tree(fetched[h])[h] = Tree(main)[h]
  /\ Rising(Tree(main)[h] \o owed[h], said[h])
  /\ doing[h] = Tick => Tree(head[h])[h] = Tree(main)[h]
  /\ doing[h] \in {"tick ends", "run record"} => Tree(head[h])[h] = Tree(main)[h] \o owed[h]
  /\ \A k \in Host \ {h} : Tree(head[h])[k] = Tree(fetched[h])[k]

OnceInv == \A h \in Host : Once(h)

LEMMA RisingBegins ==
  ASSUME NEW S, NEW s \in Seq(S), NEW t \in Seq(S), NEW n, Rising(s \o t, n)
  PROVE  Rising(s, n)
<1>1. /\ Len(s) \in Nat /\ Len(t) \in Nat /\ DOMAIN s = 1..Len(s)
      /\ DOMAIN (s \o t) = 1..(Len(s) + Len(t))
      /\ \A i \in 1..(Len(s) + Len(t)) : (s \o t)[i] = IF i <= Len(s) THEN s[i] ELSE t[i - Len(s)]
  BY ConcatProperties, LenProperties
<1>2. \A i \in 1..Len(s) : i \in DOMAIN (s \o t) /\ (s \o t)[i] = s[i]
  BY <1>1
<1> QED  BY <1>1, <1>2 DEF Rising

\* What is said next goes after all that was said.
LEMMA RisingGoesOn ==
  ASSUME NEW S, NEW s \in Seq(S), NEW n \in Nat, NEW k \in Nat, Rising(s, n)
  PROVE  Rising(s \o [i \in 1..k |-> n + i], n + k)
<1> DEFINE t == [i \in 1..k |-> n + i]
           u == s \o t
           m == Len(s)
<1>1. t \in Seq(Nat) /\ Len(t) = k /\ \A i \in 1..k : t[i] = n + i
  OBVIOUS
<1>2. s \in Seq(S \cup Nat) /\ t \in Seq(S \cup Nat)
  <2> HIDE DEF t
  <2> QED  BY <1>1, SeqMonotonic
<1>3. /\ m \in Nat /\ DOMAIN s = 1..m /\ DOMAIN u = 1..(m + k)
      /\ \A i \in 1..(m + k) : u[i] = IF i <= m THEN s[i] ELSE t[i - m]
  <2> HIDE DEF t
  <2>1. /\ u \in Seq(S \cup Nat) /\ Len(u) = m + Len(t)
        /\ \A i \in 1..(m + Len(t)) : u[i] = IF i <= m THEN s[i] ELSE t[i - m]
    BY <1>2, ConcatProperties
  <2>2. DOMAIN u = 1..Len(u) /\ m \in Nat /\ DOMAIN s = 1..m
    BY <2>1, LenProperties
  <2> QED  BY <1>1, <2>1, <2>2
<1>4. \A i \in 1..m : s[i] \in 1..n /\ \A j \in 1..m : i < j => s[i] < s[j]
  BY <1>3 DEF Rising
<1> HIDE DEF t, u, m
<1>5. ASSUME NEW i \in 1..(m + k)
      PROVE  \/ i <= m /\ u[i] = s[i] /\ s[i] \in 1..n
             \/ m < i /\ u[i] = n + (i - m)
  <2>1. CASE i <= m
    BY <1>3, <1>4, <2>1
  <2>2. CASE m < i
    <3>1. i - m \in 1..k /\ ~(i <= m)
      BY <1>3, <2>2
    <3> QED  BY <1>1, <1>3, <2>2, <3>1
  <2> QED  BY <1>3, <2>1, <2>2
<1>6. ASSUME NEW i \in 1..(m + k), NEW j \in 1..(m + k), i < j
      PROVE  u[i] < u[j]
  <2>1. CASE j <= m
    BY <1>3, <1>4, <1>5, <1>6, <2>1
  <2>2. CASE m < j
    BY <1>3, <1>5, <1>6, <2>2
  <2> QED  BY <1>3, <2>1, <2>2
<1>7. ASSUME NEW i \in 1..(m + k) PROVE u[i] \in 1..(n + k)
  BY <1>3, <1>5
<1>8. Rising(u, n + k)
  BY <1>3, <1>6, <1>7 DEF Rising
<1> QED  BY <1>8 DEF u, t

\* A replay from where a host parted from main changes no file the host did
\* not, and leaves what it wrote to a file nobody else did.
LEMMA ReplayedOver ==
  ASSUME NEW h \in Host, NEW ours \in Line, NEW onto \in Line, NEW f \in File
  PROVE  LET base == CommonAncestor(ours, onto)
         IN  Tree(Replayed(h, ours, onto))[f]
               = IF Tree(base)[f] # Tree(ours)[f] THEN Tree(ours)[f] ELSE Tree(onto)[f]
<1> DEFINE base == CommonAncestor(ours, onto)
           tree == [g \in File |-> IF g \in Changed(base, ours) THEN Tree(ours)[g] ELSE Tree(onto)[g]]
<1>1. tree \in Trees
  BY LineType DEF Trees
<1>2. Replayed(h, ours, onto) = CommitOn(onto, h, tree, {})
  BY DEF Replayed
<1>3. tree[f] = IF Tree(base)[f] # Tree(ours)[f] THEN Tree(ours)[f] ELSE Tree(onto)[f]
  BY DEF Changed
<1> HIDE DEF tree
<1>4. Tree(CommitOn(onto, h, tree, {})) = tree
  BY <1>1, CommitOnExtends
<1> QED  BY <1>2, <1>3, <1>4

\* Only its own host moves a run record.
LEMMA OthersOnce ==
  ASSUME OnceInv, NEW h \in Host, Once(h)',
         \A k \in Host \ {h} : /\ fetched'[k] = fetched[k] /\ head'[k] = head[k]
                               /\ doing'[k] = doing[k] /\ owed'[k] = owed[k] /\ said'[k] = said[k]
                               /\ Tree(main')[k] = Tree(main)[k]
  PROVE  OnceInv'
<1>1. ASSUME NEW k \in Host, k # h PROVE Once(k)'
  BY <1>1 DEF OnceInv, Once
<1> QED  BY <1>1 DEF OnceInv

\* A push that did not land leaves what the host owes on its checkout, or its
\* checkout at what it read.
LEMMA RejectedOnce ==
  ASSUME StandingInv, OwnInv, OnceInv, NEW h \in Host, NEW line \in {main, fetched[h]},
         Rejected(h, line), doing[h] \in {"tick ends", "run record"}, main' = main
  PROVE  Once(h)'
<1>1. /\ main \in Line /\ line \in Line /\ head[h] \in Line /\ fetched[h] \in Line
      /\ DOMAIN head = Host /\ DOMAIN fetched = Host /\ DOMAIN doing = Host
      /\ Standing(h) /\ Once(h)
  BY DEF StandingInv, TypeOK, OnceInv
<1>2. fetched'[h] = line /\ owed' = owed /\ said' = said /\ FlushRejected(h, line)
  BY <1>1 DEF Rejected
<1>3. Tree(line)[h] = Tree(main)[h]
  BY <1>1 DEF Once
<1>4. CASE GivesUp(h, line)
  <2>1. head'[h] = line /\ doing'[h] = Idle
    BY <1>1, <1>4 DEF GivesUp
  <2> QED  BY <1>1, <1>2, <1>3, <2>1 DEF Once, Idle, Tick
<1>5. CASE TriesAgain(h, Replayed(h, head[h], line))
  <2> DEFINE next == Replayed(h, head[h], line)
  <2>1. head'[h] = next /\ doing' = doing
    BY <1>1, <1>5 DEF TriesAgain
  <2>2. CommonAncestor(head[h], line) = fetched[h]
    <3>1. CASE line = main
      BY <3>1, PartsWhereFetched
    <3>2. CASE line = fetched[h]
      BY <1>1, <3>2, PartsFromItself DEF Standing
    <3> QED  BY <3>1, <3>2
  <2>3. \A f \in File : Tree(next)[f] = IF Tree(fetched[h])[f] # Tree(head[h])[f] THEN Tree(head[h])[f]
                                                                               ELSE Tree(line)[f]
    <3>1. ASSUME NEW f \in File
          PROVE  LET base == CommonAncestor(head[h], line)
                 IN  Tree(next)[f] = IF Tree(base)[f] # Tree(head[h])[f] THEN Tree(head[h])[f] ELSE Tree(line)[f]
      BY <1>1, ReplayedOver
    <3> HIDE DEF next
    <3> QED  BY <2>2, <3>1
  <2> HIDE DEF next
  <2>4. Host \subseteq File
    BY FileNames
  <2>5. Tree(next)[h] = Tree(head[h])[h]
    BY <1>1, <1>3, <2>3, <2>4 DEF Once
  <2>6. \A k \in Host \ {h} : Tree(next)[k] = Tree(line)[k]
    BY <1>1, <2>3, <2>4 DEF Once
  <2> QED  BY <1>1, <1>2, <1>3, <2>1, <2>5, <2>6 DEF Once, Tick
<1>6. GivesUp(h, line) \/ TriesAgain(h, Replayed(h, head[h], line))
  BY <1>2 DEF FlushRejected
<1> QED  BY <1>4, <1>5, <1>6

LEMMA OnceStep ==
  ASSUME TicksAnswered, StandingInv, StandingInv', OwnInv, OnceInv, [Next]_vars
  PROVE  OnceInv'
<1>1. TickOnly
  BY DEF TickOnly, TicksAnswered
<1>2. CASE UNCHANGED vars
  BY <1>2 DEF vars, OnceInv, Once
<1> SUFFICES ASSUME NEW h \in Host,
                    \/ \E r \in Record : Put(h, r)
                    \/ \E l \in Log : AppendThread(h, l)
                    \/ \E d \in Delivery : Receive(h, d)
                    \/ \E e \in Effect : WriteEffect(h, e)
                    \/ SettleRecord(h)
                    \/ TickBegins(h)
                    \/ TakeRefused(h)
                    \/ TickFails(h)
                    \/ TickEnds(h)
                    \/ PushLands(h)
                    \/ PushRejected(h)
                    \/ PushUnreachable(h)
                    \/ PushUnheard(h)
                    \/ Disconnect(h)
                    \/ Reconnect(h)
                    \/ CrashAndOpen(h)
             PROVE  OnceInv'
  BY <1>2 DEF Next
<1> DEFINE Others == \A k \in Host \ {h} : /\ fetched'[k] = fetched[k] /\ head'[k] = head[k]
                                           /\ doing'[k] = doing[k] /\ owed'[k] = owed[k] /\ said'[k] = said[k]
                                           /\ Tree(main')[k] = Tree(main)[k]
<1> SUFFICES Others /\ Once(h)'
  BY OthersOnce
<1>3. /\ main \in Line /\ head \in [Host -> Line] /\ fetched \in [Host -> Line]
      /\ DOMAIN doing = Host /\ owed \in [Host -> Seq(Nat)] /\ said \in [Host -> Nat]
      /\ head[h] \in Line /\ fetched[h] \in Line /\ main' \in Line
      /\ Standing(h) /\ Once(h) /\ said[h] \in Nat
      /\ Tree(main)[h] \in Seq(Host \cup Nat) /\ owed[h] \in Seq(Host \cup Nat)
  <2>1. Tree(main) \in Trees
    BY LineType DEF StandingInv, TypeOK
  <2>2. Tree(main)[h] \in Seq(Host \cup Nat)
    BY <2>1, FileNames DEF Trees
  <2> QED  BY <2>2, SeqMonotonic DEF StandingInv, TypeOK, OnceInv
<1>4. ~MayCall(h) /\ Host \subseteq File /\ \A f \in Record \cup Log : f \in File /\ f \notin Host
  BY <1>1, FileNames, FileAssumption DEF MayCall, TickOnly
\* A commit in a tick that leaves the run records alone.
<1>5. ASSUME NEW tree \in Trees, NEW effects \in SUBSET Effect, NEW flush, \A k \in Host : tree[k] = Tree(head[h])[k],
             MayWrite(h), Committed(h, CommitOn(head[h], h, tree, effects), flush), UNCHANGED <<owed, said>>
      PROVE  Others /\ Once(h)'
  <2> DEFINE line == CommitOn(head[h], h, tree, effects)
  <2>1. Tree(line) = tree
    BY <1>3, CommitOnExtends
  <2>2. doing[h] = Tick /\ Tick # Idle
    BY <1>4, <1>5 DEF MayWrite, Tick, Idle
  <2>3. /\ head' = [head EXCEPT ![h] = line] /\ UNCHANGED <<main, fetched, owed, said>>
        /\ doing' = [doing EXCEPT ![h] = doing[h]]
    BY <1>5, <2>2 DEF Committed
  <2> HIDE DEF line
  <2> QED  BY <1>3, <1>5, <2>1, <2>2, <2>3 DEF Once, Tick
<1>6. ASSUME NEW f \in Record \cup Log
      PROVE  Added(head[h], f, <<h>>) \in Trees /\ \A k \in Host : Added(head[h], f, <<h>>)[k] = Tree(head[h])[k]
  <2>1. <<h>> \in Seq(Host \cup Nat)
    OBVIOUS
  <2>2. Tree(head[h]) \in Trees
    BY <1>3, LineType
  <2> QED  BY <1>3, <1>4, <2>1, <2>2, AddedExtends DEF Added, Trees
<1>7. ASSUME NEW r \in Record, Put(h, r) PROVE Others /\ Once(h)'
  BY <1>5, <1>6, <1>7 DEF Put
<1>8. ASSUME NEW l \in Log, AppendThread(h, l) PROVE Others /\ Once(h)'
  BY <1>5, <1>6, <1>8 DEF AppendThread
<1>9. ASSUME NEW d \in Delivery, Receive(h, d) PROVE FALSE
  BY <1>4, <1>9 DEF Receive
<1>10. ASSUME NEW e \in Effect, WriteEffect(h, e) PROVE Others /\ Once(h)'
  <2>1. Tree(head[h]) \in Trees
    BY <1>3, LineType
  <2> QED  BY <1>5, <1>10, <2>1 DEF WriteEffect
\* A commit of entries to the host's own record.
<1>11. ASSUME NEW entries \in Seq(Host \cup Nat)
       PROVE  LET line == CommitOn(head[h], h, Added(head[h], h, entries), {})
              IN  /\ Len(line) = Len(head[h]) + 1
                  /\ Tree(line)[h] = Tree(head[h])[h] \o entries
                  /\ \A k \in Host \ {h} : Tree(line)[k] = Tree(head[h])[k]
  <2> DEFINE tree == Added(head[h], h, entries)
  <2>1. tree \in Trees
    BY <1>3, <1>4, AddedExtends
  <2>2. tree[h] = Tree(head[h])[h] \o entries /\ \A k \in Host \ {h} : tree[k] = Tree(head[h])[k]
    <3>1. Tree(head[h]) \in Trees
      BY <1>3, LineType
    <3> QED  BY <1>4, <3>1 DEF Added, Trees
  <2> HIDE DEF tree
  <2>3. /\ Tree(CommitOn(head[h], h, tree, {})) = tree
        /\ Len(CommitOn(head[h], h, tree, {})) = Len(head[h]) + 1
    BY <1>3, <2>1, CommitOnExtends
  <2> QED  BY <2>2, <2>3 DEF tree
<1>12. CASE SettleRecord(h)
  <2> DEFINE line == CommitOn(head[h], h, Added(head[h], h, owed[h]), {})
  <2>1. /\ Tree(line)[h] = Tree(head[h])[h] \o owed[h]
        /\ \A k \in Host \ {h} : Tree(line)[k] = Tree(head[h])[k]
    BY <1>3, <1>11
  <2>2. /\ head' = [head EXCEPT ![h] = line] /\ doing' = [doing EXCEPT ![h] = "run record"]
        /\ UNCHANGED <<main, fetched, owed, said>> /\ head[h] = fetched[h]
    BY <1>3, <1>12 DEF SettleRecord, Standing
  <2> HIDE DEF line
  <2> QED  BY <1>3, <2>1, <2>2 DEF Once, Tick
<1>13. CASE TickBegins(h)
  <2>1. doing[h] = Idle
    BY <1>3, <1>13 DEF TickBegins, Standing, Idle, Failed, Tick
  <2>2. /\ head' = [head EXCEPT ![h] = main] /\ fetched' = [fetched EXCEPT ![h] = main]
        /\ doing' = [doing EXCEPT ![h] = Tick] /\ UNCHANGED <<main, owed, said>>
    BY <1>3, <1>13, <2>1 DEF TickBegins, OnFetchedHead, Standing, Connected
  <2> QED  BY <1>3, <2>2 DEF Once, Tick
<1>14. CASE TakeRefused(h) \/ TickFails(h) \/ PushUnheard(h) \/ Disconnect(h) \/ CrashAndOpen(h)
  BY <1>14 DEF TakeRefused, TickFails, PushUnheard, Disconnect, CrashAndOpen, TicksAnswered
<1>15. CASE Reconnect(h)
  BY <1>3, <1>15 DEF Reconnect, Standing, Connected
<1>16. CASE TickEnds(h)
  <2>1. PICK k \in IF writes < MaxWrites THEN 0..1 ELSE {0} :
          LET entries == owed[h] \o [i \in 1..k |-> said[h] + i]
              line == IF entries = <<>> THEN head[h]
                      ELSE CommitOn(head[h], h, Added(head[h], h, entries), {})
              over == offline[h] \/ line = fetched[h]
          IN  /\ said' = [said EXCEPT ![h] = @ + k]
              /\ head' = [head EXCEPT ![h] = line]
              /\ doing' = [doing EXCEPT ![h] = IF over THEN Idle ELSE "tick ends"]
              /\ owed' = [owed EXCEPT ![h] = IF over THEN <<>> ELSE entries]
              /\ UNCHANGED <<main, fetched>>
    BY <1>16 DEF TickEnds
  <2> DEFINE new == [i \in 1..k |-> said[h] + i]
             entries == owed[h] \o new
             line == IF entries = <<>> THEN head[h]
                     ELSE CommitOn(head[h], h, Added(head[h], h, entries), {})
  <2>2. k \in Nat
    <3>1. k \in IF writes < MaxWrites THEN 0..1 ELSE {0}
      BY <2>1
    <3> QED  BY <3>1
  <2>3. entries \in Seq(Host \cup Nat) /\ new \in Seq(Host \cup Nat)
    <3>1. new \in Seq(Nat)
      <4>1. said[h] \in Nat
        BY <1>3
      <4> QED  BY <2>2, <4>1
    <3> HIDE DEF new
    <3> QED  BY <3>1, <2>2, EntriesType, SeqMonotonic DEF StandingInv
  <2>4. Rising(Tree(main)[h] \o entries, said[h] + k)
    <3> DEFINE before == Tree(main)[h] \o owed[h]
    <3>1. before \in Seq(Host \cup Nat) /\ Rising(before, said[h])
      BY <1>3, ConcatProperties DEF Once
    <3>2. Rising(before \o new, said[h] + k)
      <4> HIDE DEF before
      <4> QED  BY <1>3, <2>2, <3>1, RisingGoesOn
    <3>3. before \o new = Tree(main)[h] \o entries
      <4>1. Tree(main)[h] \in Seq(Host \cup Nat) /\ owed[h] \in Seq(Host \cup Nat)
        BY <1>3
      <4>2. \A s, t, u \in Seq(Host \cup Nat) : (s \o t) \o u = s \o (t \o u)
        BY ConcatAssociative
      <4> HIDE DEF new
      <4> QED  BY <2>3, <4>1, <4>2, Zenon
    <3> QED  BY <3>2, <3>3
  <2> HIDE DEF new
  <2>5. doing[h] = Tick /\ Tree(head[h])[h] = Tree(main)[h] /\ ~offline[h]
    BY <1>3, <1>16 DEF TickEnds, Once, Standing, Connected
  <2>6. /\ Tree(line)[h] = Tree(main)[h] \o entries
        /\ \A j \in Host \ {h} : Tree(line)[j] = Tree(head[h])[j]
        /\ entries # <<>> => Len(line) = Len(head[h]) + 1
    <3> HIDE DEF entries
    <3>1. CASE entries = <<>>
      BY <1>3, <2>5, <3>1, ConcatEmptySeq
    <3>2. CASE entries # <<>>
      BY <1>11, <2>3, <2>5, <3>2
    <3> QED  BY <3>1, <3>2
  <2>7. line = fetched[h] => entries = <<>>
    <3>1. Len(fetched[h]) <= Len(head[h]) /\ Len(head[h]) \in Nat /\ Len(fetched[h]) \in Nat
      BY <1>3, LineType, PrefixPointwise DEF Standing, Reaches
    <3> HIDE DEF entries, line
    <3> QED  BY <2>6, <3>1
  <2> DEFINE over == line = fetched[h]
  <2>8. /\ said'[h] = said[h] + k /\ head'[h] = line /\ main' = main /\ fetched'[h] = fetched[h] /\ Others
        /\ doing'[h] = IF over THEN Idle ELSE "tick ends"
        /\ owed'[h] = entries
    <3>1. /\ said' = [said EXCEPT ![h] = said[h] + k] /\ head' = [head EXCEPT ![h] = line]
          /\ doing' = [doing EXCEPT ![h] = IF over THEN Idle ELSE "tick ends"]
          /\ owed' = [owed EXCEPT ![h] = IF over THEN <<>> ELSE entries]
          /\ UNCHANGED <<main, fetched>>
      BY <1>3, <2>1, <2>5 DEF new
    <3> HIDE DEF entries, line
    <3> QED  BY <1>3, <2>7, <3>1
  <2> HIDE DEF entries, line, over
  <2> QED  BY <1>3, <2>4, <2>5, <2>6, <2>8 DEF Once, Idle, Tick
<1>17. CASE PushLands(h)
  <2>1. doing[h] \in {"tick ends", "run record"}
    BY <1>3, <1>17 DEF PushLands, Standing, Pushing, Flushing, Idle, Tick
  <2>2. /\ main = fetched[h] /\ main' = head[h] /\ fetched' = [fetched EXCEPT ![h] = head[h]]
        /\ owed' = [owed EXCEPT ![h] = <<>>] /\ doing' = [doing EXCEPT ![h] = Idle]
        /\ UNCHANGED <<head, said>>
    BY <1>3, <1>17, <2>1 DEF PushLands
  <2>3. Tree(main')[h] = Tree(main)[h] \o owed[h] /\ Tree(main')[h] \o <<>> = Tree(main')[h]
    <3>1. Tree(main')[h] \in Seq(Host \cup Nat)
      BY <1>3, <1>4, LineType DEF Trees
    <3> QED  BY <1>3, <2>1, <2>2, <3>1, ConcatEmptySeq DEF Once
  <2>4. Others
    BY <1>3, <2>2 DEF Once
  <2> QED  BY <1>3, <2>2, <2>3, <2>4 DEF Once, Idle, Tick
<1>18. ASSUME NEW line \in {main, fetched[h]}, Rejected(h, line), main' = main
       PROVE  Others /\ Once(h)'
  <2>1. doing[h] \in {"tick ends", "run record"}
    BY <1>3, <1>18 DEF Standing, Rejected, Pushing, Flushing, Idle, Tick
  <2>2. Others
    BY <1>3, <1>18, <2>1 DEF Rejected, FlushRejected, GivesUp, TriesAgain
  <2> QED  BY <1>18, <2>1, <2>2, RejectedOnce
<1>19. CASE PushRejected(h)
  BY <1>18, <1>19 DEF PushRejected
<1>20. CASE PushUnreachable(h)
  BY <1>18, <1>20 DEF PushUnreachable
<1> QED  BY <1>7, <1>8, <1>9, <1>10, <1>12, <1>13, <1>14, <1>15, <1>16, <1>17, <1>19, <1>20

\* With hosts that write only in whole ticks, and hear what becomes of each push
\* that reached the git host, a run record on main has every entry once and in
\* the order it was said, whatever was owed and written again (append_run, 127).
THEOREM TicksSayOnce == ASSUME TicksAnswered PROVE Spec => []RunEntriesOnce
<1>1. TickOnly
  BY DEF TickOnly, TicksAnswered
<1>2. Init => OnceInv
  <2>1. Tree(Root) = [f \in File |-> <<>>]
    BY DEF Root, Tree
  <2>2. Host \subseteq File /\ <<>> \o <<>> = <<>>
    BY FileNames
  <2>3. Rising(<<>>, 0)
    BY DEF Rising
  <2> QED  BY <2>1, <2>2, <2>3 DEF Init, OnceInv, Once, Idle, Tick
<1>3. StandingInv /\ StandingInv' /\ OwnInv /\ OnceInv /\ [Next]_vars => OnceInv'
  BY OnceStep
<1>4. StandingInv /\ OnceInv => RunEntriesOnce
  <2> SUFFICES ASSUME StandingInv, OnceInv, NEW h \in Host
               PROVE  Rising(Tree(main)[h], said[h])
    BY DEF RunEntriesOnce, Rising
  <2>1. Tree(main)[h] \in Seq(Host \cup Nat) /\ owed[h] \in Seq(Host \cup Nat)
    <3>1. Tree(main) \in Trees /\ owed[h] \in Seq(Nat)
      BY LineType DEF StandingInv, TypeOK
    <3> QED  BY <3>1, FileNames, SeqMonotonic DEF Trees
  <2> QED  BY <2>1, RisingBegins DEF OnceInv, Once
<1> QED  BY <1>1, <1>2, <1>3, <1>4, OwnHolds, PTL DEF Spec
=============================================================================
