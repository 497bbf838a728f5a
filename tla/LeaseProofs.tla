----------------------------- MODULE LeaseProofs -----------------------------
(***************************************************************************)
(* What holds of Lease for every set of hosts, every cadence and window,   *)
(* and clocks any distance apart.                                          *)
(***************************************************************************)
EXTENDS Lease, TLAPS

-----------------------------------------------------------------------------
(* Types *)

\* What a host reads is a record or nothing.
LEMMA ReadsType ==
  ASSUME TypeOK, NEW h \in Host
  PROVE  /\ Reads(h) \in Record \cup {None}
         /\ HolderOf(Reads(h)) \in Host \cup {Nobody}
         /\ HolderOf(Reads(h)) # Nobody => Reads(h) # None /\ Reads(h) \in Record
BY NoneIsNoRecord DEF TypeOK, Reads, HolderOf, Record

\* The machine moves a lease between its declared states.
LEMMA NextStateType ==
  ASSUME NEW h \in Host, NEW record, record.state \in State
  PROVE  NextState(h, record) \in State
BY DEF NextState, State

\* A record a take writes.
LEMMA TakenType ==
  ASSUME TypeOK, NEW h \in Host
  PROVE  /\ TakenRecord(h) \in Record
         /\ TakenRecord(h).holder = h
         /\ TakenRecord(h).renewed = clock[h]
BY ReadsType DEF TypeOK, TakenRecord, Record, State

\* A record a renewal writes.
LEMMA RenewedType ==
  ASSUME TypeOK, NEW h \in Host, NEW record \in Record
  PROVE  /\ RenewedRecord(h, record) \in Record
         /\ RenewedRecord(h, record).holder = record.holder
         /\ RenewedRecord(h, record).renewed = clock[h]
BY DEF TypeOK, RenewedRecord, Record

\* A record a mark writes.
LEMMA MarkedType ==
  ASSUME TypeOK, NEW h \in Host, NEW state \in State
  PROVE  /\ MarkedRecord(h, state) \in Record
         /\ MarkedRecord(h, state).holder = HolderOf(Reads(h))
         /\ Reads(h) # None => MarkedRecord(h, state).renewed = Reads(h).renewed
BY ReadsType DEF TypeOK, MarkedRecord, Record

\* A write that is asked for keeps the types.
LEMMA AsksType ==
  ASSUME TypeOK, NEW h \in Host, NEW op \in {"take", "renew", "mark", "release"},
         NEW record \in Record \cup {None}, Asks(h, op, record)
  PROVE  /\ asking' \in [Host -> Asked \cup {None}]
         /\ local' \in [Host -> Record \cup {None}]
BY DEF TypeOK, Asks, Asked

\* What is asked for is a write.
LEMMA AskedType ==
  ASSUME TypeOK, NEW h \in Host, asking[h] # None
  PROVE  asking[h] \in Asked
BY DEF TypeOK

\* A rejected write keeps the types.
LEMMA RejectedType ==
  ASSUME TypeOK, NEW h \in Host, NEW seen \in Record \cup {None}, Rejected(h, seen), branch' \in Record \cup {None}
  PROVE  TypeOK'
BY AskedType DEF TypeOK, Rejected, LocalAfterRejection, Asked

\* Every step keeps the types.
LEMMA TypeStep ==
  ASSUME TypeOK, [Next]_vars
  PROVE  TypeOK'
<1> USE LeaseAssumption
<1>1. ASSUME NEW h \in Host, TickBegins(h) PROVE TypeOK'
  BY <1>1 DEF TypeOK, TickBegins
<1>2. ASSUME NEW h \in Host, Claim(h) PROVE TypeOK'
  <2>1. /\ asking' \in [Host -> Asked \cup {None}]
        /\ local' \in [Host -> Record \cup {None}]
    <3>1. CASE Mine(h) /\ Asks(h, "renew", RenewedRecord(h, Reads(h)))
      <4>1. Reads(h) \in Record
        BY <3>1, ReadsType, LeaseAssumption DEF Mine
      <4> QED  BY <3>1, <4>1, RenewedType, AsksType
    <3>2. CASE Asks(h, "take", TakenRecord(h))
      BY <3>2, TakenType, AsksType
    <3>3. CASE AsksNothing
      BY <3>3 DEF AsksNothing, TypeOK
    <3> QED  BY <1>2, <3>1, <3>2, <3>3 DEF Claim
  <2> QED  BY <1>2, <2>1 DEF TypeOK, Claim
<1>3. ASSUME NEW h \in Host, Acts(h) PROVE TypeOK'
  BY <1>3 DEF TypeOK, Acts
<1>4. ASSUME NEW h \in Host, Mark(h) PROVE TypeOK'
  <2>1. Reads(h) \in Record
    BY <1>4, ReadsType DEF Mark
  <2>2. NextState(h, Reads(h)) \in State
    BY <2>1, NextStateType DEF Record
  <2>3. /\ asking' \in [Host -> Asked \cup {None}]
        /\ local' \in [Host -> Record \cup {None}]
    BY <1>4, <2>2, MarkedType, AsksType DEF Mark
  <2> QED  BY <1>4, <2>3 DEF TypeOK, Mark
<1>5. ASSUME NEW h \in Host, Release(h) PROVE TypeOK'
  BY <1>5, AsksType DEF TypeOK, Release
<1>6. ASSUME NEW h \in Host, MarkExpired(h) PROVE TypeOK'
  <2>1. MarkedRecord(h, "expired") \in Record
    BY MarkedType DEF State
  <2>2. /\ asking' \in [Host -> Asked \cup {None}]
        /\ local' \in [Host -> Record \cup {None}]
    BY <1>6, <2>1, AsksType DEF MarkExpired
  <2> QED  BY <1>6, <2>2 DEF TypeOK, MarkExpired
<1>7. ASSUME NEW h \in Host, TickEnds(h) PROVE TypeOK'
  BY <1>7 DEF TypeOK, TickEnds
<1>8. ASSUME NEW h \in Host, PushLands(h) PROVE TypeOK'
  BY <1>8, AskedType DEF TypeOK, PushLands, Asked
<1>9. ASSUME NEW h \in Host, PushRejected(h) PROVE TypeOK'
  BY <1>9, RejectedType DEF PushRejected, TypeOK
<1>10. ASSUME NEW h \in Host, PushUnreachable(h) PROVE TypeOK'
  BY <1>10, RejectedType DEF PushUnreachable, TypeOK
<1>11. ASSUME NEW h \in Host, PushUnheard(h) PROVE TypeOK'
  <2>1. asking[h].record \in Record \cup {None}
    BY <1>11, AskedType DEF PushUnheard, Asked
  <2> QED  BY <1>11, <2>1, RejectedType DEF PushUnheard
<1>12. ASSUME NEW h \in Host, Disconnect(h) PROVE TypeOK'
  BY <1>12 DEF TypeOK, Disconnect
<1>13. ASSUME NEW h \in Host, Reconnect(h) PROVE TypeOK'
  <2> DEFINE read == IF branch # None THEN branch ELSE local[h]
  <2>1. /\ asking' \in [Host -> Asked \cup {None}]
        /\ local' \in [Host -> Record \cup {None}]
    <3>1. CASE HolderOf(read) = h /\ RenewalDue(h, read)
      <4>1. read \in Record
        BY <3>1, NoneIsNoRecord, LeaseAssumption DEF TypeOK, HolderOf
      <4>2. RenewedRecord(h, read) \in Record
        BY <4>1, RenewedType
      <4> QED  BY <1>13, <3>1, <4>2 DEF Reconnect, Asked, TypeOK
    <3>2. CASE ~(HolderOf(read) = h /\ RenewalDue(h, read))
      BY <1>13, <3>2 DEF Reconnect, AsksNothing, TypeOK
    <3> QED  BY <3>1, <3>2
  <2> QED  BY <1>13, <2>1 DEF TypeOK, Reconnect
<1>14. ASSUME NEW h \in Host, CrashAndOpen(h) PROVE TypeOK'
  BY <1>14 DEF TypeOK, CrashAndOpen
<1>15. ASSUME NEW h \in Host, Goes(h) PROVE TypeOK'
  BY <1>15 DEF TypeOK, Goes
<1>16. ASSUME TimePasses PROVE TypeOK'
  BY <1>16 DEF TypeOK, TimePasses
<1>17. ASSUME UNCHANGED vars PROVE TypeOK'
  BY <1>17 DEF TypeOK, vars
<1> QED
  BY <1>1, <1>2, <1>3, <1>4, <1>5, <1>6, <1>7, <1>8, <1>9, <1>10, <1>11, <1>12, <1>13, <1>14,
     <1>15, <1>16, <1>17 DEF Next

\* The lease's records and the states of a pass are what they are declared to be.
THEOREM LeaseTypesHold == Spec => []TypeOK
<1>1. Init => TypeOK
  BY LeaseAssumption DEF Init, TypeOK
<1>2. TypeOK /\ [Next]_vars => TypeOK'
  BY TypeStep
<1> QED  BY <1>1, <1>2, PTL DEF Spec

-----------------------------------------------------------------------------
(* What a write under way rests on *)

\* A host's hour is behind what its clock shows by now.
HoursPassed == \A h \in Host : clock[h] <= now + Ahead[h]

\* A write that keeps the holder keeps the renewal or moves it on; one that
\* changes the holder is a take, by a host whose hour is past the expiry of
\* what the push expects.
SoundWrite(h) ==
  LET record == asking[h].record
      expected == asking[h].expected
  IN  asking[h] # None /\ record # None /\ expected # None =>
        IF record.holder = expected.holder
          THEN expected.renewed <= record.renewed
          ELSE /\ record.holder = h
               /\ expected.holder # Nobody => expected.renewed + Expiry < clock[h]

WriteInv == TypeOK /\ HoursPassed /\ \A h \in Host : SoundWrite(h)

\* A host whose write is over has no unsound write, and the other hosts'
\* writes are what they were.
LEMMA NothingAsked ==
  ASSUME WriteInv, NEW h \in Host,
         asking' = [asking EXCEPT ![h] = None], UNCHANGED <<now, clock>>
  PROVE  HoursPassed' /\ \A k \in Host : SoundWrite(k)'
BY DEF WriteInv, TypeOK, HoursPassed, SoundWrite

\* A sound write asked for leaves every write sound.
LEMMA SoundAsk ==
  ASSUME WriteInv, NEW h \in Host, NEW op, NEW record \in Record \cup {None},
         Asks(h, op, record), UNCHANGED <<now, clock>>,
         record # None /\ tracking[h] # None =>
           IF record.holder = tracking[h].holder
             THEN tracking[h].renewed <= record.renewed
             ELSE /\ record.holder = h
                  /\ tracking[h].holder # Nobody => tracking[h].renewed + Expiry < clock[h]
  PROVE  HoursPassed' /\ \A k \in Host : SoundWrite(k)'
<1>1. HoursPassed'
  BY DEF WriteInv, HoursPassed
<1>2. ASSUME NEW k \in Host PROVE SoundWrite(k)'
  <2>1. CASE k = h
    <3>1. asking'[h] = [op |-> op, record |-> record, expected |-> tracking[h], before |-> local[h]]
      BY DEF Asks, WriteInv, TypeOK
    <3> QED  BY <2>1, <3>1 DEF SoundWrite
  <2>2. CASE k # h
    <3>1. asking'[k] = asking[k]
      BY <2>2 DEF Asks, WriteInv, TypeOK
    <3> QED  BY <3>1 DEF SoundWrite, WriteInv
  <2> QED  BY <2>1, <2>2
<1> QED  BY <1>1, <1>2

\* What no host asks for anew.
LEMMA NothingNew ==
  ASSUME WriteInv, UNCHANGED <<now, clock, asking>>
  PROVE  HoursPassed' /\ \A k \in Host : SoundWrite(k)'
BY DEF WriteInv, HoursPassed, SoundWrite

\* Every step keeps the writes sound: each is asked for over the record its
\* push expects, and the hour is read only between writes.
LEMMA WriteStep ==
  ASSUME WriteInv, [Next]_vars
  PROVE  WriteInv'
<1> USE LeaseAssumption
<1>0. TypeOK'
  BY TypeStep DEF WriteInv
<1> SUFFICES HoursPassed' /\ \A k \in Host : SoundWrite(k)'
  BY <1>0 DEF WriteInv
<1>1. ASSUME NEW h \in Host, TickBegins(h) PROVE HoursPassed' /\ \A k \in Host : SoundWrite(k)'
  <2>1. \A k \in Host : clock'[k] = IF k = h THEN now + Ahead[h] ELSE clock[k]
    BY <1>1 DEF TickBegins, WriteInv, TypeOK
  <2>2. asking[h] = None /\ UNCHANGED <<now, asking>>
    BY <1>1 DEF TickBegins
  <2>3. HoursPassed'
    BY <2>1, <2>2 DEF WriteInv, HoursPassed, TypeOK
  <2>4. ASSUME NEW k \in Host PROVE SoundWrite(k)'
    <3>1. CASE k = h
      BY <2>2, <3>1 DEF SoundWrite
    <3>2. CASE k # h
      BY <2>1, <2>2, <3>2 DEF SoundWrite, WriteInv
    <3> QED  BY <3>1, <3>2
  <2> QED  BY <2>3, <2>4
<1>2. ASSUME NEW h \in Host, Claim(h) PROVE HoursPassed' /\ \A k \in Host : SoundWrite(k)'
  <2>1. UNCHANGED <<now, clock>>
    BY <1>2 DEF Claim
  <2>2. tracking[h] # None => Reads(h) = tracking[h] /\ tracking[h] \in Record
    BY DEF Reads, WriteInv, TypeOK
  <2>3. CASE Mine(h) /\ RenewalDue(h, Reads(h)) /\ Asks(h, "renew", RenewedRecord(h, Reads(h)))
    <3>1. /\ Reads(h) \in Record /\ Reads(h).holder = h
      BY <2>3, ReadsType DEF Mine, HolderOf, WriteInv
    <3>2. /\ RenewedRecord(h, Reads(h)) \in Record
          /\ RenewedRecord(h, Reads(h)).holder = h
          /\ RenewedRecord(h, Reads(h)).renewed = clock[h]
      BY <3>1, RenewedType DEF WriteInv
    <3>3. tracking[h] # None => tracking[h].renewed <= clock[h]
      BY <2>2, <2>3 DEF RenewalDue, Record, WriteInv, TypeOK
    <3> QED  BY <2>1, <2>2, <2>3, <3>1, <3>2, <3>3, SoundAsk
  <2>4. CASE /\ Asks(h, "take", TakenRecord(h))
             /\ \/ Mine(h) /\ RenewalDue(h, Reads(h))
                \/ ~Mine(h) /\ Expired(h, Reads(h))
    <3>1. TakenRecord(h) \in Record /\ TakenRecord(h).holder = h /\ TakenRecord(h).renewed = clock[h]
      BY TakenType DEF WriteInv
    <3>2. CASE Mine(h) /\ RenewalDue(h, Reads(h))
      <4>1. Reads(h) \in Record /\ Reads(h).holder = h
        BY <3>2, ReadsType DEF Mine, HolderOf, WriteInv
      <4>2. tracking[h] # None => tracking[h].renewed <= clock[h]
        BY <2>2, <3>2 DEF RenewalDue, Record, WriteInv, TypeOK
      <4> QED  BY <2>1, <2>2, <2>4, <3>1, <4>1, <4>2, SoundAsk
    <3>3. CASE ~Mine(h) /\ Expired(h, Reads(h))
      <4>1. tracking[h] # None =>
              /\ tracking[h].holder # h
              /\ tracking[h].holder # Nobody => tracking[h].renewed + Expiry < clock[h]
        BY <2>2, <3>3, NoneIsNoRecord DEF Mine, Expired, HolderOf
      <4> QED  BY <2>1, <2>4, <3>1, <4>1, SoundAsk
    <3> QED  BY <2>4, <3>2, <3>3
  <2>5. CASE AsksNothing
    BY <2>1, <2>5, NothingNew DEF AsksNothing
  <2> QED  BY <1>2, <2>3, <2>4, <2>5 DEF Claim
<1>3. ASSUME NEW h \in Host, NEW state \in State, Asks(h, "mark", MarkedRecord(h, state)), UNCHANGED <<now, clock>>
      PROVE HoursPassed' /\ \A k \in Host : SoundWrite(k)'
  <2>1. tracking[h] # None => Reads(h) = tracking[h] /\ tracking[h] \in Record /\ Reads(h) # None
    BY DEF Reads, WriteInv, TypeOK
  <2>2. /\ MarkedRecord(h, state) \in Record
        /\ MarkedRecord(h, state).holder = HolderOf(Reads(h))
        /\ Reads(h) # None => MarkedRecord(h, state).renewed = Reads(h).renewed
    BY MarkedType DEF WriteInv
  <2>3. tracking[h] # None =>
          /\ MarkedRecord(h, state).holder = tracking[h].holder
          /\ tracking[h].renewed <= MarkedRecord(h, state).renewed
    BY <2>1, <2>2 DEF HolderOf, Record
  <2> QED  BY <1>3, <2>2, <2>3, SoundAsk
<1>4. ASSUME NEW h \in Host, Mark(h) PROVE HoursPassed' /\ \A k \in Host : SoundWrite(k)'
  <2>1. NextState(h, Reads(h)) \in State
    BY <1>4, ReadsType, NextStateType DEF Mark, WriteInv, Record
  <2> QED  BY <1>3, <1>4, <2>1 DEF Mark
<1>5. ASSUME NEW h \in Host, Release(h) PROVE HoursPassed' /\ \A k \in Host : SoundWrite(k)'
  BY <1>5, SoundAsk DEF Release
<1>6. ASSUME NEW h \in Host, MarkExpired(h) PROVE HoursPassed' /\ \A k \in Host : SoundWrite(k)'
  BY <1>3, <1>6 DEF MarkExpired, State
<1>7. ASSUME NEW h \in Host, Reconnect(h) PROVE HoursPassed' /\ \A k \in Host : SoundWrite(k)'
  <2> DEFINE read == IF branch # None THEN branch ELSE local[h]
  <2>1. CASE HolderOf(read) = h /\ RenewalDue(h, read)
    <3>1. read \in Record /\ read.holder = h /\ read.renewed <= clock[h]
      BY <2>1 DEF HolderOf, RenewalDue, Record, WriteInv, TypeOK
    <3>2. /\ RenewedRecord(h, read) \in Record
          /\ RenewedRecord(h, read).holder = h
          /\ RenewedRecord(h, read).renewed = clock[h]
      BY <3>1, RenewedType DEF WriteInv
    <3>3. asking' = [asking EXCEPT ![h] =
            [op |-> "renew", expected |-> branch, before |-> local[h], record |-> RenewedRecord(h, read)]]
      BY <1>7, <2>1 DEF Reconnect
    <3>4. UNCHANGED <<now, clock>>
      BY <1>7 DEF Reconnect
    <3>5. ASSUME NEW k \in Host PROVE SoundWrite(k)'
      <4>1. CASE k = h
        <5>1. /\ asking'[h].record = RenewedRecord(h, read)
              /\ asking'[h].expected = branch
          BY <3>3 DEF WriteInv, TypeOK
        <5> HIDE DEF read
        <5>2. branch # None => read = branch
          BY DEF read
        <5> QED  BY <3>1, <3>2, <4>1, <5>1, <5>2 DEF SoundWrite
      <4>2. CASE k # h
        <5>1. asking'[k] = asking[k]
          BY <3>3, <4>2 DEF WriteInv, TypeOK
        <5> QED  BY <3>4, <5>1 DEF SoundWrite, WriteInv
      <4> QED  BY <4>1, <4>2
    <3> QED  BY <3>4, <3>5 DEF HoursPassed, WriteInv
  <2>2. CASE ~(HolderOf(read) = h /\ RenewalDue(h, read))
    BY <1>7, <2>2, NothingNew DEF Reconnect, AsksNothing
  <2> QED  BY <2>1, <2>2
<1>8. ASSUME NEW h \in Host, PushLands(h) PROVE HoursPassed' /\ \A k \in Host : SoundWrite(k)'
  BY <1>8, NothingAsked DEF PushLands
<1>9. ASSUME NEW h \in Host, PushRejected(h) PROVE HoursPassed' /\ \A k \in Host : SoundWrite(k)'
  BY <1>9, NothingAsked DEF PushRejected, Rejected
<1>10. ASSUME NEW h \in Host, PushUnreachable(h) PROVE HoursPassed' /\ \A k \in Host : SoundWrite(k)'
  BY <1>10, NothingAsked DEF PushUnreachable, Rejected
<1>11. ASSUME NEW h \in Host, PushUnheard(h) PROVE HoursPassed' /\ \A k \in Host : SoundWrite(k)'
  BY <1>11, NothingAsked DEF PushUnheard, Rejected
<1>12. ASSUME NEW h \in Host, CrashAndOpen(h) PROVE HoursPassed' /\ \A k \in Host : SoundWrite(k)'
  BY <1>12, NothingAsked DEF CrashAndOpen
<1>13. ASSUME NEW h \in Host, Goes(h) PROVE HoursPassed' /\ \A k \in Host : SoundWrite(k)'
  BY <1>13, NothingAsked DEF Goes
<1>14. ASSUME NEW h \in Host, Acts(h) \/ TickEnds(h) \/ Disconnect(h)
       PROVE HoursPassed' /\ \A k \in Host : SoundWrite(k)'
  BY <1>14, NothingNew DEF Acts, TickEnds, Disconnect
<1>15. ASSUME TimePasses PROVE HoursPassed' /\ \A k \in Host : SoundWrite(k)'
  BY <1>15 DEF TimePasses, WriteInv, TypeOK, HoursPassed, SoundWrite
<1>16. ASSUME UNCHANGED vars PROVE HoursPassed' /\ \A k \in Host : SoundWrite(k)'
  BY <1>16, NothingNew DEF vars
<1> QED
  BY <1>1, <1>2, <1>4, <1>5, <1>6, <1>7, <1>8, <1>9, <1>10, <1>11, <1>12, <1>13, <1>14, <1>15, <1>16
  DEF Next

LEMMA WritesHold == Spec => []WriteInv
<1>1. Init => WriteInv
  BY LeaseAssumption DEF Init, WriteInv, TypeOK, HoursPassed, SoundWrite
<1>2. WriteInv /\ [Next]_vars => WriteInv'
  BY WriteStep
<1> QED  BY <1>1, <1>2, PTL DEF Spec

\* The branch moves only where a push lands on the record it expects.
LEMMA BranchMoves ==
  ASSUME [Next]_vars, branch' # branch
  PROVE  \E h \in Host : asking[h] # None /\ branch = asking[h].expected /\ branch' = asking[h].record
BY DEF Next, vars, TickBegins, Claim, Acts, Mark, Release, MarkExpired, TickEnds, PushLands,
       PushRejected, PushUnreachable, PushUnheard, Disconnect, Reconnect, CrashAndOpen, Goes, TimePasses

\* Whatever lapses, stops, is lost or is taken over by an answer, and however
\* far the clocks are apart, a push that replaces one holder by another finds
\* the renewal it replaces older than the expiry (GitStore::lease).
THEOREM NeverTakenEarly == Spec => NotTakenEarly
<1>1. WriteInv /\ [Next]_vars =>
        [\A a, b \in Host :
           a # b /\ HolderOf(branch) = a /\ HolderOf(branch') = b
             => branch.renewed + Expiry < now + Ahead[b]]_branch
  <2> SUFFICES ASSUME WriteInv, [Next]_vars, branch' # branch,
                      NEW a \in Host, NEW b \in Host,
                      a # b, HolderOf(branch) = a, HolderOf(branch') = b
               PROVE  branch.renewed + Expiry < now + Ahead[b]
    OBVIOUS
  <2>1. PICK h \in Host : asking[h] # None /\ branch = asking[h].expected /\ branch' = asking[h].record
    BY BranchMoves
  <2>2. branch # None /\ branch' # None /\ branch.holder = a /\ branch'.holder = b /\ a # Nobody
    BY LeaseAssumption DEF HolderOf
  <2>3. branch.renewed + Expiry < clock[h] /\ h = b
    BY <2>1, <2>2 DEF WriteInv, SoundWrite
  <2>4. branch \in Record /\ clock[h] <= now + Ahead[h]
    BY <2>2 DEF WriteInv, TypeOK, HoursPassed
  <2> QED  BY <2>3, <2>4, LeaseAssumption DEF WriteInv, TypeOK, Record
<1> QED  BY <1>1, WritesHold, PTL DEF Spec, NotTakenEarly

\* No write that lands while one host holds the lease puts its renewal back,
\* for every fault (GitStore::lease, Renew and Mark).
THEOREM RenewalsNeverRollBack == Spec => RenewalNeverRolledBack
<1>1. WriteInv /\ [Next]_vars =>
        [\A h \in Host :
           HolderOf(branch) = h /\ HolderOf(branch') = h => branch.renewed <= branch'.renewed]_branch
  <2> SUFFICES ASSUME WriteInv, [Next]_vars, branch' # branch, NEW k \in Host,
                      HolderOf(branch) = k, HolderOf(branch') = k
               PROVE  branch.renewed <= branch'.renewed
    OBVIOUS
  <2>1. PICK h \in Host : asking[h] # None /\ branch = asking[h].expected /\ branch' = asking[h].record
    BY BranchMoves
  <2>2. branch # None /\ branch' # None /\ branch.holder = k /\ branch'.holder = k
    BY LeaseAssumption DEF HolderOf
  <2> QED  BY <2>1, <2>2 DEF WriteInv, SoundWrite
<1> QED  BY <1>1, WritesHold, PTL DEF Spec, RenewalNeverRolledBack

-----------------------------------------------------------------------------
(* Hosts that renew in time *)

\* Nothing lapses, stops or is taken over; the route may fail.  A pass is
\* shorter than the stale window, and the clocks are closer together than the
\* stale window is to the expiry.
RenewInTime ==
  /\ Faults \subseteq {"unreachable", "unheard", "cut"}
  /\ MaxTick <= Stale
  /\ \A a, b \in Host : Stale + Ahead[b] <= Expiry + Ahead[a]

\* Whoever holds the lease on the git host renewed it inside the stale window.
HolderRenewed ==
  branch # None => branch.holder \in Host /\ now + Ahead[branch.holder] <= branch.renewed + Stale

\* What a host knows of the git host may be old, but names the same holder.
KnowsHolder(h) ==
  tracking[h] # None => branch # None /\ tracking[h].holder = branch.holder

\* A host's own branch answers only for a write it is in the middle of, and a
\* first write is a take for itself, in its pass.
OwnBranch(h) ==
  /\ asking[h] = None => (tracking[h] = None => local[h] = None)
  /\ asking[h] # None =>
       /\ asking[h].expected = tracking[h]
       /\ asking[h].record # None
       /\ tracking[h] = None => asking[h].op = "take" /\ asking[h].before = None
       /\ asking[h].op = "take" =>
            doing[h] = "claimed" /\ asking[h].record.holder = h /\ asking[h].record.renewed = clock[h]

\* Where a host is in its pass.
InPass(h) ==
  /\ doing[h] \in {Idle, "begun", "claimed", "acting"}
  /\ doing[h] # Idle => now + Ahead[h] <= clock[h] + MaxTick
  /\ doing[h] = "acting" => branch # None /\ branch.holder = h

HeldInv ==
  /\ WriteInv
  /\ HolderRenewed
  /\ \A h \in Host : KnowsHolder(h) /\ OwnBranch(h) /\ InPass(h)

\* A write that lands keeps the holder there is, and leaves it renewed in time.
LEMMA LandsRenewed ==
  ASSUME RenewInTime, HeldInv, NEW h \in Host, asking[h] # None, branch = asking[h].expected,
         branch' = asking[h].record, UNCHANGED now
  PROVE  HolderRenewed' /\ branch' # None /\ (branch # None => branch'.holder = branch.holder)
<1>1. asking[h].record \in Record /\ asking[h].record # None /\ SoundWrite(h)
  BY AskedType DEF HeldInv, OwnBranch, WriteInv, Asked
<1>2. CASE branch = None
  <2>1. branch'.holder = h /\ branch'.renewed = clock[h] /\ doing[h] = "claimed"
    BY <1>2 DEF HeldInv, OwnBranch
  <2>2. now + Ahead[h] <= clock[h] + MaxTick
    BY <2>1 DEF HeldInv, InPass, Idle
  <2>3. now + Ahead[h] <= clock[h] + Stale
    BY <2>2, LeaseAssumption DEF RenewInTime, HeldInv, WriteInv, TypeOK
  <2> QED  BY <1>1, <1>2, <2>1, <2>3 DEF HolderRenewed
<1>3. CASE branch # None
  <2>1. branch \in Record /\ branch.holder \in Host /\ now + Ahead[branch.holder] <= branch.renewed + Stale
    BY <1>3 DEF HeldInv, HolderRenewed, WriteInv, TypeOK
  <2>2. CASE branch'.holder = branch.holder
    <3>1. branch.renewed <= branch'.renewed
      BY <1>1, <1>3, <2>2 DEF SoundWrite
    <3>2. now + Ahead[branch.holder] <= branch'.renewed + Stale
      BY <1>1, <2>1, <3>1, LeaseAssumption DEF Record, HeldInv, WriteInv, TypeOK
    <3> QED  BY <1>1, <2>1, <2>2, <3>2 DEF HolderRenewed
  <2>3. CASE branch'.holder # branch.holder
    <3>1. branch.renewed + Expiry < clock[h]
      BY <1>1, <1>3, <2>1, <2>3, LeaseAssumption DEF SoundWrite
    <3>2. clock[h] <= now + Ahead[h]
      BY DEF HeldInv, WriteInv, HoursPassed
    <3>3. Stale + Ahead[h] <= Expiry + Ahead[branch.holder]
      BY <2>1 DEF RenewInTime
    <3> QED  BY <2>1, <3>1, <3>2, <3>3, LeaseAssumption DEF Record, HeldInv, WriteInv, TypeOK
  <2> QED  BY <2>2, <2>3
<1> QED  BY <1>2, <1>3

\* Where the branch does not move and time does not pass, a holder stays renewed.
LEMMA StaysRenewed ==
  ASSUME HeldInv, UNCHANGED <<now, branch>>
  PROVE  HolderRenewed'
BY DEF HeldInv, HolderRenewed

\* A host an action does not touch knows what it knew.
LEMMA OthersHold ==
  ASSUME HeldInv, NEW k \in Host,
         tracking'[k] = tracking[k], local'[k] = local[k], asking'[k] = asking[k],
         doing'[k] = doing[k], clock'[k] = clock[k], now' = now,
         branch # None => branch' # None /\ branch'.holder = branch.holder
  PROVE  KnowsHolder(k)' /\ OwnBranch(k)' /\ InPass(k)'
BY DEF HeldInv, KnowsHolder, OwnBranch, InPass

\* A host that reads itself as the holder, with no write under way, holds it.
LEMMA MineHolds ==
  ASSUME HeldInv, NEW h \in Host, asking[h] = None, Mine(h)
  PROVE  branch # None /\ branch.holder = h /\ tracking[h] # None
BY LeaseAssumption DEF HeldInv, KnowsHolder, OwnBranch, Mine, Reads, HolderOf

\* Every step keeps the lease with the host that renews it.
LEMMA HeldStep ==
  ASSUME RenewInTime, HeldInv, [Next]_vars
  PROVE  HeldInv'
<1> USE LeaseAssumption
<1> DEFINE Held(k) == KnowsHolder(k) /\ OwnBranch(k) /\ InPass(k)
<1>0. WriteInv'
  BY WriteStep DEF HeldInv
<1> SUFFICES HolderRenewed' /\ \A k \in Host : Held(k)'
  BY <1>0 DEF HeldInv
<1>t. TypeOK
  BY DEF HeldInv, WriteInv
<1>1. ASSUME NEW h \in Host, TickBegins(h) PROVE HolderRenewed' /\ \A k \in Host : Held(k)'
  <2>1. HolderRenewed'
    BY <1>1, StaysRenewed DEF TickBegins
  <2>2. ASSUME NEW k \in Host, k # h PROVE Held(k)'
    BY <1>1, <1>t, <2>2, OthersHold DEF TickBegins, TypeOK
  <2>3. /\ doing'[h] = "begun" /\ clock'[h] = now + Ahead[h]
        /\ tracking'[h] \in {tracking[h], branch}
        /\ asking[h] = None /\ UNCHANGED <<now, branch, local, asking>>
    BY <1>1, <1>t DEF TickBegins, TypeOK
  <2>4. KnowsHolder(h)'
    BY <2>3 DEF HeldInv, KnowsHolder
  <2>5. OwnBranch(h)'
    BY <2>3 DEF HeldInv, KnowsHolder, OwnBranch
  <2>6. InPass(h)'
    BY <2>3, <1>t DEF InPass, TypeOK, Idle
  <2> QED  BY <2>1, <2>2, <2>4, <2>5, <2>6
<1>2. ASSUME NEW h \in Host, NEW op \in {"take", "renew", "mark"}, NEW record \in Record, Asks(h, op, record),
             UNCHANGED <<now, clock, branch, tracking>>,
             \A k \in Host : k # h => doing'[k] = doing[k],
             doing[h] # Idle, doing'[h] \in {"claimed", doing[h]},
             tracking[h] = None => op = "take",
             op = "take" => doing'[h] = "claimed" /\ record.holder = h /\ record.renewed = clock[h],
             asking[h] = None
      PROVE HolderRenewed' /\ \A k \in Host : Held(k)'
  <2>1. HolderRenewed'
    BY <1>2, StaysRenewed
  <2>2. ASSUME NEW k \in Host, k # h PROVE Held(k)'
    <3>1. asking'[k] = asking[k] /\ local'[k] = local[k]
      BY <1>2, <1>t, <2>2 DEF Asks, TypeOK
    <3> QED  BY <1>2, <2>2, <3>1, OthersHold
  <2>3. asking'[h] = [op |-> op, record |-> record, expected |-> tracking[h], before |-> local[h]]
    BY <1>2, <1>t DEF Asks, TypeOK
  <2>4. asking'[h] # None
    <3>1. asking'[h] \in Asked
      BY <2>3, <1>t DEF Asked, TypeOK
    <3> QED  BY <3>1, NoneIsNotAsked
  <2>5. KnowsHolder(h)'
    BY <1>2 DEF HeldInv, KnowsHolder
  <2>6. OwnBranch(h)'
    <3>1. tracking[h] = None => local[h] = None
      BY <1>2 DEF HeldInv, OwnBranch
    <3>2. record # None
      BY <1>2, NoneIsNoRecord
    <3> QED  BY <1>2, <2>3, <2>4, <3>1, <3>2 DEF OwnBranch
  <2>7. InPass(h)'
    BY <1>2 DEF HeldInv, InPass
  <2> QED  BY <2>1, <2>2, <2>5, <2>6, <2>7
<1>3. ASSUME NEW h \in Host, Claim(h) PROVE HolderRenewed' /\ \A k \in Host : Held(k)'
  <2>1. /\ doing[h] = "begun" /\ asking[h] = None
        /\ UNCHANGED <<now, clock, branch, tracking>>
        /\ doing'[h] = "claimed" /\ \A k \in Host : k # h => doing'[k] = doing[k]
    BY <1>3, <1>t DEF Claim, TypeOK
  <2>2. CASE Mine(h) /\ Asks(h, "renew", RenewedRecord(h, Reads(h)))
    <3>1. RenewedRecord(h, Reads(h)) \in Record
      BY <1>t, <2>2, ReadsType, RenewedType DEF Mine
    <3> QED  BY <1>2, <2>1, <2>2, <3>1, MineHolds DEF Idle
  <2>3. CASE Asks(h, "take", TakenRecord(h))
    BY <1>2, <1>t, <2>1, <2>3, TakenType DEF Idle
  <2>4. CASE AsksNothing
    <3>1. HolderRenewed'
      BY <2>1, StaysRenewed
    <3>2. ASSUME NEW k \in Host, k # h PROVE Held(k)'
      BY <2>1, <2>4, <3>2, OthersHold DEF AsksNothing
    <3>3. Held(h)'
      BY <2>1, <2>4 DEF HeldInv, KnowsHolder, OwnBranch, InPass, AsksNothing, Idle
    <3> QED  BY <3>1, <3>2, <3>3
  <2> QED  BY <1>3, <2>2, <2>3, <2>4 DEF Claim
<1>4. ASSUME NEW h \in Host, Mark(h) PROVE HolderRenewed' /\ \A k \in Host : Held(k)'
  <2>1. Reads(h) \in Record /\ NextState(h, Reads(h)) \in State
    BY <1>4, <1>t, ReadsType, NextStateType DEF Mark, Record
  <2>2. MarkedRecord(h, NextState(h, Reads(h))) \in Record
    BY <1>t, <2>1, MarkedType
  <2>3. tracking[h] # None
    BY <1>4 DEF Mark, Reads, HeldInv, OwnBranch
  <2> QED  BY <1>2, <1>4, <2>2, <2>3 DEF Mark, Idle
<1>5. ASSUME NEW h \in Host, Acts(h) PROVE HolderRenewed' /\ \A k \in Host : Held(k)'
  <2>1. HolderRenewed'
    BY <1>5, StaysRenewed DEF Acts
  <2>2. ASSUME NEW k \in Host, k # h PROVE Held(k)'
    BY <1>5, <1>t, <2>2, OthersHold DEF Acts, TypeOK
  <2>3. branch # None /\ branch.holder = h
    BY <1>5, MineHolds DEF Acts
  <2>4. doing'[h] = "acting" /\ doing[h] = "claimed" /\ UNCHANGED <<now, clock, branch, tracking, local, asking>>
    BY <1>5, <1>t DEF Acts, TypeOK
  <2>5. asking[h] = None
    BY <1>5 DEF Acts
  <2>6. Held(h)'
    BY <2>3, <2>4, <2>5 DEF HeldInv, KnowsHolder, OwnBranch, InPass, Idle
  <2> QED  BY <2>1, <2>2, <2>6
<1>6. ASSUME NEW h \in Host, TickEnds(h) \/ Disconnect(h) PROVE HolderRenewed' /\ \A k \in Host : Held(k)'
  <2>1. /\ UNCHANGED <<now, clock, branch, tracking, local, asking>> /\ asking[h] = None
        /\ doing'[h] = Idle /\ \A k \in Host : k # h => doing'[k] = doing[k]
    BY <1>6, <1>t DEF TickEnds, Disconnect, TypeOK
  <2>2. HolderRenewed'
    BY <2>1, StaysRenewed
  <2>3. ASSUME NEW k \in Host, k # h PROVE Held(k)'
    BY <2>1, <2>3, OthersHold
  <2>4. Held(h)'
    BY <2>1 DEF HeldInv, KnowsHolder, OwnBranch, InPass, Idle
  <2> QED  BY <2>2, <2>3, <2>4
<1>7. ASSUME NEW h \in Host, Reconnect(h) PROVE HolderRenewed' /\ \A k \in Host : Held(k)'
  <2> DEFINE read == IF branch # None THEN branch ELSE local[h]
  <2>1. /\ UNCHANGED <<now, clock, branch, doing>> /\ asking[h] = None /\ doing[h] = Idle
        /\ tracking'[h] = branch /\ \A k \in Host : k # h => tracking'[k] = tracking[k]
    BY <1>7, <1>t DEF Reconnect, TypeOK
  <2>2. HolderRenewed'
    BY <2>1, StaysRenewed
  <2>3. branch = None => local[h] = None
    BY <2>1 DEF HeldInv, KnowsHolder, OwnBranch
  <2>4. CASE HolderOf(read) = h /\ RenewalDue(h, read)
    <3>1. branch # None
      BY <2>3, <2>4 DEF HolderOf
    <3>2. read \in Record
      BY <3>1, <1>t DEF TypeOK
    <3>3. RenewedRecord(h, read) \in Record
      BY <1>t, <3>2, RenewedType
    <3> DEFINE asked == [op |-> "renew", expected |-> branch, before |-> local[h],
                         record |-> RenewedRecord(h, read)]
    <3>4. /\ asking' = [asking EXCEPT ![h] = asked]
          /\ local' = [local EXCEPT ![h] = RenewedRecord(h, read)]
      BY <1>7, <2>4 DEF Reconnect
    <3>5. asked \in Asked
      BY <1>t, <3>3 DEF Asked, TypeOK
    <3>6. asked # None
      BY <3>5, NoneIsNotAsked
    <3>7. ASSUME NEW k \in Host, k # h PROVE Held(k)'
      BY <1>t, <2>1, <3>4, <3>7, OthersHold DEF TypeOK
    <3>8. asking'[h] = asked
      BY <1>t, <3>4 DEF TypeOK
    <3>9. RenewedRecord(h, read) # None
      BY <3>3, NoneIsNoRecord
    <3> HIDE DEF read
    <3>10. OwnBranch(h)'
      BY <2>1, <3>1, <3>6, <3>8, <3>9 DEF OwnBranch
    <3>11. KnowsHolder(h)' /\ InPass(h)'
      BY <2>1 DEF HeldInv, KnowsHolder, InPass
    <3> QED  BY <2>2, <3>7, <3>10, <3>11
  <2>5. CASE ~(HolderOf(read) = h /\ RenewalDue(h, read))
    <3>1. UNCHANGED <<asking, local>>
      BY <1>7, <2>5 DEF Reconnect, AsksNothing
    <3>2. ASSUME NEW k \in Host, k # h PROVE Held(k)'
      BY <2>1, <3>1, <3>2, OthersHold
    <3>3. Held(h)'
      BY <2>1, <2>3, <3>1 DEF HeldInv, KnowsHolder, OwnBranch, InPass
    <3> QED  BY <2>2, <3>2, <3>3
  <2> QED  BY <2>4, <2>5
<1>8. ASSUME NEW h \in Host, asking[h] # None,
             asking' = [asking EXCEPT ![h] = None], UNCHANGED <<now, clock, doing>>,
             \A k \in Host : k # h => tracking'[k] = tracking[k] /\ local'[k] = local[k],
             \/ UNCHANGED branch
             \/ branch = asking[h].expected /\ branch' = asking[h].record,
             tracking'[h] \in {tracking[h], branch'},
             tracking'[h] = None => local'[h] = None
      PROVE HolderRenewed' /\ \A k \in Host : Held(k)'
  <2>1. /\ HolderRenewed'
        /\ branch # None => branch' # None /\ branch'.holder = branch.holder
    <3>1. CASE UNCHANGED branch
      BY <1>8, <3>1, StaysRenewed
    <3>2. CASE branch = asking[h].expected /\ branch' = asking[h].record
      BY <1>8, <3>2, LandsRenewed
    <3> QED  BY <1>8, <3>1, <3>2
  <2>2. ASSUME NEW k \in Host, k # h PROVE Held(k)'
    <3>1. asking'[k] = asking[k]
      BY <1>8, <1>t, <2>2 DEF TypeOK
    <3> QED  BY <1>8, <2>1, <2>2, <3>1, OthersHold
  <2>3. asking'[h] = None
    BY <1>8, <1>t DEF TypeOK
  <2>4. KnowsHolder(h)' /\ OwnBranch(h)' /\ InPass(h)'
    BY <1>8, <2>1, <2>3 DEF HeldInv, KnowsHolder, OwnBranch, InPass
  <2> QED  BY <2>1, <2>2, <2>4
<1>9. ASSUME NEW h \in Host, PushLands(h) PROVE HolderRenewed' /\ \A k \in Host : Held(k)'
  <2>1. asking[h].record # None
    BY <1>9 DEF PushLands, HeldInv, OwnBranch
  <2> QED  BY <1>8, <1>9, <1>t, <2>1 DEF PushLands, TypeOK
<1>10. ASSUME NEW h \in Host, NEW seen, Rejected(h, seen),
              \/ UNCHANGED branch
              \/ branch = asking[h].expected /\ branch' = asking[h].record,
              seen \in {tracking[h], branch'}
       PROVE HolderRenewed' /\ \A k \in Host : Held(k)'
  <2>1. /\ asking[h] # None /\ asking' = [asking EXCEPT ![h] = None] /\ UNCHANGED <<now, clock, doing>>
        /\ \A k \in Host : k # h => tracking'[k] = tracking[k] /\ local'[k] = local[k]
        /\ tracking'[h] = IF asking[h].op = "take" THEN seen ELSE tracking[h]
        /\ local'[h] = LocalAfterRejection(h)
    BY <1>10, <1>t DEF Rejected, TypeOK
  <2>2. tracking'[h] = None => tracking[h] = None
    <3>1. branch # None => branch' # None
      BY <1>10, <2>1, LandsRenewed
    <3> QED  BY <1>10, <2>1, <3>1 DEF HeldInv, KnowsHolder
  <2>3. tracking[h] = None => local'[h] = None
    BY <2>1 DEF HeldInv, OwnBranch, LocalAfterRejection
  <2> QED  BY <1>8, <1>10, <2>1, <2>2, <2>3
<1>11. ASSUME NEW h \in Host, PushRejected(h) \/ PushUnreachable(h) \/ PushUnheard(h)
       PROVE HolderRenewed' /\ \A k \in Host : Held(k)'
  BY <1>10, <1>11 DEF PushRejected, PushUnreachable, PushUnheard
<1>12. ASSUME TimePasses PROVE HolderRenewed' /\ \A k \in Host : Held(k)'
  <2>1. PassesPrompt /\ RenewsPrompt /\ now' = now + 1 /\ now \in Nat
    BY <1>12, <1>t DEF TimePasses, RenewInTime, TypeOK
  <2>2. UNCHANGED <<clock, branch, tracking, local, asking, doing>>
    BY <1>12 DEF TimePasses
  <2>3. HolderRenewed'
    <3>1. ASSUME branch # None PROVE now + 1 + Ahead[branch.holder] <= branch.renewed + Stale
      <4>1. branch \in Record /\ branch.holder \in Host /\ doing[branch.holder] # "gone"
        BY <1>t, <3>1 DEF HeldInv, HolderRenewed, InPass, TypeOK, Idle
      <4>2. now + Ahead[branch.holder] < branch.renewed + Stale
        BY <2>1, <3>1, <4>1 DEF RenewsPrompt, HolderOf
      <4> QED  BY <2>1, <4>1, <4>2 DEF Record
    <3> QED  BY <2>1, <2>2, <3>1 DEF HeldInv, HolderRenewed
  <2>4. ASSUME NEW k \in Host PROVE Held(k)'
    <3>1. doing[k] # Idle => now + 1 + Ahead[k] <= clock[k] + MaxTick
      <4>1. doing[k] # Idle => now + Ahead[k] < clock[k] + MaxTick
        BY <2>1 DEF PassesPrompt, HeldInv, InPass, Idle
      <4> QED  BY <1>t, <2>1, <4>1 DEF TypeOK
    <3> QED  BY <2>1, <2>2, <3>1 DEF HeldInv, KnowsHolder, OwnBranch, InPass
  <2> QED  BY <2>3, <2>4
<1>13. ASSUME NEW h \in Host, Release(h) \/ MarkExpired(h) \/ CrashAndOpen(h) \/ Goes(h) PROVE FALSE
  BY <1>13 DEF Release, MarkExpired, CrashAndOpen, Goes, Happens, RenewInTime, HeldInv, InPass, Idle
<1>14. ASSUME UNCHANGED vars PROVE HolderRenewed' /\ \A k \in Host : Held(k)'
  BY <1>14 DEF vars, HeldInv, HolderRenewed, KnowsHolder, OwnBranch, InPass
<1> QED
  BY <1>1, <1>3, <1>4, <1>5, <1>6, <1>7, <1>9, <1>11, <1>12, <1>13, <1>14 DEF Next

LEMMA HeldHolds == ASSUME RenewInTime PROVE Spec => []HeldInv
<1>1. Init => HeldInv
  <2>1. Init => WriteInv
    BY LeaseAssumption DEF Init, WriteInv, TypeOK, HoursPassed, SoundWrite
  <2> QED  BY <2>1 DEF Init, HeldInv, HolderRenewed, KnowsHolder, OwnBranch, InPass, Idle
<1>2. HeldInv /\ [Next]_vars => HeldInv'
  BY HeldStep
<1> QED  BY <1>1, <1>2, PTL DEF Spec

\* Hosts that renew in time never act on the object at once, however many they
\* are, whatever pushes and fetches fail, and however often the route is cut
\* (commands.rs: nothing writes on an object whose lease another host holds).
THEOREM OneHostActs == ASSUME RenewInTime PROVE Spec => []OneActs
<1>1. HeldInv => OneActs
  BY DEF HeldInv, InPass, OneActs
<1> QED  BY <1>1, HeldHolds, PTL

\* And a host that has fetched reads itself as the holder only where it is
\* (put_orphan: the local branch goes back when the push is rejected).
THEOREM HostsBelieveWhatStands == ASSUME RenewInTime PROVE Spec => BelievesWhatStands
<1>1. HeldInv /\ HeldInv' /\ [Next]_vars =>
        [\A h \in Host :
           doing[h] = Idle /\ doing'[h] = "begun" /\ tracking'[h] = branch
             => (Mine(h)' => HolderOf(branch) = h)]_vars
  <2> SUFFICES ASSUME HeldInv, HeldInv', Next, NEW h \in Host,
                      doing[h] = Idle, doing'[h] = "begun", tracking'[h] = branch, Mine(h)'
               PROVE  HolderOf(branch) = h
    BY DEF vars, Idle
  <2>1. \E k \in Host : TickBegins(k)
    BY DEF Next, HeldInv, WriteInv, TypeOK, Claim, Acts, Mark, Release, MarkExpired, TickEnds, PushLands,
           PushRejected, PushUnreachable, PushUnheard, Rejected, Disconnect, Reconnect, CrashAndOpen, Goes, TimePasses, Idle
  <2>2. TickBegins(h)
    BY <2>1 DEF TickBegins, HeldInv, WriteInv, TypeOK, Idle
  <2>3. branch' = branch /\ asking'[h] = None
    BY <2>2 DEF TickBegins
  <2>4. branch' # None /\ branch'.holder = h
    BY <2>3, LeaseAssumption DEF HeldInv, KnowsHolder, OwnBranch, Mine, Reads, HolderOf
  <2> QED  BY <2>3, <2>4 DEF HolderOf
<1> QED  BY <1>1, HeldHolds, PTL DEF Spec, BelievesWhatStands
=============================================================================
