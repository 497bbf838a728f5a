-------------------------------- MODULE Store --------------------------------
(***************************************************************************)
(* What the state store promises whoever is written over it (StateStore    *)
(* and Records of flywheel-atoms traits.rs, as the store of flywheel-atoms *)
(* testing/store.rs behaves): each host works over what it last read, what *)
(* one tick wrote lands in one step or not at all, and lands only over     *)
(* what it was made from.                                                  *)
(*                                                                         *)
(* A file is the sequence of the entries written to it: of a record, its   *)
(* states, so that the length is its seq; of a thread or a run record, its *)
(* entries; of a response or an ask, one.                                  *)
(***************************************************************************)
EXTENDS Naturals, Sequences

CONSTANTS
  Host,     \* hosts; each also names its own run record
  Record,   \* object records
  Log,      \* threads
  Delivery  \* responses and asks, each written once under its own id

File == Record \cup Log \cup Delivery \cup Host

VARIABLES
  stored,  \* what the store holds
  read,    \* what each host last read of it
  drafts   \* what each host wrote over that and has not landed

vars == <<stored, read, drafts>>

Nothing == [f \in File |-> <<>>]
Drafted(h) == {f \in File : drafts[h][f] # <<>>}

\* What a host may add to a file: a state or an entry of its own, what it says
\* in its own run record, and a delivery that is not there.
Entries(h, f) ==
  CASE f \in Record \cup Log -> {<<h>>}
    [] f \in Delivery -> {<<h>>}
    [] f = h -> Seq(Nat) \ {<<>>}

MayAdd(h, f) == f \in Delivery => read[h][f] = <<>> /\ drafts[h][f] = <<>>

\* put, append, put_ask, receive.
Writes(h, f) ==
  /\ f \in Record \cup Log \cup Delivery \cup {h}
  /\ MayAdd(h, f)
  /\ LET more == SubSeq(drafts'[h][f], Len(drafts[h][f]) + 1, Len(drafts'[h][f])) IN
     /\ more \in Entries(h, f)
     /\ drafts' = [drafts EXCEPT ![h][f] = @ \o more]
  /\ UNCHANGED <<stored, read>>

\* begin_tick: what the host goes on from is what the store holds.
Reads(h) ==
  /\ drafts[h] = Nothing
  /\ read' = [read EXCEPT ![h] = stored]
  /\ UNCHANGED <<stored, drafts>>

\* The rest of the store moved on: what was written stands over it as well.
Rebases(h) ==
  /\ \A f \in Drafted(h) : read[h][f] = stored[f]
  /\ read' = [read EXCEPT ![h] = stored]
  /\ UNCHANGED <<stored, drafts>>

\* end_tick: what was written lands, over what it was made from.
Lands(h) ==
  /\ Drafted(h) # {} /\ read[h] = stored
  /\ stored' = [f \in File |-> stored[f] \o drafts[h][f]]
  /\ read' = [read EXCEPT ![h] = stored']
  /\ drafts' = [drafts EXCEPT ![h] = Nothing]

\* A write that lost its race, or could not be sent, is nowhere.
Drops(h) ==
  /\ Drafted(h) # {}
  /\ drafts' = [drafts EXCEPT ![h] = Nothing]
  /\ read' \in {read, [read EXCEPT ![h] = stored]}
  /\ UNCHANGED stored

Init ==
  /\ stored = Nothing
  /\ read = [h \in Host |-> Nothing]
  /\ drafts = [h \in Host |-> Nothing]

Next ==
  \E h \in Host :
    \/ \E f \in File : Writes(h, f)
    \/ Reads(h) \/ Rebases(h) \/ Lands(h) \/ Drops(h)

\* What was written lands or is dropped: a tick ends.
Spec == Init /\ [][Next]_vars /\ \A h \in Host : WF_vars(Lands(h) \/ Drops(h))
=============================================================================
