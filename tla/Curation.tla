------------------------------ MODULE Curation ------------------------------
(***************************************************************************)
(* How what is captured becomes work: captures are read into signals, a    *)
(* curation session gives every signal one move, joins become proposed     *)
(* intents, and an open intent's signals become its elaborations' material *)
(* (signals.rs, offers.rs, effects.rs, catalogue.rs; capture.yaml,         *)
(* curation.yaml, intent.yaml).                                            *)
(*                                                                         *)
(* Two stores are written and they are not one write: the blueprints'      *)
(* files, which are pushed as each is written, and the records, which a    *)
(* pass lands in one flush at its end.  Everything here is therefore a     *)
(* HISTORY, the sequence of worlds one pass or one call goes through, and  *)
(* a pass that is stopped keeps the files of some point of its history and *)
(* no record of it; a call of the page, whose puts are pushed one by one,  *)
(* keeps both.                                                             *)
(***************************************************************************)
EXTENDS Integers, Sequences, FiniteSets, FiniteSetsExt, SequencesExt

CONSTANTS
    Captures,     \* keys of source events
    MaxRead,      \* bound: signals one capture may come to hold
    Joined,       \* names a curator's joins give intents
    Opened,       \* names open-intent takes from a capture's words
    Parts,        \* the names the two parts of a split take
    Words,        \* moves that name no intent, as curators and hands make them
    Gatherings,   \* gatherings a curator may deliver: pairs of intents
    MaxRuns,      \* bound: curation sessions
    MaxHands,     \* bound: calls of the operator's hand
    MaxElabs,     \* bound: elaborations of one intent
    MaxFaults     \* bound: passes and calls stopped half way, and passes made
                  \* while the blueprints take no push

ASSUME CurationAssumption ==
    /\ Joined \cap Opened = {} /\ Joined \cap {Parts[1], Parts[2]} = {}
    /\ Opened \cap {Parts[1], Parts[2]} = {} /\ Parts[1] # Parts[2]
    /\ Words \subseteq {"drop", "settled"}
    /\ Gatherings \subseteq (Joined \cup Opened) \X (Joined \cup Opened)
    /\ IsFiniteSet(Captures) /\ IsFiniteSet(Joined) /\ IsFiniteSet(Opened)
    /\ {MaxRead, MaxRuns, MaxHands, MaxElabs, MaxFaults} \subseteq Nat /\ MaxRead > 0

Signals == Captures \X (1..MaxRead)
Intents == Joined \cup Opened \cup {Parts[1], Parts[2]}

Nobody  == "nobody"
Unmoved == [word |-> "none", to |-> Nobody]
\* challenge, answered and route name something that is no intent: one word
\* stands for the three.
MoveTo(word, to) == [word |-> word, to |-> to]
Moves   == {MoveTo(w, Nobody) : w \in {"drop", "settled"}}
               \cup {MoveTo(w, i) : w \in {"join", "attach", "drop"}, i \in Intents}
NoMoves == [s \in Signals |-> Unmoved]

VARIABLES
    files,     \* the blueprints' shared line: captures, signals and moves
    checkout,  \* this host's checkout of it, with what it has not pushed yet
    records,   \* the state store as landed
    hands,     \* calls of the operator's hand so far
    faults     \* passes and calls stopped, and passes in an outage, so far

vars == <<files, checkout, records, hands, faults>>

\* What a capture is by its source: its own excerpt (the page's box, a forward),
\* or material a reader session reads.
Sources == {"own", "captured"}

NoReader  == [at |-> "none", gave |-> 0, parsed |-> TRUE, offers |-> FALSE, offered |-> FALSE]
NoSession == [at |-> "none", gave |-> NoMoves, parsed |-> TRUE, took |-> NoMoves,
              gathers |-> <<>>]
Charged(session) == [session EXCEPT !.at = "running"]

Init ==
    /\ files = [captures |-> {}, signals |-> {}, moves |-> NoMoves] /\ checkout = files
    /\ records = [capture |-> [c \in Captures |-> "none"], reader |-> [c \in Captures |-> NoReader],
                  signals |-> {}, stands |-> NoMoves,
                  life |-> [i \in Intents |-> "none"], cites |-> [i \in Intents |-> {}],
                  answer |-> [i \in Intents |-> "none"], elabs |-> [i \in Intents |-> <<>>],
                  run |-> "idle", runs |-> 0, session |-> NoSession, attention |-> FALSE]
    /\ hands = 0 /\ faults = 0

-----------------------------------------------------------------------------
(* Worlds and histories.                                                   *)

World(up) == [f |-> files, k |-> checkout, r |-> records, up |-> up, ok |-> TRUE]

\* One more write: nothing is written where nothing changes.
Wrote(h, w) == IF w = Last(h) THEN h ELSE Append(h, w)

\* A commit in the checkout, then a push of all it holds. A push that fails
\* leaves the commit for the next push, ends the act, and the run record says so.
Filed(h, kept) ==
    LET w == [Last(h) EXCEPT !.k = kept]
    IN  Wrote(Wrote(h, w), IF w.up THEN [w EXCEPT !.f = kept]
                           ELSE [w EXCEPT !.ok = FALSE, !.r.attention = TRUE])

\* What an act does next is done only while none of its writes has failed.
Then(h, w) == IF Last(h).ok THEN Wrote(h, w) ELSE h

\* The next act starts afresh.
Afresh(h) == [h EXCEPT ![Len(h)].ok = TRUE]

SignalsOf(w, c)  == {s \in w.f.signals : s[1] = c}
Present(w, c)    == SignalsOf(w, c) # {} /\ \E source \in Sources : <<c, source>> \in w.f.captures
NotMoved(w)      == {s \in w.f.signals : w.f.moves[s] = Unmoved}

-----------------------------------------------------------------------------
(* Signals and moves: each is a file first and then a record.              *)

\* write_signal with its record: a file already there is not rewritten.
WriteSignal(h, s) ==
    LET w     == Last(h)
        filed == IF ~w.ok \/ s \in w.f.signals THEN h
                 ELSE Filed(h, [w.k EXCEPT !.signals = @ \cup {s}])
    IN  Then(filed, [Last(filed) EXCEPT !.r.signals = @ \cup {s}])

EnsureSignal(h, c) ==
    IF \E s \in Last(h).r.signals : s[1] = c THEN h ELSE WriteSignal(h, <<c, 1>>)

\* as_signal: the capture's next ordinal neither store holds. An offer that
\* finds no ordinal within the bound goes unmade.
AsSignal(h, c) ==
    LET w    == Last(h)
        free == {n \in 1..MaxRead : <<c, n>> \notin w.f.signals \cup w.r.signals}
        done == IF free = {} THEN h ELSE WriteSignal(h, <<c, Min(free)>>)
    IN  Then(done, [Last(done) EXCEPT !.r.reader[c].offers = FALSE])

\* cite: an intent that is not there yet is left to propose_intents.
Cite(w, i, s) ==
    IF w.r.life[i] = "none" THEN w ELSE [w EXCEPT !.r.cites[i] = @ \cup {s}]

Applied_MoveFirst(h, s, m) ==
    LET w     == Last(h)
        moved == IF s \in w.r.signals THEN [w EXCEPT !.r.stands[s] = m] ELSE w
    IN  Wrote(Wrote(h, moved),
              IF m.word \in {"join", "attach"} THEN Cite(moved, m.to, s) ELSE moved)

\* applied: the move's consequence, then the move on the signal's record.
Applied(h, s, m) ==
    LET w     == Last(h)
        cited == IF m.word \in {"join", "attach"} THEN Cite(w, m.to, s) ELSE w
    IN  Wrote(Wrote(h, cited),
              IF s \in w.r.signals THEN [cited EXCEPT !.r.stands[s] = m] ELSE cited)

WriteMove(h, s, m) ==
    IF ~Last(h).ok \/ Last(h).f.moves[s] = m THEN h
    ELSE Filed(h, [Last(h).k EXCEPT !.moves[s] = m])

ApplyMove(h, s, m) ==
    LET filed == WriteMove(h, s, m) IN IF Last(filed).ok THEN Applied(filed, s, m) ELSE filed

AppliedAll(h, moves) ==
    FoldSet(LAMBDA s, g : Applied(g, s, moves[s]), h, {s \in Signals : moves[s] # Unmoved})

-----------------------------------------------------------------------------
(* What sessions deliver.                                                  *)

\* record_deliveries: of what the curator judged, what the schema takes. A
\* signal not on record or moved by now is refused, and so is an attach to
\* what is no intent.
RecordDeliveries(h) ==
    LET w == Last(h)
        taken(s) == LET m == w.r.session.gave[s]
                    IN  /\ s \in NotMoved(w)
                        /\ m.word = "attach" => w.r.life[m.to] # "none"
    IN  Wrote(h, [w EXCEPT !.r.session.parsed = TRUE,
                           !.r.session.took = [s \in Signals |->
                               IF taken(s) THEN w.r.session.gave[s] ELSE Unmoved]])

\* offers::record for a reader: the delivery is marked parsed, its n-th signal
\* is the capture's n-th, and then the offers are made signals.
RecordRead(h, c) ==
    LET reader  == Last(h).r.reader[c]
        parsed  == Wrote(h, [Last(h) EXCEPT !.r.reader[c].parsed = TRUE])
        written == FoldSet(LAMBDA n, g : WriteSignal(g, <<c, n>>), parsed, 1..reader.gave)
    IN  IF reader.offers THEN AsSignal(written, c) ELSE written

\* record_moves: every move of the files and every one the newest session
\* delivered, written together, a delivered one last; then each is applied.
RecordMoves(h) ==
    LET w     == Last(h)
        took  == w.r.session.took
        kept  == [w.k EXCEPT !.moves = [s \in Signals |->
                     IF took[s] \notin {Unmoved, w.f.moves[s]} THEN took[s] ELSE @[s]]]
        filed == IF \A s \in Signals : took[s] \in {Unmoved, w.f.moves[s]} THEN h
                 ELSE Filed(h, kept)
    IN  IF ~Last(filed).ok THEN filed ELSE AppliedAll(AppliedAll(filed, w.f.moves), took)

\* propose_intents: every join the files hold becomes a proposed intent or
\* grows the intent of that name, whatever became of it.
ProposeIntents(h) ==
    LET w == Last(h)
        joiners(i) == {s \in Signals : w.f.moves[s] = MoveTo("join", i)}
    IN  Wrote(h, [w EXCEPT
            !.r.life = [i \in Intents |->
                IF joiners(i) # {} /\ w.r.life[i] = "none" THEN "proposed" ELSE w.r.life[i]],
            !.r.cites = [i \in Intents |-> w.r.cites[i] \cup joiners(i)]])

Elaboration(cited, covers) == [at |-> "proposed", cites |-> cited, covers |-> covers]

\* gather_elaborations: one on the first intent named, found by what it covers.
Gather(h) ==
    LET w == Last(h)
        g == w.r.session.gathers
    IN  IF g = <<>> THEN h
        ELSE IF \/ \E k \in DOMAIN w.r.elabs[g[1]] : w.r.elabs[g[1]][k].covers = g
                \/ Len(w.r.elabs[g[1]]) = MaxElabs
        THEN h
        ELSE Wrote(h, [w EXCEPT !.r.elabs[g[1]] = Append(@, Elaboration({}, g))])

-----------------------------------------------------------------------------
(* An intent's acts.                                                       *)

\* drop_signals: every signal it cites is moved to a drop naming the intent, its
\* object made where there is none.
DropSignals(h, i) ==
    FoldSet(LAMBDA s, g : ApplyMove(Then(g, [Last(g) EXCEPT !.r.signals = @ \cup {s}]),
                                    s, MoveTo("drop", i)),
            h, Last(h).r.cites[i])

\* split_intent: the cited signals go to the parts in turn; a part that is
\* already an intent takes none.
SplitIntent(h, i) ==
    LET w == Last(h)
        inTurn == SetToSeq(w.r.cites[i])
        share(k) == {inTurn[n] : n \in {m \in DOMAIN inTurn : m % 2 = k % 2}}
        part(v, k) == IF v.r.life[Parts[k]] # "none" THEN v
                      ELSE [v EXCEPT !.r.life[Parts[k]] = "proposed",
                                     !.r.cites[Parts[k]] = share(k)]
    IN  Wrote(h, part(part(w, 1), 2))

Pending_Awaiting(w, i) ==
    w.r.cites[i] \ UNION {w.r.elabs[i][k].cites :
                             k \in {l \in DOMAIN w.r.elabs[i] : w.r.elabs[i][l].at = "proposed"}}

\* pending_material: what the intent cites and no elaboration of it does.
Pending(w, i) ==
    w.r.cites[i] \ UNION {w.r.elabs[i][k].cites : k \in DOMAIN w.r.elabs[i]}

ProposeElaboration_OnlyTheFirst(h, i) ==
    LET w == Last(h)
    IN  IF w.r.elabs[i] # <<>> THEN h
        ELSE Wrote(h, [w EXCEPT !.r.elabs[i] = <<Elaboration(Pending(w, i), <<>>)>>])

\* propose_elaboration: the material joins the proposal awaiting approval, and
\* only an intent with none gets a new one.
ProposeElaboration(h, i) ==
    LET w        == Last(h)
        proposed == {k \in DOMAIN w.r.elabs[i] : w.r.elabs[i][k].at = "proposed"}
    IN  IF proposed # {}
        THEN Wrote(h, [w EXCEPT !.r.elabs[i][Min(proposed)].cites = @ \cup Pending(w, i)])
        ELSE IF Len(w.r.elabs[i]) = MaxElabs THEN h
        ELSE Wrote(h, [w EXCEPT !.r.elabs[i] = Append(@, Elaboration(Pending(w, i), <<>>))])

\* intent.covered_by: another intent's elaboration covering this one.
Covered(w, i) ==
    \E j \in Intents \ {i} : \E k \in DOMAIN w.r.elabs[j] :
        LET e == w.r.elabs[j][k] IN i \in ToSet(e.covers) /\ e.at \in {"proposed", "working"}

-----------------------------------------------------------------------------
(* One pass: what is due is planned from the worlds it starts on, and each *)
(* object's transition is put before its effects are made, captures first, *)
(* the curation next, the intents last.                                    *)

\* A capture's state, and the reader its state reading charges.
Reading(h, c, at) ==
    LET w == [Last(h) EXCEPT !.r.capture[c] = at]
    IN  Wrote(h, [w EXCEPT !.r.reader[c] =
                      IF at = "reading" THEN Charged(NoReader) ELSE NoReader])

CaptureStep(h, planned, c) ==
    LET at     == planned.r.capture[c]
        reader == planned.r.reader[c]
    IN  CASE at \in Sources /\ Present(planned, c) -> Reading(h, c, "read")
          [] at = "own" /\ ~Present(planned, c) -> EnsureSignal(h, c)
          [] at = "captured" /\ ~Present(planned, c) -> Reading(h, c, "reading")
          [] at = "reading" /\ (~reader.parsed \/ reader.offers) -> RecordRead(h, c)
          [] at = "reading" /\ reader.parsed /\ ~reader.offers /\ reader.at = "done" ->
                 Reading(h, c, "read")
          [] at = "reading" /\ reader.parsed /\ ~reader.offers /\ reader.at = "gone" ->
                 Reading(h, c, "captured")
          [] OTHER -> h

\* The state run moves to, written before what its entry does.
RunTo(h, at) == Wrote(h, [Last(h) EXCEPT !.r.run = at])

MovesRecorded_FilesOnly(w) ==
    \A s \in Signals :
        s \in w.r.signals /\ w.f.moves[s] # Unmoved => w.r.stands[s] = w.f.moves[s]

\* moves_recorded and intents_proposed: an effect proven when the pass is
\* planned is left out of it.
MovesRecorded(w) ==
    \A s \in Signals :
        /\ s \in w.r.signals /\ w.f.moves[s] # Unmoved => w.r.stands[s] = w.f.moves[s]
        /\ w.r.session.took[s] # Unmoved => w.f.moves[s] = w.r.session.took[s]

IntentsProposed(w) ==
    \A s \in Signals : \A m \in {w.f.moves[s], w.r.session.took[s]} :
        m.word = "join" => w.r.life[m.to] # "none"

Carried(h, planned) ==
    LET moved    == IF MovesRecorded(planned) THEN h ELSE RecordMoves(h)
        proposed == IF IntentsProposed(planned) THEN moved ELSE ProposeIntents(moved)
    IN  Gather(Afresh(proposed))

\* A settled run's session is not read again, so it is let go of here.
CurationStep(h, planned, due) ==
    LET run     == planned.r.run
        session == planned.r.session
        opened  == [Last(h) EXCEPT !.r.run = "running", !.r.runs = @ + 1,
                                   !.r.session = Charged(NoSession)]
    IN  CASE run = "idle" /\ due /\ planned.r.runs < MaxRuns -> Wrote(h, opened)
          [] run = "running" /\ ~session.parsed -> RecordDeliveries(h)
          [] run = "running" /\ session.parsed /\ session.at = "done" ->
                 Carried(RunTo(h, "applying"), planned)
          [] run = "running" /\ session.parsed /\ session.at = "gone" -> RunTo(h, "failed")
          [] run \in {"applying", "failed"} ->
                 RunTo(Wrote(h, [Last(h) EXCEPT !.r.session = NoSession]), "idle")
          [] OTHER -> h

LifeTo(h, i, life) ==
    Wrote(h, [Last(h) EXCEPT !.r.life[i] = life, !.r.answer[i] = "none"])

IntentStep(h, planned, i) ==
    LET life   == planned.r.life[i]
        answer == planned.r.answer[i]
    IN  CASE life = "proposed" /\ answer = "yes" -> LifeTo(h, i, "open")
          [] life = "proposed" /\ answer = "drop" -> DropSignals(LifeTo(h, i, "dropped"), i)
          [] life = "proposed" /\ answer = "split" -> SplitIntent(LifeTo(h, i, "dropped"), i)
          [] life = "open" /\ Pending(planned, i) # {} /\ ~Covered(planned, i) ->
                 ProposeElaboration(h, i)
          [] OTHER -> h

Pass(due, up) ==
    LET planned  == World(up)
        captured == FoldSet(LAMBDA c, h : CaptureStep(Afresh(h), planned, c), <<planned>>, Captures)
        curated  == CurationStep(Afresh(captured), planned, due)
    IN  FoldSet(LAMBDA i, h : IntentStep(Afresh(h), planned, i), curated, Intents)

\* A history landed whole; a pass stopped at some point of its own; a call
\* stopped at some point of its own.
Lands(h) == files' = Last(h).f /\ checkout' = Last(h).k /\ records' = Last(h).r

PassStops(h) ==
    /\ faults < MaxFaults /\ faults' = faults + 1
    /\ \E k \in DOMAIN h : h[k].k # checkout /\ files' = h[k].f /\ checkout' = h[k].k
    /\ UNCHANGED records

CallStops(h) ==
    /\ faults < MaxFaults /\ faults' = faults + 1
    /\ \E k \in 2..(Len(h) - 1) :
           files' = h[k].f /\ checkout' = h[k].k /\ records' = h[k].r

Calls(h) == (Lands(h) /\ UNCHANGED faults) \/ CallStops(h)

\* A call of the operator's hand.
Hand(h) ==
    /\ hands < MaxHands /\ hands' = hands + 1
    /\ Calls(h)

PassLands(due) == Lands(Pass(due, TRUE)) /\ UNCHANGED <<hands, faults>>

PassCut(due) == PassStops(Pass(due, TRUE)) /\ UNCHANGED hands

\* The blueprints' git host takes no push through one whole pass.
PassInOutage(due) ==
    /\ faults < MaxFaults /\ faults' = faults + 1
    /\ Lands(Pass(due, FALSE))
    /\ UNCHANGED hands

-----------------------------------------------------------------------------
(* Sessions report from processes of their own, one entry at a time.       *)

Reports(r) == records' = r /\ UNCHANGED <<files, checkout, hands, faults>>

ReaderAtWork(c) == records.capture[c] = "reading" /\ records.reader[c].at = "running"

ReaderDelivers(c, n) ==
    /\ ReaderAtWork(c) /\ records.reader[c].gave = 0
    /\ records.reader[c].offered => n < MaxRead
    /\ Reports([records EXCEPT !.reader[c].gave = n, !.reader[c].parsed = FALSE])

\* flywheel offer. Bound: once in a session, and only while what the session
\* gives is within MaxRead.
ReaderOffers(c) ==
    /\ ReaderAtWork(c) /\ ~records.reader[c].offered /\ records.reader[c].gave < MaxRead
    /\ Reports([records EXCEPT !.reader[c].offers = TRUE, !.reader[c].offered = TRUE])

ReaderExits(c, kind) ==
    /\ ReaderAtWork(c)
    /\ kind = "done" => records.reader[c].gave > 0
    /\ Reports([records EXCEPT !.reader[c].at = kind])

CuratorAtWork == records.run = "running" /\ records.session.at = "running"

CuratorDelivers(moves, gathers) ==
    /\ CuratorAtWork /\ records.session.gave = NoMoves /\ records.session.parsed
    /\ Reports([records EXCEPT !.session.gave = moves, !.session.gathers = gathers,
                               !.session.parsed = FALSE])

CuratorExits(kind) ==
    CuratorAtWork /\ Reports([records EXCEPT !.session.at = kind])

\* The operator's curator surface: a move file for each signal named, whatever
\* moved it before, and only then an exit of the session the page named. Nothing
\* asks whether that session is still at work. Bound: a submit that comes after
\* it is one of the operator's hands.
PageCurates(named, m) ==
    LET start == World(TRUE)
        filed == FoldSet(LAMBDA s, h : WriteMove(h, s, m), <<start>>, named)
        all   == Wrote(filed, [Last(filed) EXCEPT !.r.session.at = "done"])
    IN  IF CuratorAtWork THEN Calls(all) /\ UNCHANGED hands
        ELSE records.runs > 0 /\ Hand(all)

-----------------------------------------------------------------------------
(* The operator's hands, and what arrives.                                 *)

Captured(h, c, source) ==
    LET filed == IF <<c, source>> \in Last(h).f.captures THEN h
                 ELSE Filed(h, [Last(h).k EXCEPT !.captures = @ \cup {<<c, source>>}])
    IN  Wrote(filed, [Last(filed) EXCEPT !.r.capture[c] = source])

Arrives(c, source) ==
    records.capture[c] = "none" /\ checkout.captures \cap ({c} \X (Sources \ {source})) = {}

\* The box writes its one signal at once; a forward leaves it to the pass.
CaptureByHand(c, forwarded) ==
    LET kept == Captured(<<World(TRUE)>>, c, "own")
        all  == IF forwarded THEN kept ELSE EnsureSignal(kept, c)
    IN  /\ Arrives(c, "own")
        /\ Calls(all)
        /\ UNCHANGED hands

\* An adapter runs in a pass: stopped, it keeps the file and no record.
Adapts(c) ==
    LET all == Captured(<<World(TRUE)>>, c, "captured")
    IN  /\ Arrives(c, "captured")
        /\ (Lands(all) /\ UNCHANGED faults) \/ PassStops(all)
        /\ UNCHANGED hands

\* What a control on a capture may move: the signals either store holds of it
\* that no file moves.
UnmovedOf(c) ==
    {s \in files.signals \cup records.signals : s[1] = c /\ files.moves[s] = Unmoved}

\* open-intent: a proposed intent, the call recorded and the intent open, and
\* then each signal attached.
OpenIntent(c, i) ==
    LET named == Wrote(<<World(TRUE)>>, [World(TRUE) EXCEPT !.r.life[i] = "proposed"])
        open  == Wrote(named, [Last(named) EXCEPT !.r.life[i] = "open"])
    IN  /\ UnmovedOf(c) # {} /\ records.life[i] = "none"
        /\ Hand(FoldSet(LAMBDA s, h : ApplyMove(h, s, MoveTo("attach", i)), open, UnmovedOf(c)))

MoveByHand(s, m) ==
    /\ s \in UnmovedOf(s[1])
    /\ m.word = "attach" => records.life[m.to] = "open"
    /\ Hand(ApplyMove(<<World(TRUE)>>, s, m))

\* revive: the file's move is cleared, then the record's.
Revive(s) ==
    LET cleared == WriteMove(<<World(TRUE)>>, s, Unmoved)
    IN  /\ files.moves[s] # Unmoved
        /\ Hand(Wrote(cleared, [Last(cleared) EXCEPT !.r.stands[s] = Unmoved]))

Answer(i, answer) ==
    /\ records.life[i] = "proposed" /\ records.answer[i] = "none"
    /\ answer = "split" => i \notin {Parts[1], Parts[2]}
                            /\ \A j \in Intents : records.answer[j] # "split"
                            /\ \A k \in 1..2 : records.life[Parts[k]] = "none"
    /\ Reports([records EXCEPT !.answer[i] = answer])

\* An elaboration is approved and worked to its end. Bound: the last one an
\* intent may hold stays proposed.
Elaborates(i, k, to) ==
    /\ Len(records.elabs[i]) < MaxElabs
    /\ <<records.elabs[i][k].at, to>> \in {<<"proposed", "working">>, <<"working", "done">>}
    /\ to = "working" => records.life[i] = "open"
    /\ Reports([records EXCEPT !.elabs[i][k].at = to])

-----------------------------------------------------------------------------
CuratorMoves ==
    {MoveTo(w, Nobody) : w \in Words} \cup {MoveTo("join", i) : i \in Joined}
        \cup {MoveTo("attach", i) : i \in {j \in Intents : records.life[j] # "none"}}

\* Bound: one delivery gives one move, to any of the signals.
Given(named, m) == [s \in Signals |-> IF s \in named THEN m ELSE Unmoved]

Reader ==
    \E c \in Captures :
        \/ \E n \in 1..MaxRead : ReaderDelivers(c, n)
        \/ ReaderOffers(c)
        \/ \E kind \in {"done", "gone"} : ReaderExits(c, kind)

Curator ==
    \/ \E named \in (SUBSET files.signals) \ {{}}, m \in CuratorMoves :
           \E g \in Gatherings \cup {<<>>} :
               /\ g # <<>> => records.life[g[1]] # "none" \/ m = MoveTo("join", g[1])
               /\ CuratorDelivers(Given(named, m), g)
    \/ \E named \in (SUBSET files.signals) \ {{}}, m \in CuratorMoves : PageCurates(named, m)
    \/ \E kind \in {"done", "gone"} : CuratorExits(kind)

Operator ==
    \/ \E c \in Captures, forwarded \in BOOLEAN : CaptureByHand(c, forwarded)
    \/ \E c \in Captures, i \in Opened : OpenIntent(c, i)
    \/ \E s \in Signals : \E m \in {MoveTo(w, Nobody) : w \in Words}
                                   \cup {MoveTo("attach", i) : i \in Intents} : MoveByHand(s, m)
    \/ \E s \in Signals : Revive(s)
    \/ \E i \in Intents, answer \in {"yes", "drop", "split"} : Answer(i, answer)

\* Whether the threshold, the cadence or the operator makes curation due is told
\* apart only while it is idle.
Due == IF records.run = "idle" THEN BOOLEAN ELSE {TRUE}

Next ==
    \/ \E due \in Due : PassLands(due) \/ PassCut(due) \/ PassInOutage(due)
    \/ Reader \/ Curator \/ Operator
    \/ \E c \in Captures : Adapts(c)
    \/ \E i \in Intents : \E k \in DOMAIN records.elabs[i], to \in {"working", "done"} :
           Elaborates(i, k, to)

\* The loop ticks for as long as the host is up and its cadence comes round, so
\* a pass that would change something lands at last.  This is weak fairness of
\* PassLands, with its ENABLED, which a pass of any history has, written out.
Quiet == Last(Pass(TRUE, TRUE)) = World(TRUE)

Fairness == []<>Quiet \/ []<><<PassLands(TRUE)>>_vars

Spec == Init /\ [][Next]_vars /\ Fairness

-----------------------------------------------------------------------------
(* Properties.                                                             *)

TypeOK ==
    /\ {files, checkout} \subseteq [captures : SUBSET (Captures \X Sources), signals : SUBSET Signals,
                  moves : [Signals -> Moves \cup {Unmoved}]]
    /\ records.capture \in [Captures -> Sources \cup {"none", "reading", "read"}]
    /\ records.signals \subseteq Signals
    /\ records.stands \in [Signals -> Moves \cup {Unmoved}]
    /\ records.life \in [Intents -> {"none", "proposed", "open", "dropped"}]
    /\ records.answer \in [Intents -> {"none", "yes", "drop", "split"}]
    /\ \A i \in Intents : records.answer[i] # "none" => records.life[i] = "proposed"
    /\ records.cites \in [Intents -> SUBSET Signals]
    /\ records.run \in {"idle", "running", "applying", "failed"}
    /\ records.session.took \in [Signals -> Moves \cup {Unmoved}]
    /\ \A i \in Intents : Len(records.elabs[i]) <= MaxElabs
    /\ records.runs <= MaxRuns /\ hands <= MaxHands /\ faults <= MaxFaults

\* The records of signals and of intents are put apart, by passes and calls
\* that may be stopped between them: what marks a signal as gone to an intent
\* has that intent cite it, unless the checkout held commits that were not
\* pushed (signals.rs cite, applied and propose_intents).
CitedWhenMarked ==
    [][checkout.moves = files.moves =>
          \A s \in Signals : LET m == records'.stands[s] IN
              m # records.stands[s] /\ m.word \in {"join", "attach"}
                  => s \in records'.cites[m.to]]_vars

\* "`attach` and `join` put the signal on the intent the move names"
\* (signals.rs:797-798): so long as there is that intent.  Two signals and a stop
\* break it, of which CitedWhenMarked leaves out what the stop left (see there).
CitedWhereMoved ==
    \A s \in Signals : LET m == records.stands[s] IN
        m.word \in {"join", "attach"} /\ records.life[m.to] # "none"
            => s \in records.cites[m.to]

\* Material that joined a proposal, was gathered over, or came back after a stop
\* is never counted twice: no two elaborations of an intent cite one signal
\* (effects.rs propose_elaboration).
NothingCitedTwice ==
    \A i \in Intents : \A k, l \in DOMAIN records.elabs[i] :
        k # l => records.elabs[i][k].cites \cap records.elabs[i][l].cites = {}

\* What a curator delivered is carried out: once its session is done, every move
\* the schema took is made, or the run record says that one failed, through
\* passes stopped before, between and after the writes (curation.yaml applying).
MovesAreCarriedOut ==
    \A s \in Signals :
        (records.run = "running" /\ records.session.at = "done" /\ records.session.took[s] # Unmoved)
            ~> (files.moves[s] # Unmoved \/ records.attention)

\* What an open intent cites reaches an elaboration, or waits only while
\* another intent's elaboration covers it (intent.yaml material).
MaterialReachesAProposal ==
    \A i \in Intents, s \in Signals :
        (records.life[i] = "open" /\ s \in records.cites[i])
            ~> (s \notin Pending(World(TRUE), i) \/ Covered(World(TRUE), i))

\* "The act was not made, so its proof stays absent: it is still owed on the next
\* tick" (host.rs, of an effect that failed): a move delivered and not yet made is
\* made by a later pass.
StillOwed ==
    \A s \in Signals :
        (records.run = "running" /\ records.session.at = "done"
            /\ records.session.took[s] # Unmoved)
                ~> (files.moves[s] # Unmoved)
=============================================================================
