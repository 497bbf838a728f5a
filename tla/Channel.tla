------------------------------ MODULE Channel ------------------------------
(***************************************************************************)
(* What a chat sink's channel holds, as the people in it see it, beside    *)
(* the decisions they are to see and the mark that says they did.          *)
(*                                                                         *)
(* The channel's history is a sequence and a message's id its place in it. *)
(* A decision is its number, given in the order the decisions were raised, *)
(* and was raised at some turn's clock: every pass of a turn reads the one *)
(* clock, so a delivery and several decisions may bear the same time.      *)
(***************************************************************************)
EXTENDS Naturals

VARIABLES
  channel,   \* the channel's history
  raised,    \* when each decision raised so far was raised
  standing,  \* the ones that stand as of the last tick
  mark       \* the sink's mark: as of when, and which delivery

Ids == DOMAIN channel
Said == {n \in Ids : channel[n].what = "said"}
Posts == {n \in Ids : channel[n].what = "post"}
Replies(m) == {n \in Ids : channel[n].what = "reply" /\ channel[n].of = m}
KindOf(m) == channel[CHOOSE n \in Said : channel[n].of = m].kind
IsSaid(m) == \E n \in Said : channel[n].of = m

\* Nothing accounted for, and a sink that never delivered.  The clock starts
\* after it.
Never == 0

Shown(d) == \E n \in Posts : d \in channel[n].shows

-----------------------------------------------------------------------------
(* Properties.                                                               *)

\* What one message answers of one decision is acknowledged in the channel at
\* most once, whichever hosts hear it, stop, present in turn or read it again
\* from the history (chat.rs answer, discord.rs waited).
AcknowledgedOnce ==
  \A m, n \in Ids :
    /\ channel[m].what = "reply" /\ channel[n].what = "reply" /\ m # n
    /\ channel[m].number # 0
    => <<channel[m].of, channel[m].number>> # <<channel[n].of, channel[n].number>>

\* The mark never passes over a decision of an earlier turn that no rendering
\* showed: a delivery that failed or was lost is made again (chat.rs deliver).
ShownBeforeTheMark ==
  \A d \in standing : raised[d] < mark.at => Shown(d)

\* What the sink's evidence calls delivered was posted: no decision stands at
\* rest, due no more, that the channel never showed (derived.rs sink.delivered).
DeliveredIsShown == \A d \in standing : raised[d] <= mark.at => Shown(d)
=============================================================================
