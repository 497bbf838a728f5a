-------------------------------- MODULE MCPage --------------------------------
(* A bounded instance of Page: the configuration names the calls and what of *)
(* the tools each may name is given here.                                    *)
EXTENDS Page, TLC

CONSTANTS c1, c2

\* A call of the page, and beside it a client's hand on the signal.
PageAndAHand ==
  [c \in Calls |-> IF c = c1 THEN {"all", "hand", "ask", "capture"} \X {"page"} ELSE {<<"hand", "client">>}]

\* A session opened.
Opens == [c \in Calls |-> {<<"open", "page">>}]
=============================================================================
