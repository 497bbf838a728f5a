------------------------------- MODULE MCChat -------------------------------
(* Two hosts that loaded one channel.                                        *)
EXTENDS Chat

CONSTANTS h1, h2, m1
=============================================================================
