----------------------------- MODULE MCWebTrans -----------------------------
(* Instances of WebTrans for TLC. *)
EXTENDS WebTrans

CONSTANTS b1

\* The first session has one stream of streams of every sort; an ID of it can
\* come again in the second.
PolledMC == {<<1, "OutgoingUni">>, <<1, "IncomingUni">>, <<1, "IncomingBi">>,
             <<2, "IncomingBi">>}
=============================================================================
