----------------------------- MODULE MC_Startup -----------------------------
(* A small instance of Startup. *)
EXTENDS Startup, TLC

CONSTANTS s1, s2, c1

\* Either server may have all it needs; one may have nothing set, the other may have
\* half an account or a switch that cannot be read, which fail its start.
Environments ==
    (s1 :> {[seed |-> "on", account |-> "given"], [seed |-> "off", account |-> "none"]}) @@
    (s2 :> {[seed |-> "on", account |-> "given"], [seed |-> "on", account |-> "unfit"],
            [seed |-> "unreadable", account |-> "given"]})
=============================================================================
