---------------------------- MODULE MCInformers ----------------------------
(***************************************************************************)
(* Instances of InformerCache for TLC: what the calls c1, c2, ... ask for. *)
(***************************************************************************)
EXTENDS InformerCache

CONSTANTS c1, c2, c3, g1, g2

Ask(g, prefer, filtered) ==
    [gvr |-> g, prefer |-> prefer, filtered |-> filtered]

\* Watch ticks of a dashboard, and a list of the explorer.
Ticks == [c \in Callers |-> Ask(g1, c = c1, FALSE)]

\* A dashboard of two resource types, one of them with a field selector.
TwoTypes == [c \in Callers |-> Ask(IF c = c2 THEN g2 ELSE g1, TRUE, c = c2)]

\* Lists of the explorer.
Plain == [c \in Callers |-> Ask(g1, FALSE, FALSE)]
=============================================================================
