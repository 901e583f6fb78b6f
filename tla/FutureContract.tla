--------------------------- MODULE FutureContract ---------------------------
(***************************************************************************)
(* What a caller of Registry.Submit may rely on, and all the application   *)
(* knows of the scheduler: the Future it gets is answered at most once,    *)
(* with the result of its request or with one of three sentinels, each of  *)
(* which has a reason it can name.  No lanes, workers or locks.            *)
(***************************************************************************)
EXTENDS Integers

CONSTANTS
    Tasks,       \* the submissions of a behaviour
    Kind,        \* task -> "mutation", "dashboard" or "read"
    Sig,         \* task -> what its Sig holds besides Gen
    Background,  \* the tasks of Priority Low
    Pending,     \* the answer of a Future that has none yet
    MaxGen,      \* BOUND: highest requestGen
    Abandons     \* a context is dropped, or the scheduler closed or stopped

VARIABLES asked, answer, gen, requestGen

vars == <<asked, answer, gen, requestGen>>

\* Gen is part of the identity of every request but a dashboard section.
Twins(t, u) ==
    /\ Sig[t] = Sig[u] /\ Kind[t] = Kind[u] /\ Kind[t] # "mutation"
    /\ Kind[t] = "dashboard" \/ gen[t] = gen[u]

\* Background reads of an older requestGen; 0 is "no requestGen".
Stale(t) ==
    /\ t \in Background /\ Kind[t] # "mutation"
    /\ gen[t] # 0 /\ gen[t] < requestGen

Waiting == {t \in asked : answer[t] = Pending}

Init == /\ asked = {}
        /\ answer = [t \in Tasks |-> Pending]
        /\ gen = [t \in Tasks |-> 0]
        /\ requestGen = 0

Ask(t) == /\ t \notin asked
          /\ asked' = asked \cup {t}
          /\ gen' = [gen EXCEPT ![t] = requestGen]
          /\ UNCHANGED <<answer, requestGen>>

Navigate == /\ requestGen < MaxGen
            /\ requestGen' = requestGen + 1
            /\ UNCHANGED <<asked, answer, gen>>

Give(S, o) == /\ S # {} /\ S \subseteq Waiting
              /\ answer' = [t \in Tasks |-> IF t \in S THEN o ELSE answer[t]]
              /\ UNCHANGED <<asked, gen, requestGen>>

\* The request ran.
Complete(t) == Give({t}, "value") \/ Give({t}, "error")

\* A twin that still waits answers for the tasks of S.
Coalesce(S) == /\ \E u \in Waiting \ S : \A t \in S : Twins(t, u)
               /\ Give(S, "coalesced")

\* A newer requestGen made background reads irrelevant.
Supersede(S) == (\A t \in S : Stale(t)) /\ Give(S, "superseded")

\* The cluster context is gone.
Abandon(S) == Abandons /\ Give(S, "switched")

Next == \/ Navigate
        \/ \E t \in Tasks : Ask(t) \/ Complete(t)
        \/ \E S \in SUBSET Tasks : Coalesce(S) \/ Supersede(S) \/ Abandon(S)

Spec == Init /\ [][Next]_vars
=============================================================================
