------------------------------- MODULE Lanes -------------------------------
(***************************************************************************)
(* What the scheduler's loops over a lane (src/internal/app/scheduler)     *)
(* compute.  A lane is the sequence of the queued tasks of one priority,   *)
(* head first.  Recursion is by recursive functions, so that LaneProofs    *)
(* can prove facts about these operators.                                  *)
(***************************************************************************)
EXTENDS Integers, Sequences

\* s without the members of K, in order: the "kept" loops over a lane.
Without_keepsTwins(s, K) == s
Without(s, K) ==
    LET kept[i \in 0 .. Len(s)] ==
          IF i = 0 THEN << >>
          ELSE IF s[i] \in K THEN kept[i - 1] ELSE Append(kept[i - 1], s[i])
    IN  kept[Len(s)]

\* Lane s once t took the place of the first of its twins K, or the end:
\* coalesceBySigLocked and enqueueAtLocked together.
Seat(s, K, t) ==
    IF \E i \in 1 .. Len(s) : s[i] \in K
    THEN LET first == CHOOSE i \in 1 .. Len(s) :
                        s[i] \in K /\ \A j \in 1 .. i - 1 : s[j] \notin K
         IN  Without([s EXCEPT ![first] = t], K)
    ELSE Append(s, t)
=============================================================================
