------------------------------ MODULE MCStreams ------------------------------
(***************************************************************************)
(* Small instances of what reads from outside for as long as it is wanted: *)
(* the informer cache, packet captures, log streams, the log preview, the  *)
(* embedded terminals.  They share no state: a behaviour is one of a       *)
(* single part, chosen at the start, so that TLC sees the sum of their     *)
(* states and not the product.                                             *)
(***************************************************************************)
EXTENDS MCInformers, Captures, LogStreams, LogPreview, ExecTerminals

CONSTANTS l1, l2, p1, p2, x1, x2

VARIABLE part

streamsVars == <<part, vars, captureVars, logVars, previewVars, termVars>>

StreamsInit ==
    /\ part \in {"informers", "captures", "logs", "preview", "terminals"}
    /\ Init /\ CapturesInit /\ LogStreamsInit /\ LogPreviewInit /\ TermInit
    /\ part # "preview" => ~previewOn /\ cursorPod = NoPod

\* BOUND: while a session is being loaded no other answer to a key of the log
\* viewer is awaited, and one of its streams is still to be started.
OneAnswer == logSession' => asking' = "nothing" /\ \E s \in LogStreams : stream'[s].pc = "none"

StreamsNext ==
    /\ UNCHANGED part
    /\ IF part = "informers" THEN TRUE ELSE UNCHANGED vars
    /\ IF part = "captures"  THEN TRUE ELSE UNCHANGED captureVars
    /\ IF part = "logs"      THEN TRUE ELSE UNCHANGED logVars
    /\ IF part = "preview"   THEN TRUE ELSE UNCHANGED previewVars
    /\ IF part = "terminals" THEN TRUE ELSE UNCHANGED termVars
    /\ \/ part = "informers" /\ Next
       \/ part = "captures"  /\ CapturesNext
       \/ part = "logs"      /\ LogStreamsNext /\ OneAnswer
       \/ part = "preview"   /\ LogPreviewNext
       \/ part = "terminals" /\ TermNext

StreamsSpec == StreamsInit /\ [][StreamsNext]_streamsVars

\* The parts that a behaviour is not of keep their initial values.
StreamsTypeOK ==
    /\ part = "informers" => TypeOK
    /\ part = "captures"  => CapturesTypeOK
    /\ part = "logs"      => LogStreamsTypeOK
    /\ part = "preview"   => LogPreviewTypeOK
    /\ part = "terminals" => TermTypeOK
=============================================================================
