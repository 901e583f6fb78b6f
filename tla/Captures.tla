------------------------------ MODULE Captures ------------------------------
(***************************************************************************)
(* Packet captures: the manager (src/internal/k8s/capture.go) and the      *)
(* overlay that starts and stops them and looks after their pcap files     *)
(* (src/internal/app/captures.go, update_overlays_capture.go).             *)
(*                                                                         *)
(* Goroutines: the Update loop; one per command that starts or stops a     *)
(* capture; and two per capture, its watchdog and the one that calls it    *)
(* running after a while.  Packets, the backends' command lines and the    *)
(* texts of errors are left out.                                           *)
(***************************************************************************)
EXTENDS Naturals

CONSTANTS
    MaxCaptures,  \* BOUND: calls of CaptureManager.Start in a behaviour
    MaxStops      \* BOUND: captureStoppedMsg of a capture under way at once

ASSUME CapturesAssumption == MaxCaptures \in Nat /\ MaxStops \in Nat \ {0}

Captures == 1 .. MaxCaptures  \* in the order in which they are asked for
NoCapture == 0                \* captureID, unsavedCaptureID of none

VARIABLES
    starts,      \* capture -> its start command and the message that ends it
    child,       \* capture -> its CaptureEntry, process and flip goroutine
    pcaps,       \* captures whose file exists
    stops,       \* capture -> captureStoppedMsg under way
    overlay,     \* captureOverlay, and whether it is on the screen
    quit,        \* shuttingDown
    saved,       \* history: captures whose path the user took with Y
    removed,     \* history: captures whose file the overlay removed
    overlapped,  \* history: captures started while another start was under way
    displaced    \* history: captures whose overlay went away without Esc or q

captureVars == <<starts, child, pcaps, stops, overlay, quit, saved,
                 removed, overlapped, displaced>>

StartStates == {"none", "flying", "posted", "failed", "done"}
ChildStates == [status : {"none", "Starting", "Running", "Ended"}, live : BOOLEAN,
                cancelled : BOOLEAN, flip : BOOLEAN]
Overlays == [open : BOOLEAN, phase : {"pick", "config", "live", "stopped"},
             capture : Captures \cup {NoCapture}, unsaved : Captures \cup {NoCapture}]

CapturesTypeOK ==
    /\ starts \in [Captures -> StartStates] /\ child \in [Captures -> ChildStates]
    /\ pcaps \subseteq Captures
    /\ stops \in [Captures -> 0 .. MaxStops]
    /\ overlay \in Overlays
    /\ quit \in BOOLEAN
    /\ saved \subseteq Captures /\ removed \subseteq Captures
    /\ overlapped \subseteq Captures /\ displaced \subseteq Captures

CapturesInit ==
    /\ starts = [c \in Captures |-> "none"]
    /\ child = [c \in Captures |-> [status |-> "none", live |-> FALSE,
                                    cancelled |-> FALSE, flip |-> FALSE]]
    /\ stops = [c \in Captures |-> 0]
    /\ overlay = [open |-> FALSE, phase |-> "config", capture |-> NoCapture,
                  unsaved |-> NoCapture]
    /\ pcaps = {} /\ saved = {} /\ removed = {} /\ overlapped = {} /\ displaced = {}
    /\ quit = FALSE

-----------------------------------------------------------------------------
(* The manager and its goroutines.                                         *)

\* The command of startCapture: Start opens the file, starts the backend and
\* appends the entry; when it fails, the file is removed again.
StartCapture(c) ==
    /\ starts[c] = "flying"
    /\ \/ /\ starts' = [starts EXCEPT ![c] = "posted"]
          /\ pcaps' = pcaps \cup {c}
          /\ child' = [child EXCEPT ![c] = [status |-> "Starting", live |-> TRUE,
                                            cancelled |-> FALSE, flip |-> TRUE]]
       \/ /\ starts' = [starts EXCEPT ![c] = "failed"]
          /\ UNCHANGED <<pcaps, child>>
    /\ UNCHANGED <<stops, overlay, quit, saved, removed, overlapped, displaced>>

\* The child ends, by itself or killed, and the watchdog reports it: as Failed
\* or as Stopped, which nothing here tells apart (classifyCaptureExit).
ChildExit(c) ==
    /\ child[c].live
    /\ child' = [child EXCEPT ![c].status = "Ended", ![c].live = FALSE]
    /\ UNCHANGED <<starts, pcaps, stops, overlay, quit, saved, removed, overlapped, displaced>>

\* markCaptureRunning, a while after the start.
Flipped(status) == IF status = "Starting" THEN "Running" ELSE status

MarkRunning(c) ==
    /\ child[c].flip
    /\ child' = [child EXCEPT ![c].status = Flipped(child[c].status), ![c].flip = FALSE]
    /\ UNCHANGED <<starts, pcaps, stops, overlay, quit, saved, removed,
                   overlapped, displaced>>

-----------------------------------------------------------------------------
(* The overlay, on the Update loop.                                        *)

Started(c) == child[c].status # "none"
UnderWay(c) == starts[c] \in {"flying", "posted", "failed"}

\* deleteUnsavedCapture: the file may be gone already.
DeleteUnsaved_never == UNCHANGED <<pcaps, removed>>
DeleteUnsaved ==
    /\ pcaps' = pcaps \ {overlay.unsaved}
    /\ removed' = removed \cup (pcaps \cap {overlay.unsaved})

\* What the overlay forgets when it is opened anew, or loses when something
\* else takes the screen.
Forgotten == IF overlay.unsaved = NoCapture THEN {} ELSE {overlay.unsaved}

Opened(phase, c) == [open |-> TRUE, phase |-> phase, capture |-> c, unsaved |-> NoCapture]

\* executeActionCaptureTraffic, on a Pod or on a Service.
OpenOverlay ==
    /\ ~quit /\ ~overlay.open
    /\ \E phase \in {"pick", "config"} : overlay' = Opened(phase, NoCapture)
    /\ UNCHANGED <<starts, child, pcaps, stops, quit, saved, removed,
                   overlapped, displaced>>

\* openCaptureFromPseudo: a row of the list of captures.
OpenRow(c) ==
    /\ ~quit /\ ~overlay.open /\ Started(c)
    /\ overlay' = Opened(IF child[c].status = "Ended" THEN "stopped" ELSE "live", c)
    /\ UNCHANGED <<starts, child, pcaps, stops, quit, saved, removed,
                   overlapped, displaced>>

\* Enter in the endpoint picker; e in the stopped phase.
ToConfig ==
    /\ ~quit /\ overlay.open /\ overlay.phase \in {"pick", "stopped"}
    /\ overlay' = [overlay EXCEPT !.phase = "config"]
    /\ UNCHANGED <<starts, child, pcaps, stops, quit, saved, removed,
                   overlapped, displaced>>

\* startSelectedBackend: Enter in the config and stopped phases.  Nothing
\* keeps a second Enter from starting a second capture.
StartSelected(c) ==
    /\ ~quit /\ overlay.open /\ overlay.phase \in {"config", "stopped"}
    /\ starts[c] = "none" /\ \A d \in 1 .. c - 1 : starts[d] # "none"
    /\ starts' = [starts EXCEPT ![c] = "flying"]
    /\ overlapped' = LET others == {d \in Captures : UnderWay(d)}
                     IN  IF others = {} THEN overlapped ELSE overlapped \cup others \cup {c}
    /\ UNCHANGED <<child, pcaps, stops, overlay, quit, saved, removed, displaced>>

\* updateCaptureStarted, whether the overlay is still on the screen or not.
HandleStarted(c) ==
    /\ ~quit /\ starts[c] = "posted"
    /\ starts' = [starts EXCEPT ![c] = "done"]
    /\ DeleteUnsaved
    /\ overlay' = [overlay EXCEPT !.phase = "live", !.capture = c, !.unsaved = c]
    /\ displaced' = IF overlay.open THEN displaced ELSE displaced \cup {c}
    /\ UNCHANGED <<child, stops, quit, saved, overlapped>>

\* updateCaptureFailed.
HandleFailed(c) ==
    /\ ~quit /\ starts[c] = "failed"
    /\ starts' = [starts EXCEPT ![c] = "done"]
    /\ overlay' = [overlay EXCEPT !.phase = "config"]
    /\ UNCHANGED <<child, pcaps, stops, quit, saved, removed, overlapped,
                   displaced>>

\* s, and Esc or q in the live phase; "Stop" in the list of captures.  The
\* command of stopCapture cancels the child and posts a message; no handler can
\* tell when between the key and the message it did so.
PressStop(c) ==
    /\ ~quit /\ stops[c] < MaxStops
    /\ \/ overlay.open /\ overlay.phase \in {"live", "stopped"} /\ overlay.capture = c
       \/ ~overlay.open /\ Started(c)
    /\ child' = [child EXCEPT ![c].cancelled = TRUE]
    /\ stops' = [stops EXCEPT ![c] = @ + 1]
    /\ UNCHANGED <<starts, pcaps, overlay, quit, saved, removed, overlapped, displaced>>

\* updateCaptureStopped.
StoppedPhase_any(c) == "stopped"
StoppedPhase(c) == IF overlay.capture = c THEN "stopped" ELSE overlay.phase

HandleStopped(c) ==
    /\ ~quit /\ stops[c] > 0
    /\ stops' = [stops EXCEPT ![c] = @ - 1]
    /\ overlay' = [overlay EXCEPT !.phase = StoppedPhase(c)]
    /\ UNCHANGED <<starts, child, pcaps, quit, saved, removed, overlapped,
                   displaced>>

\* Y in the live and stopped phases: the path goes to the clipboard.
UnsavedAfterY ==
    IF overlay.unsaved = overlay.capture THEN NoCapture ELSE overlay.unsaved

PressY ==
    /\ ~quit /\ overlay.open /\ overlay.phase \in {"live", "stopped"}
    /\ overlay.capture # NoCapture
    /\ overlay' = [overlay EXCEPT !.unsaved = UnsavedAfterY]
    /\ saved' = saved \cup {c \in pcaps : c = overlay.capture /\ starts[c] = "done"}
    /\ UNCHANGED <<starts, child, pcaps, stops, quit, removed, overlapped,
                   displaced>>

\* dismissCaptureOverlay: Esc or q, except where it stops the capture.
Dismiss ==
    /\ ~quit /\ overlay.open
    /\ overlay.phase = "live" => overlay.capture = NoCapture
    /\ DeleteUnsaved
    /\ overlay' = [overlay EXCEPT !.open = FALSE, !.unsaved = NoCapture]
    /\ UNCHANGED <<starts, child, stops, quit, saved, overlapped, displaced>>

\* The overlay goes away without Esc: updateKubesharkLaunched, or a message
\* of another action that opens an overlay of its own.
Displace ==
    /\ ~quit /\ overlay.open
    /\ overlay' = [overlay EXCEPT !.open = FALSE]
    /\ displaced' = displaced \cup Forgotten
    /\ UNCHANGED <<starts, child, pcaps, stops, quit, saved, removed, overlapped>>

\* deleteCaptureFile: "Delete File" in the list of captures.
DeleteFile(c) ==
    /\ ~quit /\ ~overlay.open /\ c \in pcaps
    /\ pcaps' = pcaps \ {c}
    /\ saved' = saved \ {c}
    /\ UNCHANGED <<starts, child, stops, overlay, quit, removed, overlapped,
                   displaced>>

\* beginShutdown: StopAll, and from then on the model is frozen.
Quit ==
    /\ ~quit /\ quit' = TRUE
    /\ child' = [c \in Captures |-> [child[c] EXCEPT !.cancelled = @ \/ Started(c)]]
    /\ UNCHANGED <<starts, pcaps, stops, overlay, saved, removed, overlapped,
                   displaced>>

CapturesNext ==
    \/ \E c \in Captures :
          \/ StartCapture(c) \/ ChildExit(c) \/ MarkRunning(c)
          \/ OpenRow(c) \/ StartSelected(c) \/ HandleStarted(c) \/ HandleFailed(c)
          \/ PressStop(c) \/ HandleStopped(c) \/ DeleteFile(c)
    \/ OpenOverlay \/ ToConfig \/ PressY \/ Dismiss \/ Displace \/ Quit

CapturesSpec == CapturesInit /\ [][CapturesNext]_captureVars

-----------------------------------------------------------------------------
(* Properties.                                                             *)

\* A capture that ended stays ended, and as it ended: the goroutine that calls
\* a capture running some 100 ms after its start may come after the watchdog,
\* a second Stop after the first (capture.go:300-311, 376).
EndedStays ==
    [][\A c \in Captures : child[c].status = "Ended" => child'[c].status = "Ended"]_captureVars

\* The overlay removes no file that is still being written: a capture whose
\* file it removed was told to stop or has ended.  Only one start at a time is
\* promised that: nothing stops the first of two that overlap
\* (update_overlays_capture.go:170-207, update_capture.go:31-47).
RemovedIsStopped ==
    \A c \in removed \ overlapped : child[c].cancelled \/ ~child[c].live

\* The pcap files there are: those whose path the user took, which no restart
\* and no closing of the overlay removes, and the one the overlay answers for;
\* nothing else stays behind, but the file of an overlay that was lost without
\* Esc, or was gone when the capture started.  A path taken through the list
\* before captureStartedMsg is handled does not count: that message makes the
\* capture an unsaved one again (captures.go:66-70, 267-275,
\* update_overlays_capture.go:323-342).
PcapsAreAccountedFor ==
    /\ saved \subseteq pcaps
    /\ \A c \in pcaps \ (saved \cup displaced) : starts[c] = "posted" \/ c = overlay.unsaved
=============================================================================
