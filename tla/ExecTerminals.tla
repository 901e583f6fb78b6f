----------------------------- MODULE ExecTerminals -----------------------------
(***************************************************************************)
(* The embedded terminals (src/internal/app/ptyexec.go): a command starts a*)
(* process in a PTY, its answer puts the terminal into the tab that is in  *)
(* front by then, and each tab keeps its terminal while another is in      *)
(* front.  The screen is refreshed by a chain of ticks, 50 ms apart.       *)
(*                                                                         *)
(* Goroutines: the Update loop, one per command, the reader of each PTY.   *)
(* A superseded tick is forgotten when a newer chain is armed: its handler *)
(* drops it.  What the terminals show is left out.                         *)
(***************************************************************************)
EXTENDS Naturals

CONSTANTS
    MaxPtys,      \* BOUND: terminals started in a behaviour
    TermTabs,     \* tabs
    FirstTermTab  \* the one that is open at the start

ASSUME ExecTerminalsAssumption == MaxPtys \in Nat /\ FirstTermTab \in TermTabs

Ptys == 1 .. MaxPtys
NoPty == 0                  \* a nil *os.File

VARIABLES
    pty,       \* terminal -> its process and its PTY
    term,      \* m.mode and m.execPTY
    termTab,   \* tab -> the TabState it was last saved to
    termOpen,  \* the open tabs
    termFront, \* m.activeTab
    typing,    \* m.filterActive or m.searchActive: keys go to that input
    tick,      \* the terminal whose execPTYTickMsg of the newest generation is due
    ended,     \* shuttingDown
    termSession, \* pendingSession, until the contexts are loaded
    dropped,   \* history: terminals that the program let go of without closing
    still      \* history: the terminal in front came there by the close of a tab

termVars == <<pty, term, termTab, termOpen, termFront, typing, tick, ended, termSession,
              dropped, still>>

TermViews == [mode : {"explorer", "exec"}, pty : Ptys \cup {NoPty}]
NoTerminal == [mode |-> "explorer", pty |-> NoPty]

TermTypeOK ==
    /\ pty \in [Ptys -> [pc : {"none", "starting", "started", "open", "closed"},
                         done : BOOLEAN]]
    /\ term \in TermViews /\ termTab \in [TermTabs -> TermViews]
    /\ termOpen \subseteq TermTabs /\ termFront \in termOpen
    /\ typing \in BOOLEAN /\ tick \in Ptys \cup {NoPty} /\ ended \in BOOLEAN
    /\ termSession \in BOOLEAN /\ dropped \subseteq Ptys /\ still \in BOOLEAN

TermInit ==
    /\ pty = [p \in Ptys |-> [pc |-> "none", done |-> FALSE]]
    /\ term = NoTerminal /\ termTab = [t \in TermTabs |-> NoTerminal]
    /\ termOpen = {FirstTermTab} /\ termFront = FirstTermTab
    /\ typing = FALSE /\ tick = NoPty /\ ended = FALSE
    /\ termSession = FALSE /\ dropped = {} /\ still = FALSE

-----------------------------------------------------------------------------
(* A command and its process.                                              *)

\* startPTYExecCmd, from the explorer.
AskTerminal(p) ==
    /\ ~ended /\ term.mode = "explorer" /\ ~typing /\ pty[p].pc = "none"
    /\ pty' = [pty EXCEPT ![p].pc = "starting"]
    /\ UNCHANGED <<term, termTab, termOpen, termFront, typing, tick, ended, termSession,
                   dropped, still>>

\* pty.StartWithSize, which may fail.
StartPty(p) ==
    /\ pty[p].pc = "starting"
    /\ \E pc \in {"started", "closed"} : pty' = [pty EXCEPT ![p].pc = pc]
    /\ UNCHANGED <<term, termTab, termOpen, termFront, typing, tick, ended, termSession,
                   dropped, still>>

\* The reader of the PTY has seen its end and waited for the process.
ProcessEnds(p) ==
    /\ pty[p].pc = "open" /\ ~pty[p].done
    /\ pty' = [pty EXCEPT ![p].done = TRUE]
    /\ UNCHANGED <<term, termTab, termOpen, termFront, typing, tick, ended, termSession,
                   dropped, still>>

-----------------------------------------------------------------------------
(* Messages.                                                               *)

HeldBy(v) == IF v.pty = NoPty THEN {} ELSE {v.pty}

\* updateExecPTYStart, in whatever tab and mode is in front.
HandleStart(p) ==
    /\ ~ended /\ pty[p].pc = "started"
    /\ pty' = [pty EXCEPT ![p].pc = "open"]
    /\ term' = [mode |-> "exec", pty |-> p] /\ tick' = p
    /\ dropped' = dropped \cup HeldBy(term) /\ still' = FALSE
    /\ UNCHANGED <<termTab, termOpen, termFront, typing, ended, termSession>>

\* updateExecPTYTick re-arms itself while its terminal is on the screen.
TickIsFor(v) == v.mode = "exec" /\ v.pty = tick
HandleTick ==
    /\ ~ended /\ tick # NoPty /\ ~TickIsFor(term)
    /\ tick' = NoPty
    /\ UNCHANGED <<pty, term, termTab, termOpen, termFront, typing, ended, termSession,
                   dropped, still>>

-----------------------------------------------------------------------------
(* Keys and clicks.                                                        *)

Closed(set) == [p \in Ptys |-> [pty[p] EXCEPT !.pc = IF p \in set THEN "closed" ELSE @]]
SavedTerms == [termTab EXCEPT ![termFront] = term]

\* cleanupExecPTY: Ctrl+] twice, or any key when the process has ended.
ExitTerminal ==
    /\ ~ended /\ term.mode = "exec" /\ ~typing
    /\ pty' = Closed(HeldBy(term)) /\ term' = NoTerminal /\ still' = FALSE
    /\ UNCHANGED <<termTab, termOpen, termFront, typing, tick, ended, termSession,
                   dropped>>

\* / and f in the explorer, Enter and Esc.
TypeFilter ==
    /\ ~ended /\ (typing \/ term.mode = "explorer")
    /\ typing' = ~typing
    /\ UNCHANGED <<pty, term, termTab, termOpen, termFront, tick, ended, termSession,
                   dropped, still>>

\* scheduleExecTick, when a switch brings a terminal to the front.
Tick_onStartOnly(v) == tick
Tick(v) == IF v.mode = "exec" /\ v.pty # NoPty THEN v.pty ELSE tick

\* With the explorer's keys, those of the terminal, or a click on the tab bar,
\* which works while a filter is typed as well.
SwitchTerm(t) ==
    /\ ~ended /\ t \in termOpen \ {termFront}
    /\ termTab' = SavedTerms /\ termFront' = t /\ term' = termTab[t]
    /\ tick' = Tick(termTab[t]) /\ typing' = FALSE /\ still' = FALSE
    /\ UNCHANGED <<pty, termOpen, ended, termSession, dropped>>

\* A new tab is cloned without the terminal.
OpenTermTab(t) ==
    /\ ~ended /\ ~typing /\ t \notin termOpen
    /\ termTab' = [SavedTerms EXCEPT ![t] = NoTerminal]
    /\ termOpen' = termOpen \cup {t} /\ termFront' = t /\ term' = NoTerminal
    /\ still' = FALSE
    /\ UNCHANGED <<pty, typing, tick, ended, termSession, dropped>>

\* saveCurrentSession, with most steps of the explorer.
SaveTerms ==
    /\ ~ended /\ term.mode = "explorer"
    /\ termTab' = SavedTerms
    /\ UNCHANGED <<pty, term, termOpen, termFront, typing, tick, ended, termSession,
                   dropped, still>>

\* switchToSession, from the explorer: saved as well, and the session that was
\* chosen is restored once the contexts have been loaded again.
AskTermSession ==
    /\ ~ended /\ ~typing /\ term.mode = "explorer"
    /\ termTab' = SavedTerms /\ termSession' = TRUE
    /\ UNCHANGED <<pty, term, termOpen, termFront, typing, tick, ended, dropped, still>>

\* restoreMultiTabSession, in whatever mode the tab in front is by then: the
\* terminal on the screen stays there, in the front tab of the session, and
\* those of the other tabs are let go of.  A session without tabs, or whose
\* context is missing, leaves them all.
HeldInTabsBehind == UNION {HeldBy(termTab[t]) : t \in termOpen \ {termFront}}
RestoreTermSession ==
    /\ ~ended /\ termSession /\ termSession' = FALSE
    /\ \/ /\ termOpen' \in SUBSET TermTabs /\ termFront' \in termOpen'
          /\ termTab' = [t \in TermTabs |-> NoTerminal]
          /\ typing' \in {typing, FALSE}
          /\ dropped' = dropped \cup HeldInTabsBehind
       \/ UNCHANGED <<termTab, termOpen, termFront, typing, dropped>>
    /\ UNCHANGED <<pty, term, tick, ended, still>>

\* closeTabOrQuit with another tab, from the explorer, or from a filter that
\* was being typed when the terminal came: nothing closes the PTY, and no tick
\* is armed for the tab that comes to the front.
CloseTermTab(t) ==
    /\ ~ended /\ (typing \/ term.mode = "explorer") /\ t \in termOpen \ {termFront}
    /\ termOpen' = termOpen \ {termFront} /\ termFront' = t
    /\ term' = termTab[t] /\ typing' = FALSE
    /\ termTab' = [termTab EXCEPT ![termFront] = NoTerminal]
    /\ dropped' = dropped \cup HeldBy(term) /\ still' = (termTab[t].mode = "exec")
    /\ UNCHANGED <<pty, tick, ended, termSession>>

\* beginShutdown, with closeAllExecPTYs: the terminal in front and those that
\* the tabs were saved with.
ClosedAtEnd_savedOnly == UNION {HeldBy(termTab[t]) : t \in termOpen}
ClosedAtEnd == HeldBy(term) \cup UNION {HeldBy(termTab[t]) : t \in termOpen}
EndTerms ==
    /\ ~ended /\ ended' = TRUE
    /\ pty' = Closed(ClosedAtEnd)
    /\ term' = [term EXCEPT !.pty = NoPty]
    /\ termTab' = [t \in TermTabs |-> [termTab[t] EXCEPT !.pty = NoPty]]
    /\ UNCHANGED <<termOpen, termFront, typing, tick, termSession, dropped, still>>

TermNext ==
    \/ \E p \in Ptys : AskTerminal(p) \/ StartPty(p) \/ ProcessEnds(p) \/ HandleStart(p)
    \/ \E t \in TermTabs : SwitchTerm(t) \/ OpenTermTab(t) \/ CloseTermTab(t)
    \/ HandleTick \/ ExitTerminal \/ TypeFilter \/ SaveTerms \/ AskTermSession
    \/ RestoreTermSession \/ EndTerms

TermSpec == TermInit /\ [][TermNext]_termVars

-----------------------------------------------------------------------------
(* Properties.                                                             *)

ShownTerm(t) == IF t = termFront THEN term ELSE termTab[t]

\* Every terminal that was opened and not closed is in one open tab, where it
\* can be used and the end of the program finds it; no tab shows one that was
\* closed.  Three steps of the program let go of a terminal and are excepted: a
\* start that is answered where another is in front (update_exec_log_msgs.go:48),
\* the close of a tab from a filter, and the switch of the session, which drops
\* those of the tabs behind (update_bookmarks_session.go:243).
TerminalsAreHeld ==
    /\ \A p \in Ptys \ dropped :
         pty[p].pc = "open" => \E t \in termOpen : ShownTerm(t).pty = p
    /\ \A t, u \in termOpen :
         /\ ShownTerm(t).pty # NoPty => pty[ShownTerm(t).pty].pc = "open"
         /\ t # u /\ ShownTerm(t).pty # NoPty => ShownTerm(u).pty # ShownTerm(t).pty

\* The terminal on the screen is refreshed (update_exec_log_msgs.go:23-25),
\* unless the close of a tab brought it there: closeTabOrQuit arms no tick.
ScreenIsRefreshed ==
    ~ended /\ term.mode = "exec" /\ ~still => tick = term.pty

TerminalsStayUsable == TerminalsAreHeld /\ ScreenIsRefreshed
=============================================================================
