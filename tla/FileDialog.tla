----------------------------- MODULE FileDialog -----------------------------
(***************************************************************************)
(* The file dialog of the client (FileExplorer in                          *)
(* common/utility/file_explorer/FileExplorer.cpp).  Every click on the     *)
(* picture starts a detached thread that calls open(); the paths chosen    *)
(* are taken by the interface thread.                                      *)
(***************************************************************************)
EXTENDS Naturals

CONSTANT MaxClicks      \* bound: clicks

ASSUME ClicksAssumption == MaxClicks \in Nat

VARIABLES
    clicks,     \* ghost: clicks so far
    starting,   \* threads that have not tested m_IsOpen yet
    showing,    \* threads with a dialog on the screen
    closing,    \* threads whose dialog has returned
    isOpen,     \* m_IsOpen
    paths       \* length of m_Paths

dialogVars == <<clicks, starting, showing, closing, isOpen, paths>>

DialogTypeOK ==
    /\ clicks \in 0 .. MaxClicks
    /\ starting \in Nat /\ showing \in Nat /\ closing \in Nat
    /\ isOpen \in BOOLEAN
    /\ paths \in Nat

DialogInit ==
    /\ clicks = 0
    /\ starting = 0
    /\ showing = 0
    /\ closing = 0
    /\ isOpen = FALSE
    /\ paths = 0

\* The callback of a click on the picture: a thread is started and detached.
ClickLoad ==
    /\ clicks < MaxClicks
    /\ clicks' = clicks + 1
    /\ starting' = starting + 1
    /\ UNCHANGED <<showing, closing, isOpen, paths>>

\* Variant of OpenDialog: the flag is set, but not tested.
OpenDialogAnyway ==
    /\ starting > 0
    /\ starting' = starting - 1
    /\ isOpen' = TRUE
    /\ showing' = showing + 1
    /\ UNCHANGED <<clicks, closing, paths>>

\* Under m_IsOpenMutex: one dialog at a time.
OpenDialog ==
    /\ starting > 0
    /\ starting' = starting - 1
    /\ isOpen' = TRUE
    /\ showing' = IF isOpen THEN showing ELSE showing + 1
    /\ UNCHANGED <<clicks, closing, paths>>

\* Show returns: m_IsOpen is set again, without the mutex.
ChoosePath ==
    /\ showing > 0
    /\ showing' = showing - 1
    /\ closing' = closing + 1
    /\ isOpen' = TRUE
    /\ paths' = paths + 1
    /\ UNCHANGED <<clicks, starting>>

\* The same when the user cancels or a call of the system fails.
CancelDialog ==
    /\ showing > 0
    /\ showing' = showing - 1
    /\ closing' = closing + 1
    /\ UNCHANGED <<clicks, starting, isOpen, paths>>

\* The last line of open(), without the mutex.
CloseDialog ==
    /\ closing > 0
    /\ closing' = closing - 1
    /\ isOpen' = FALSE
    /\ UNCHANGED <<clicks, starting, showing, paths>>

DialogThreads == OpenDialog \/ ChoosePath \/ CancelDialog \/ CloseDialog

-----------------------------------------------------------------------------

\* There is never a second dialog, although the flag is written outside of the
\* mutex under which it is tested, and the flag is set only while there is one:
\* a later click opens a dialog again (FileExplorer.cpp:11-67).
DialogOnce ==
    /\ showing + closing <= 1
    /\ isOpen <=> showing + closing = 1

=============================================================================
