------------------------------ MODULE Teardown ------------------------------
(***************************************************************************)
(* The end of the server process (~ServerApplication and the order of the  *)
(* members of server/src/server_application/ServerApplication.h), with the *)
(* threads that use the database meanwhile.                                *)
(*                                                                         *)
(* The destructor stops the io_context, which does not wait for a handler  *)
(* that runs, and closes the database.  Then the members are destroyed in  *)
(* the reverse of their order: m_DbThread is joined, m_Database destroyed, *)
(* and only then m_NetworkThread joined.                                   *)
(***************************************************************************)
EXTENDS DatabaseService

VARIABLES
    main,       \* how far the interface thread is: see TeardownTypeOK
    network,    \* the network thread: between handlers, in one, or over
    busyAtStop, \* ghost: a handler was running when the io_context stopped
    fault       \* a handler has used the database after its destruction

threadVars == <<main, network, busyAtStop, fault>>
teardownVars == <<serviceVars, threadVars>>

TeardownTypeOK ==
    /\ TypeOK
    /\ main \in {"running", "stopped", "closed", "joined", "destroyed", "ended"}
    /\ network \in {"idle", "handler", "ended"}
    /\ busyAtStop \in BOOLEAN
    /\ fault \in BOOLEAN

TeardownInit ==
    /\ Init
    /\ main = "running"
    /\ network = "idle"
    /\ busyAtStop = FALSE
    /\ fault = FALSE

-----------------------------------------------------------------------------
(* The network thread: m_IOContext.run().                                  *)

HandlerBegins ==
    /\ network = "idle" /\ main = "running"
    /\ network' = "handler"
    /\ UNCHANGED <<serviceVars, main, busyAtStop, fault>>

HandlerEnds ==
    /\ network = "handler"
    /\ network' = IF main = "running" THEN "idle" ELSE "ended"
    /\ UNCHANGED <<serviceVars, main, busyAtStop, fault>>

\* run() returns: the io_context was stopped between two handlers.
RunReturns ==
    /\ network = "idle" /\ main # "running"
    /\ network' = "ended"
    /\ UNCHANGED <<serviceVars, main, busyAtStop, fault>>

Destroyed == main \in {"destroyed", "ended"}

\* What a handler asks of the database: Server.cpp:84-109.
HandlerCalls ==
    /\ network = "handler" /\ ~Destroyed
    /\ RequestUserLogin \/ RequestUserRegister \/ RequestProfilePictureSave
    /\ UNCHANGED threadVars

\* The same when m_Database, its queue and its mutex are gone.
HandlerCallsLate ==
    /\ network = "handler" /\ Destroyed
    /\ fault' = TRUE
    /\ UNCHANGED <<serviceVars, main, network, busyAtStop>>

-----------------------------------------------------------------------------
(* The interface thread.                                                   *)

\* One of the calls of Server::update.
Updates ==
    /\ main = "running"
    /\ TakeResponse \/ RequestMessageSave \/ RequestUserProfilePicture
    /\ UNCHANGED threadVars

\* The window was closed: m_IOContext.stop().
Stops ==
    /\ main = "running"
    /\ main' = "stopped"
    /\ busyAtStop' = (network = "handler")
    /\ UNCHANGED <<serviceVars, network, fault>>

\* Variant of Closes: the destructor forgets the database.
ClosesNot ==
    /\ main = "stopped"
    /\ main' = "closed"
    /\ UNCHANGED <<serviceVars, network, busyAtStop, fault>>

\* m_Database.close()
Closes ==
    /\ main = "stopped"
    /\ CallClose
    /\ main' = "closed"
    /\ UNCHANGED <<network, busyAtStop, fault>>

\* Variant of JoinsDbThread: m_DbThread is declared before m_Database, so that
\* the database is destroyed while its thread may still serve.
JoinsDbThreadNot ==
    /\ main = "closed"
    /\ main' = "joined"
    /\ UNCHANGED <<serviceVars, network, busyAtStop, fault>>

\* ~jthread of m_DbThread, which waits for run() to return.
JoinsDbThread ==
    /\ main = "closed"
    /\ dbThread \in {"stopped", "failed"}
    /\ main' = "joined"
    /\ UNCHANGED <<serviceVars, network, busyAtStop, fault>>

\* ~Database: sqlite3_close, and its queues are gone.
DestroysDatabase ==
    /\ main = "joined"
    /\ main' = "destroyed"
    /\ UNCHANGED <<serviceVars, network, busyAtStop, fault>>

\* ~jthread of m_NetworkThread; then the rest.
JoinsNetworkThread ==
    /\ main = "destroyed"
    /\ network = "ended"
    /\ main' = "ended"
    /\ UNCHANGED <<serviceVars, network, busyAtStop, fault>>

-----------------------------------------------------------------------------

DbStep == RunDatabase /\ UNCHANGED threadVars

\* The process died, or ended, and is started again.
StartsAgain ==
    /\ Restart
    /\ main' = "running"
    /\ network' = "idle"
    /\ busyAtStop' = FALSE
    /\ UNCHANGED fault

NetworkReturns == HandlerEnds \/ RunReturns
MainGoesOn == Closes \/ JoinsDbThread \/ DestroysDatabase \/ JoinsNetworkThread

TeardownNext ==
    /\ ~fault
    /\ \/ DbStep
       \/ HandlerBegins \/ HandlerCalls \/ HandlerCallsLate \/ NetworkReturns
       \/ Updates \/ Stops \/ MainGoesOn
       \/ StartsAgain

TeardownSpec == TeardownInit /\ [][TeardownNext]_teardownVars

\* Every thread goes on; the window need not be closed, nor a handler begin.
FairTeardownSpec ==
    /\ TeardownSpec
    /\ WF_teardownVars(~fault /\ DbStep)
    /\ WF_teardownVars(~fault /\ NetworkReturns)
    /\ WF_teardownVars(~fault /\ MainGoesOn)

-----------------------------------------------------------------------------
(* Properties.                                                             *)

\* When the database is destroyed, its thread is over and has served every
\* login, registration, chat and picture to be saved; only a handler that was
\* running when the io_context was stopped can have one dropped, or use the
\* database afterwards (ServerApplication.cpp:23-28 and the members of
\* ServerApplication.h).
OnlyBusyStopHarms ==
    Destroyed =>
        /\ dbThread \in {"stopped", "failed"}
        /\ fault => busyAtStop
        /\ dbThread = "stopped" /\ OfType(requests, Owing) # <<>> => busyAtStop

\* The process ends once its window is closed: nobody waits for a thread that
\* waits for a request (ServerApplication.cpp:23-28).
TeardownEnds == main = "stopped" ~> (main \in {"ended", "running"} \/ fault)

=============================================================================
