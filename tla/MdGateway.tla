------------------------------ MODULE MdGateway ------------------------------
(***************************************************************************)
(* A process that runs sq::FixMdGateway: sq_logger (apps/logger/main.cpp), *)
(* which has no alpha queue and gives up on an authentication failure, or  *)
(* smartquant_engine, which has a queue and never looks at auth_failed().  *)
(*                                                                         *)
(* Session callbacks (MdSession) and data messages (MdPipeline) take turns *)
(* on the QuickFIX thread; main polls beside it once a second.             *)
(***************************************************************************)
EXTENDS MdSession, MdPipeline

VARIABLES
    app,        \* "logger" or "engine"
    running,    \* g_running
    main_pc,    \* main: "loop" -> "stopping" -> "joining" -> "done"
    fed,        \* history: a snapshot has begun in this session ...
    carried     \* ... ids of the book that an earlier session brought

appVars == <<app, running, main_pc>>
history == <<fed, carried>>
vars    == <<sessionVars, dataVars, appVars, history>>

Init ==
    /\ SessionInit /\ DataInit
    /\ app \in {"logger", "engine"}
    /\ running = TRUE /\ main_pc = "loop"
    /\ fed = FALSE /\ carried = {}

LiveIds(b) == {i \in EntryId : b.entries[i] # NoEntry}

-----------------------------------------------------------------------------
(* QuickFIX thread: gateway.start() to gateway.stop() *)

\* The thread takes up callbacks and messages, also while stop() waits for the logout.
Dispatching == md_pc = "idle" /\ main_pc \in {"loop", "stopping"}

Logon ==
    /\ Dispatching
    /\ onLogon
    /\ fed' = FALSE /\ carried' = LiveIds(book)
    /\ UNCHANGED <<dataVars, appVars>>

SessionEvent ==
    /\ Dispatching
    /\ onLogout \/ fromAdmin \/ BrokerAccepts \/ on_md_reject
    /\ UNCHANGED <<dataVars, appVars, history>>

\* Data only comes while a subscription is served.
Snapshot ==
    /\ Dispatching /\ feed = "on"
    /\ BeginSnapshot
    /\ fed' = TRUE /\ carried' = carried \cap LiveIds(book')
    /\ UNCHANGED <<sessionVars, appVars>>

Incremental ==
    /\ Dispatching /\ feed = "on"
    /\ BeginIncremental
    /\ UNCHANGED <<sessionVars, appVars, history>>

Apply ==
    /\ UpdateBook
    /\ carried' = (carried \ {ev.id}) \cap LiveIds(book')
    /\ UNCHANGED <<sessionVars, appVars, fed>>

\* queue_ is null in the logger.
SkipQueue ==
    /\ md_pc = "push"
    /\ md_pc' = "entries" /\ ev' = NoEvent
    /\ UNCHANGED <<msg_type, book, replay, written, applied, queue, resnapped, overwrote>>

\* The other steps of a message.
HandleEntry ==
    /\ \/ LogSnapshotEntry \/ LogIncrementalEntry \/ EndMessage
       \/ app = "engine" /\ PushEvent
       \/ app = "logger" /\ SkipQueue
    /\ UNCHANGED <<sessionVars, appVars, history>>

Md == Apply \/ HandleEntry

-----------------------------------------------------------------------------
(* Alpha thread of the engine, clock, main *)

Alpha ==
    /\ AlphaPop
    /\ UNCHANGED <<sessionVars, appVars, history>>

Clock ==
    /\ Tick
    /\ UNCHANGED <<dataVars, appVars, history>>

on_signal ==
    /\ running
    /\ running' = FALSE
    /\ UNCHANGED <<sessionVars, dataVars, app, main_pc, history>>

\* Fault: the failure is looked for only while a session is up.
MainGivesUp_WhileUp ==
    /\ app = "logger" /\ main_pc = "loop" /\ session = "up"
    /\ auth_failed
    /\ running' = FALSE /\ main_pc' = "stopping"
    /\ UNCHANGED <<sessionVars, dataVars, app, history>>

\* One round of the logger's loop that finds an authentication failure.
MainGivesUp ==
    /\ app = "logger" /\ main_pc = "loop"
    /\ auth_failed
    /\ running' = FALSE /\ main_pc' = "stopping"
    /\ UNCHANGED <<sessionVars, dataVars, app, history>>

MainLeavesLoop ==
    /\ main_pc = "loop" /\ ~running
    /\ main_pc' = "stopping"
    /\ UNCHANGED <<sessionVars, dataVars, app, running, history>>

\* Fault: stop() waits for the answer to its logout without limit.
MainWaited_NoLimit ==
    /\ main_pc = "stopping" /\ session = "down"
    /\ main_pc' = "joining"
    /\ UNCHANGED <<sessionVars, dataVars, app, running, history>>

\* initiator_->stop() has sent a logout; it waits for the session to end, but not for
\* ever: it may go on with the session still up.
MainWaited ==
    /\ main_pc = "stopping"
    /\ main_pc' = "joining"
    /\ UNCHANGED <<sessionVars, dataVars, app, running, history>>

\* Fault: the process ends without joining the QuickFIX thread.
MainStopped_NoJoin ==
    /\ main_pc = "joining"
    /\ main_pc' = "done"
    /\ UNCHANGED <<sessionVars, dataVars, app, running, history>>

\* stop() joins the thread, which finishes the message in hand and drops the session
\* if it is still up.
MainStopped ==
    /\ main_pc = "joining" /\ md_pc = "idle"
    /\ \/ session = "up" /\ onLogout
       \/ session = "down" /\ UNCHANGED sessionVars
    /\ main_pc' = "done"
    /\ UNCHANGED <<dataVars, app, running, history>>

Main == MainGivesUp \/ MainLeavesLoop \/ MainWaited \/ MainStopped

-----------------------------------------------------------------------------
Next ==
    \/ Logon \/ SessionEvent
    \/ Snapshot \/ Incremental \/ Md
    \/ Alpha \/ Clock
    \/ on_signal \/ Main

Spec == Init /\ [][Next]_vars

\* The QuickFIX thread finishes the message it is in, and main is scheduled; nothing
\* is assumed of the broker, the operator or the alpha thread.
FairSpec == Spec /\ WF_vars(Md) /\ WF_vars(Main)

-----------------------------------------------------------------------------
TypeOK ==
    /\ SessionTypeOK /\ DataTypeOK
    /\ app \in {"logger", "engine"} /\ running \in BOOLEAN
    /\ main_pc \in {"loop", "stopping", "joining", "done"}
    /\ fed \in BOOLEAN /\ carried \subseteq EntryId

\* on_snapshot after a reconnect: once a snapshot has begun in a session, no order
\* of an earlier session is left in the book the alpha thread reads.
NoGhostOrders == fed => carried = {}

\* gateway.stop() against a message in hand: at exit every record that was logged
\* has also reached the book, so the last record of the log is not half handled.
ExitOnWholeEntries == main_pc = "done" => written = applied

\* apps/logger: a failure that a later logon does not clear before main's next round
\* ends the process, whatever the broker does.
AuthFailureStops ==
    (app = "logger" /\ auth_failed) ~> (~auth_failed \/ main_pc = "done")

\* SIGINT ends the process: neither a stream of market data, which goes on while
\* stop() waits, nor a broker that does not answer the logout keeps it alive.
SignalStops == ~running ~> main_pc = "done"
=============================================================================
