------------------------------ MODULE SweptStore -------------------------------
(***************************************************************************)
(* The sweeper thread (TcpServer::SweeperLoop) at work on the store, while *)
(* the sub reactors' commands go on and another thread stops it.           *)
(*                                                                         *)
(* m_sweeperMutex is released only inside wait_for and around the sweeps,  *)
(* so what the loop does between two of them is one step.  The interval is *)
(* not measured: the wait may time out whenever the thread is scheduled.   *)
(***************************************************************************)
EXTENDS KVStore

VARIABLES
    sweeperPc,          \* "waiting" in wait_for, "sweeping", or "exited"
    m_sweeperRunning,
    m_stopRequested

sweeperVars == <<sweeperPc, m_sweeperRunning, m_stopRequested>>

allVars == <<vars, sweeperVars>>

SweptInit ==
    /\ Init
    /\ sweeperPc = "waiting"
    /\ m_sweeperRunning = TRUE
    /\ m_stopRequested = FALSE

\* wait_for times out, and its predicate still says go on.
WaitTimesOut ==
    /\ sweeperPc = "waiting" /\ m_sweeperRunning
    /\ sweeperPc' = "sweeping"
    /\ UNCHANGED <<vars, m_sweeperRunning, m_stopRequested>>

\* wait_for finds its predicate true: notified, timed out or before it waits.
LeaveLoop ==
    /\ sweeperPc = "waiting" /\ ~m_sweeperRunning
    /\ sweeperPc' = "exited"
    /\ UNCHANGED <<vars, m_sweeperRunning, m_stopRequested>>

\* Mutant: one batch per interval.
SweepOnce(hasMoreExpired) == FALSE

\* The condition of the do-while: hasMoreExpired && !m_stopRequested.
SweepAgain(hasMoreExpired) == hasMoreExpired /\ ~m_stopRequested

\* One turn of the do-while.
SweepBatch ==
    /\ sweeperPc = "sweeping"
    /\ Sweep
    /\ sweeperPc' = IF SweepAgain(ret'.hasMoreExpired) THEN "sweeping" ELSE "waiting"
    /\ UNCHANGED <<m_sweeperRunning, m_stopRequested>>

SweeperStep == WaitTimesOut \/ LeaveLoop \/ SweepBatch

\* TcpServer::Stop, by any thread.
RequestStop ==
    /\ ~m_stopRequested
    /\ m_stopRequested' = TRUE
    /\ UNCHANGED <<vars, sweeperPc, m_sweeperRunning>>

\* StopSweeperThread up to its join: at the end of Run, after Stop, a signal
\* or an exception, so with or without m_stopRequested.
StopSweeperThread ==
    /\ m_sweeperRunning
    /\ m_sweeperRunning' = FALSE
    /\ UNCHANGED <<vars, sweeperPc, m_stopRequested>>

StoreStep == (ClientOp \/ Tick) /\ UNCHANGED sweeperVars

SweptNext == SweeperStep \/ RequestStop \/ StopSweeperThread \/ StoreStep

SweptSpec == SweptInit /\ [][SweptNext]_allVars

\* The sweeper's thread keeps being scheduled; nothing else is assumed, not
\* even that time passes.
FairSweptSpec == SweptSpec /\ WF_allVars(SweeperStep)

-----------------------------------------------------------------------------
(***************************************************************************)
(* Properties.                                                             *)
(***************************************************************************)
\* No entry of data has passed its instant.
NoExpiredEntry(data) == \A k \in DOMAIN data : ~IsExpired(data[k], clock)

\* SweeperLoop goes to sleep for an interval only when the store holds no
\* expired entry, however many batches that takes and whatever commands run
\* between them; only a server that stops lets some lie.
SleepsOnlyWhenClean ==
    [][(sweeperPc = "sweeping" /\ sweeperPc' = "waiting") =>
          m_stopRequested \/ NoExpiredEntry(m_data')]_allVars

\* An expired entry does not stay in memory when nobody asks for its key:
\* it is erased, or overwritten, unless the sweeper is told to stop.
ExpiredLeadsToErased ==
    \A k \in Keys :
        (Found(k) /\ IsExpired(m_data[k], clock))
            ~> (~Found(k) \/ ~IsExpired(m_data[k], clock) \/ ~m_sweeperRunning)

\* The join in StopSweeperThread returns, even when it is called in the
\* middle of a sweep and without m_stopRequested: the do-while ends by itself.
StopLeadsToSweeperExit == ~m_sweeperRunning ~> (sweeperPc = "exited")

=============================================================================
