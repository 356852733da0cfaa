----------------------------- MODULE LogProcess -----------------------------
(***************************************************************************)
(* LOG: threads put messages into the queue of the current Logger, whose   *)
(* process saves them one after the other until it gets a None.  LOG.begin *)
(* makes a Logger if there is none, LOG.end puts the None and joins the    *)
(* process.  Nothing guards the global that holds the Logger, and a None   *)
(* that is logged as a payload ends the process, too.                      *)
(*                                                                         *)
(* multiprocessing is external: a queue has a buffer without a limit and a *)
(* thread that feeds a pipe of a limited size; at exit the interpreter     *)
(* terminates the daemon processes and then joins those threads.           *)
(***************************************************************************)
EXTENDS Naturals, Sequences

CONSTANTS
    Thread,     \* threads of the program
    Null,       \* None: the sentinel, and a payload
    Text,       \* any other payload
    Idle,       \* a thread that is not in LOG
    Pipe,       \* how many messages fit into the pipe
    MaxLogger,  \* bound on Loggers
    MaxLog,     \* bound on calls of LOG
    MaxFault    \* bound on deaths of a logger process

ASSUME LogAssumption ==
    /\ Pipe \in Nat \ {0} /\ {MaxLogger, MaxLog, MaxFault} \subseteq Nat
    /\ Null # Text

Loggers == 1..MaxLogger

VARIABLES
    LOGGER,   \* the current Logger, 0 for None
    put,      \* by Logger: what was put into its queue
    sent,     \* how many of these have been fed to the pipe
    got,      \* how many of these its process has taken and saved
    proc,     \* the processes
    thread,   \* what the threads do
    exit,     \* the program: "no", "joining" the feeders, "gone"
    used      \* how much of the bounds is used up

logVars == <<LOGGER, put, sent, got, proc, thread, exit, used>>

queue == <<put, sent, got, proc>>

LogInit ==
    /\ LOGGER = 0
    /\ put = [n \in Loggers |-> << >>]
    /\ sent = [n \in Loggers |-> 0] /\ got = sent
    /\ proc = [n \in Loggers |-> "none"]
    /\ thread = [t \in Thread |-> Idle]
    /\ exit = "no"
    /\ used = [begin |-> 0, log |-> 0, fault |-> 0]

At(t, step) == thread[t] # Idle /\ thread[t].at = step
Goes(t, to) == thread' = [thread EXCEPT ![t] = to]

\* The first sentinel of the queue, or its end.
Sentinel(n) == CHOOSE k \in 1..(Len(put[n]) + 1) :
    /\ k <= Len(put[n]) => put[n][k] = Null
    /\ \A j \in 1..(k - 1) : put[n][j] # Null

-----------------------------------------------------------------------------
(* LOG.begin *)

Begin(t) ==
    /\ exit = "no" /\ thread[t] = Idle /\ LOGGER = 0
    /\ used.begin < MaxLogger /\ used' = [used EXCEPT !.begin = @ + 1]
    /\ Goes(t, [at |-> "create"])
    /\ UNCHANGED <<LOGGER, queue, exit>>

\* The process starts, the global is assigned and the start time is logged.
Create(t) ==
    /\ At(t, "create")
    /\ \E n \in Loggers :
         /\ proc[n] = "none" /\ \A k \in 1..(n - 1) : proc[k] # "none"
         /\ proc' = [proc EXCEPT ![n] = "running"]
         /\ LOGGER' = n
    /\ Goes(t, [at |-> "put", msg |-> Text])
    /\ UNCHANGED <<put, sent, got, exit, used>>

-----------------------------------------------------------------------------
(* LOG: without a Logger it raises; messages above its level are left out. *)

LogCheck(t) ==
    /\ exit = "no" /\ thread[t] = Idle /\ LOGGER # 0
    /\ used.log < MaxLog
    /\ \E msg \in {Text, Null} : Goes(t, [at |-> "put", msg |-> msg])
    /\ used' = [used EXCEPT !.log = @ + 1]
    /\ UNCHANGED <<LOGGER, queue, exit>>

\* The global is read again, and may be another Logger or none (which raises).
LogPut(t) ==
    /\ At(t, "put") /\ Goes(t, Idle)
    /\ put' = IF LOGGER = 0 THEN put ELSE [put EXCEPT ![LOGGER] = Append(@, thread[t].msg)]
    /\ UNCHANGED <<LOGGER, sent, got, proc, exit, used>>

-----------------------------------------------------------------------------
(* LOG.end *)

\* The process is joined without a sentinel.
End_Silent(t) ==
    /\ exit = "no" /\ thread[t] = Idle /\ LOGGER # 0
    /\ Goes(t, [at |-> "join", logger |-> LOGGER])
    /\ UNCHANGED <<LOGGER, queue, exit, used>>

End(t) ==
    /\ exit = "no" /\ thread[t] = Idle /\ LOGGER # 0
    /\ put' = [put EXCEPT ![LOGGER] = Append(@, Null)]
    /\ Goes(t, [at |-> "join", logger |-> LOGGER])
    /\ UNCHANGED <<LOGGER, sent, got, proc, exit, used>>

\* shutdown does not join.
Joined_Never(t) == TRUE
Joined(t) == proc[thread[t].logger] \in {"done", "died"}

\* Whatever Logger there is by now is forgotten.
EndJoin(t) ==
    /\ At(t, "join") /\ Joined(t)
    /\ LOGGER' = 0
    /\ Goes(t, Idle)
    /\ UNCHANGED <<queue, exit, used>>

-----------------------------------------------------------------------------
(* The queue and logger_process *)

Feed(n) ==
    /\ exit # "gone" /\ sent[n] < Len(put[n]) /\ sent[n] - got[n] < Pipe
    /\ sent' = [sent EXCEPT ![n] = @ + 1]
    /\ UNCHANGED <<LOGGER, put, got, proc, thread, exit, used>>

\* The process ends after one message.
Take_One(n) ==
    /\ proc[n] = "running" /\ got[n] < sent[n]
    /\ got' = [got EXCEPT ![n] = @ + 1]
    /\ proc' = [proc EXCEPT ![n] = "done"]
    /\ UNCHANGED <<LOGGER, put, sent, thread, exit, used>>

\* The message is saved; what save() answers is ignored.
Take(n) ==
    /\ proc[n] = "running" /\ got[n] < sent[n]
    /\ got' = [got EXCEPT ![n] = @ + 1]
    /\ proc' = IF put[n][got'[n]] = Null THEN [proc EXCEPT ![n] = "done"] ELSE proc
    /\ UNCHANGED <<LOGGER, put, sent, thread, exit, used>>

\* The store cannot be connected to, or the process is killed.
Die(n) ==
    /\ proc[n] = "running" /\ used.fault < MaxFault
    /\ used' = [used EXCEPT !.fault = @ + 1]
    /\ proc' = [proc EXCEPT ![n] = "died"]
    /\ UNCHANGED <<LOGGER, put, sent, got, thread, exit>>

-----------------------------------------------------------------------------
(* The end of the program *)

Exit ==
    /\ exit = "no" /\ \A t \in Thread : thread[t] = Idle
    /\ exit' = "joining"
    /\ proc' = [n \in Loggers |-> IF proc[n] = "running" THEN "died" ELSE proc[n]]
    /\ UNCHANGED <<LOGGER, put, sent, got, thread, used>>

FeedersJoined ==
    /\ exit = "joining" /\ sent = [n \in Loggers |-> Len(put[n])]
    /\ exit' = "gone"
    /\ UNCHANGED <<LOGGER, queue, thread, used>>

Runs(t) == Create(t) \/ LogPut(t) \/ EndJoin(t)

LogNext ==
    \/ \E t \in Thread : Begin(t) \/ LogCheck(t) \/ End(t) \/ Runs(t)
    \/ \E n \in Loggers : Feed(n) \/ Take(n) \/ Die(n)
    \/ Exit \/ FeedersJoined

LogSpec == LogInit /\ [][LogNext]_logVars

\* Threads and processes are scheduled; nobody has to log or to end anything.
LogFairSpec ==
    /\ LogSpec /\ WF_logVars(FeedersJoined)
    /\ \A t \in Thread : WF_logVars(Runs(t))
    /\ \A n \in Loggers : WF_logVars(Feed(n)) /\ WF_logVars(Take(n))

-----------------------------------------------------------------------------
\* When LOG.end returns, its process has taken everything that was put into the
\* queue before the first None (GETTING_STARTED.md, "drains the queue, joins
\* the subprocess"), unless it died.
Drained ==
    [][\A t \in Thread :
         LET n == thread[t].logger
         IN  At(t, "join") /\ thread'[t] = Idle
                => proc[n] = "died" \/ got[n] = Sentinel(n)]_logVars

\* LOG.end returns, whatever happens to the process and whoever else logs,
\* begins or ends.
EndReturns == \A t \in Thread : At(t, "join") ~> ~At(t, "join")

\* The program ends if every Logger was ended: its process did not die, and
\* nothing was put into its queue after the sentinel.  Otherwise the feeder may
\* wait forever for somebody to read the pipe.
Orderly(n) == proc[n] \in {"none", "done"} /\ Sentinel(n) >= Len(put[n])
ExitEnds == (exit = "joining" /\ \A n \in Loggers : Orderly(n)) ~> exit = "gone"
=============================================================================
