------------------------------ MODULE HqBackend ------------------------------
(***************************************************************************)
(* The HyperQueue server and worker behind `koopmans install`, `koopmans   *)
(* backend hq start | stop | restart` and `koopmans backend uninstall`     *)
(* (koopmans/aiida/setup/hq.py, cli.py, orchestrate.py). A command knows   *)
(* what runs by asking `hq`, one call at a time; servers and workers are   *)
(* detached processes that come up, fail and die on their own.             *)
(*                                                                         *)
(* The hq binary is there: without it every command but `uninstall` ends   *)
(* at once.                                                                *)
(***************************************************************************)
EXTENDS Naturals, FiniteSets

CONSTANTS Command,       \* the terminals that commands are typed in
          Server,        \* server processes
          Worker,        \* worker processes
          NoServer,      \* not a server
          Pools,         \* the CPU pools users ask for
          DefaultPool,   \* KOOPMANS_MAX_PROCS, or the number of cores
          Faults         \* which of "timeout", "deaf", "late", "kill", "hand" happen

ASSUME HqAssumption ==
    /\ NoServer \notin Server
    /\ IsFiniteSet(Worker)
    /\ Pools \subseteq Nat \ {0}
    /\ DefaultPool \in Nat \ {0}
    /\ Faults \subseteq {"timeout", "deaf", "late", "kill", "hand"}

VARIABLES
    server,      \* what each server process is doing
    directory,   \* the server whose record is in hq-server-dir
    pidfile,     \* the server hq.server.pid names
    worker,      \* each worker process: what it does, its server, its CPU pool
    hand,        \* the workers somebody arranged by hand
    missed,      \* the servers that run and that the last call did not reach
    pc,          \* where each command is
    verb,        \* which command it is
    opt,         \* its --max-procs; 0 if not given
    pool,        \* its `cpus` argument; 0 for None
    had,         \* the pool a bare restart began with; 0 if there is none to keep
    said         \* how it ended

processes == <<server, directory, pidfile, worker, hand, missed>>
call == <<verb, opt, had>>
hqVars == <<processes, pc, call, pool, said>>

Verb == {"install", "start", "stop", "restart", "uninstall"}
NoWorker == [phase |-> "off", host |-> NoServer, cpus |-> 0]

HqInit ==
    /\ server = [s \in Server |-> "off"]
    /\ directory = NoServer
    /\ pidfile = NoServer
    /\ worker = [w \in Worker |-> NoWorker]
    /\ hand = {}
    /\ missed = {}
    /\ pc = [c \in Command |-> "idle"]
    /\ verb = [c \in Command |-> "install"]
    /\ opt = [c \in Command |-> 0]
    /\ pool = [c \in Command |-> 0]
    /\ had = [c \in Command |-> 0]
    /\ said = [c \in Command |-> "none"]

------------------------------------------------------------------------------
(* What hq answers *)

\* `hq server info` succeeds if the server in the directory is up.
Answering == directory # NoServer /\ server[directory] = "up"

Alive == {w \in Worker : worker[w].phase \in {"up", "stopping"}}

\* `hq worker list` shows the workers of that server.
Listed == {w \in Alive : Answering /\ worker[w].host = directory}

\* The workers that nobody has told to stop.
Steady == {w \in Listed : worker[w].phase = "up"}

\* A call that times out or fails counts as "not running" and as "no worker".
Unanswered == "timeout" \in Faults
ServerSeen == {Answering} \cup (IF Unanswered THEN {FALSE} ELSE {})
WorkersSeen == {Listed} \cup (IF Unanswered THEN {{}} ELSE {})

\* Whether the server that runs was reached by a call that asked for it.
Asked(seen) ==
    missed' = IF seen THEN missed \ {directory}
              ELSE missed \cup {s \in Server : s = directory /\ Answering}

------------------------------------------------------------------------------
(* The commands *)

Goto(c, label) ==
    /\ pc' = [pc EXCEPT ![c] = label]
    /\ UNCHANGED said

Finish(c, answer) ==
    /\ pc' = [pc EXCEPT ![c] = "idle"]
    /\ said' = [said EXCEPT ![c] = answer]

\* A command is typed, with --max-procs where it takes one.
Begin(c) ==
    /\ pc[c] = "idle"
    /\ \E v \in Verb, p \in Pools \cup {0} :
          /\ v \in {"stop", "uninstall"} => p = 0
          /\ verb' = [verb EXCEPT ![c] = v]
          /\ opt' = [opt EXCEPT ![c] = p]
          /\ pool' = [pool EXCEPT ![c] = p]
          /\ had' = [had EXCEPT ![c] =
                        IF v = "restart" /\ p = 0 /\ Cardinality(Steady) = 1 /\ Steady = Listed
                        THEN worker[CHOOSE w \in Steady : TRUE].cpus ELSE 0]
          /\ pc' = [pc EXCEPT ![c] = CASE v \in {"start", "stop"} -> "find"
                                       [] v = "restart" -> "require"
                                       [] v = "install" -> "server"
                                       [] v = "uninstall" -> "isup"]
    /\ said' = [said EXCEPT ![c] = "none"]
    /\ UNCHANGED processes

\* hq_start and hq_stop look for a worker first.
Find(c) ==
    /\ pc[c] = "find"
    /\ \E seen \in WorkersSeen :
          \/ verb[c] = "start" /\ seen # {} /\ Finish(c, "running")
          \/ verb[c] = "start" /\ seen = {} /\ Goto(c, "server")
          \/ verb[c] = "stop" /\ seen = {} /\ Finish(c, "stopped")
          \/ verb[c] = "stop" /\ seen # {} /\ Goto(c, "require")
    /\ UNCHANGED <<processes, call, pool>>

\* _require_one_worker, for stop and restart.
RequireOneWorker(c) ==
    /\ pc[c] = "require"
    /\ \E seen \in WorkersSeen :
          \/ Cardinality(seen) > 1 /\ Finish(c, "refused")
          \/ Cardinality(seen) =< 1
             /\ Goto(c, IF verb[c] = "stop" THEN "asked" ELSE "size")
    /\ UNCHANGED <<processes, call, pool>>

\* Mutant: the pool is not kept.
SizeDefault(c) ==
    /\ pc[c] = "size"
    /\ Goto(c, "asked")
    /\ UNCHANGED <<processes, call, pool>>

\* restart_hq_worker: without --max-procs it keeps the pool of the one worker.
Size(c) ==
    /\ pc[c] = "size"
    /\ \E seen \in WorkersSeen :
          pool' = IF opt[c] = 0 /\ Cardinality(seen) = 1
                  THEN [pool EXCEPT ![c] = worker[CHOOSE w \in seen : TRUE].cpus]
                  ELSE pool
    /\ Goto(c, "asked")
    /\ UNCHANGED <<processes, call>>

\* stop_hq_worker returns: a restart that could not stop the worker fails, an
\* uninstall goes on.
StopEnds(c, stopped) ==
    \/ verb[c] = "stop" /\ Finish(c, IF stopped THEN "stopped" ELSE "failed")
    \/ verb[c] = "restart" /\ stopped /\ Goto(c, "server")
    \/ verb[c] = "restart" /\ ~stopped /\ Finish(c, "failed")
    \/ verb[c] = "uninstall" /\ Goto(c, "serverstop")

\* stop_hq_worker: nothing to stop, or ...
AskWorkers(c) ==
    /\ pc[c] = "asked"
    /\ \E seen \in WorkersSeen :
          \/ seen = {} /\ StopEnds(c, TRUE)
          \/ seen # {} /\ Goto(c, "stopall")
    /\ UNCHANGED <<processes, call, pool>>

\* ... `hq worker stop all`, which may time out, and ...
StopAll(c) ==
    /\ pc[c] = "stopall"
    /\ \E told \in WorkersSeen :
          worker' = [w \in Worker |-> IF w \in told
                                      THEN [worker[w] EXCEPT !.phase = "stopping"]
                                      ELSE worker[w]]
    /\ Goto(c, "awaitstop")
    /\ UNCHANGED <<server, directory, pidfile, hand, missed, call, pool>>

\* ... up to twenty looks whether they are gone, and a last one that decides.
AwaitStopped(c) ==
    /\ pc[c] = "awaitstop"
    /\ \E seen \in WorkersSeen : StopEnds(c, seen = {})
    /\ UNCHANGED <<processes, call, pool>>

\* Mutant: the directory is cleared before asking.
FindServerLast(c) ==
    /\ pc[c] = "server"
    /\ Goto(c, "renew")
    /\ UNCHANGED <<processes, call, pool>>

\* start_hq_server: a server that answers is left alone, ...
FindServer(c) ==
    /\ pc[c] = "server"
    /\ \E seen \in ServerSeen : Asked(seen) /\ Goto(c, IF seen THEN "worker" ELSE "renew")
    /\ UNCHANGED <<server, directory, pidfile, worker, hand, call, pool>>

\* ... otherwise "stale state from a prior crashed server" is removed, and ...
RenewDirectory(c) ==
    /\ pc[c] = "renew"
    /\ directory' = NoServer
    /\ Goto(c, "spawnserver")
    /\ UNCHANGED <<server, pidfile, worker, hand, missed, call, pool>>

\* ... a server is started, with its pid on file.
SpawnServer(c) ==
    /\ pc[c] = "spawnserver"
    /\ \E s \in Server :
          /\ server[s] = "off"
          /\ server' = [server EXCEPT ![s] = "starting"]
          /\ pidfile' = s
    /\ Goto(c, "awaitserver")
    /\ UNCHANGED <<directory, worker, hand, missed, call, pool>>

\* Sixty looks, each half a second after the other: enough for a server to come
\* up or fail, unless it is late.
AwaitServer(c) ==
    /\ pc[c] = "awaitserver"
    /\ \/ Answering /\ Goto(c, "worker")
       \/ /\ ~Answering
          /\ "late" \in Faults \/ \A s \in Server : server[s] # "starting"
          /\ Finish(c, "failed")
    /\ UNCHANGED <<processes, call, pool>>

\* Mutant: a worker is started without a look.
FindNoWorker(c) ==
    /\ pc[c] = "worker"
    /\ Goto(c, "spawn")
    /\ UNCHANGED <<processes, call, pool>>

\* start_hq_worker does nothing if a worker is running, whoever started it.
FindWorker(c) ==
    /\ pc[c] = "worker"
    /\ \E seen \in WorkersSeen :
          \/ seen # {} /\ Finish(c, "started")
          \/ seen = {} /\ Goto(c, "spawn")
    /\ UNCHANGED <<processes, call, pool>>

SpawnWorker(c) ==
    /\ pc[c] = "spawn"
    /\ \E w \in Worker :
          /\ worker[w].phase = "off"
          /\ worker' = [worker EXCEPT ![w] =
                           [phase |-> "starting", host |-> NoServer,
                            cpus |-> IF pool[c] = 0 THEN DefaultPool ELSE pool[c]]]
    /\ Goto(c, "awaitworker")
    /\ UNCHANGED <<server, directory, pidfile, hand, missed, call, pool>>

\* Mutant: the looks for the worker have no end.
AwaitWorkerForEver(c) ==
    /\ pc[c] = "awaitworker"
    /\ Listed # {}
    /\ Finish(c, "started")
    /\ UNCHANGED <<processes, call, pool>>

\* Sixty looks for the worker; a late one registers after them.
AwaitWorker(c) ==
    /\ pc[c] = "awaitworker"
    /\ \/ Listed # {} /\ Finish(c, "started")
       \/ /\ Listed = {}
          /\ "late" \in Faults \/ \A w \in Worker : worker[w].phase # "starting"
          /\ Finish(c, "failed")
    /\ UNCHANGED <<processes, call, pool>>

\* The end of uninstall_backend, _purge_koopmans_dir.
Purge(c) ==
    /\ directory' = NoServer
    /\ pidfile' = NoServer
    /\ Finish(c, "removed")

\* uninstall_backend stops HQ only if it sees some of it.
IsUp(c) ==
    /\ pc[c] = "isup"
    /\ \E seen \in ServerSeen, workers \in WorkersSeen :
          /\ Asked(seen)
          /\ \/ (seen \/ workers # {}) /\ Goto(c, "asked") /\ UNCHANGED <<directory, pidfile>>
             \/ ~seen /\ workers = {} /\ Purge(c)
    /\ UNCHANGED <<server, worker, hand, call, pool>>

\* stop_hq_server: a server that does not answer is taken to be gone.
AskServer(c) ==
    /\ pc[c] = "serverstop"
    /\ \E seen \in ServerSeen :
          /\ Asked(seen)
          /\ \/ seen /\ Goto(c, "terminate") /\ UNCHANGED <<directory, pidfile>>
             \/ ~seen /\ Purge(c)
    /\ UNCHANGED <<server, worker, hand, call, pool>>

\* A server that ends takes its workers with it.
Ending(gone) ==
    LET lost == {w \in Worker : worker[w].host \in gone} IN
    /\ server' = [s \in Server |-> IF s \in gone THEN "off" ELSE server[s]]
    /\ worker' = [w \in Worker |-> IF w \in lost THEN NoWorker ELSE worker[w]]
    /\ hand' = hand \ lost

\* Mutant: only the pid on file is signalled.
TerminateByPid(c) ==
    /\ pc[c] = "terminate"
    /\ Ending({pidfile} \cap Server)
    /\ Purge(c)
    /\ UNCHANGED <<missed, call, pool>>

\* `hq server stop`, which may time out, and a SIGTERM for the pid on file, five
\* seconds of waiting for its end, and a result that stop_hq does not look at: a
\* server may be deaf to both.
Terminate(c) ==
    /\ pc[c] = "terminate"
    /\ \E told \in ServerSeen, deaf \in SUBSET (IF "deaf" \in Faults THEN Server ELSE {}) :
          LET gone == (({pidfile} \cup (IF told THEN {directory} ELSE {})) \cap Server) \ deaf
          IN /\ Ending(gone)
             /\ missed' = (missed \cup {s \in Server : s = directory /\ Answering}) \ gone
    /\ Purge(c)
    /\ UNCHANGED <<call, pool>>

Starting == (\E s \in Server : server[s] = "starting")
            \/ (\E w \in Worker : worker[w].phase = "starting")

\* Ctrl-C. What was spawned is detached and goes on; to be killed before it has
\* come up or failed is a fault of its own.
KillCommand(c) ==
    /\ "kill" \in Faults \/ ~Starting
    /\ pc[c] # "idle"
    /\ Finish(c, "killed")
    /\ UNCHANGED <<processes, call, pool>>

CommandStep(c) ==
    \/ Find(c) \/ RequireOneWorker(c) \/ Size(c)
    \/ AskWorkers(c) \/ StopAll(c) \/ AwaitStopped(c)
    \/ FindServer(c) \/ RenewDirectory(c) \/ SpawnServer(c) \/ AwaitServer(c)
    \/ FindWorker(c) \/ SpawnWorker(c) \/ AwaitWorker(c)
    \/ IsUp(c) \/ AskServer(c) \/ Terminate(c)

------------------------------------------------------------------------------
(* HyperQueue's processes, and the user's hands *)

Forget == had' = [c \in Command |-> 0]

ServerUp(s) ==
    /\ server[s] = "starting"
    /\ server' = [server EXCEPT ![s] = "up"]
    /\ directory' = s
    /\ UNCHANGED <<pidfile, worker, hand, missed, pc, call, pool, said>>

ServerDies(s) ==
    /\ server[s] # "off"
    /\ Ending({s})
    /\ missed' = missed \ {s}
    /\ Forget
    /\ UNCHANGED <<directory, pidfile, pc, verb, opt, pool, said>>

\* A worker finds its server through the directory.
WorkerUp(w) ==
    /\ worker[w].phase = "starting"
    /\ Answering
    /\ worker' = [worker EXCEPT ![w].phase = "up", ![w].host = directory]
    /\ UNCHANGED <<server, directory, pidfile, hand, missed, pc, call, pool, said>>

WorkerStops(w) ==
    /\ worker[w].phase = "stopping"
    /\ worker' = [worker EXCEPT ![w] = NoWorker]
    /\ hand' = hand \ {w}
    /\ UNCHANGED <<server, directory, pidfile, missed, pc, call, pool, said>>

\* A worker crashes, or the user stops it by hand.
WorkerDies(w) ==
    /\ worker[w].phase # "off"
    /\ worker' = [worker EXCEPT ![w] = NoWorker]
    /\ hand' = hand \ {w}
    /\ Forget
    /\ UNCHANGED <<server, directory, pidfile, missed, pc, verb, opt, pool, said>>

\* To use `hq` by hand while a koopmans command is at work is a fault.
ByHand == "hand" \in Faults \/ \A c \in Command : pc[c] = "idle"

AddServer(s) ==
    /\ ByHand
    /\ ~Answering /\ server[s] = "off"
    /\ server' = [server EXCEPT ![s] = "up"]
    /\ directory' = s
    /\ UNCHANGED <<pidfile, worker, hand, missed, pc, call, pool, said>>

AddWorker(w) ==
    /\ ByHand
    /\ Answering /\ worker[w].phase = "off"
    /\ \E p \in Pools :
          worker' = [worker EXCEPT ![w] = [phase |-> "up", host |-> directory, cpus |-> p]]
    /\ hand' = hand \cup {w}
    /\ UNCHANGED <<server, directory, pidfile, missed, pc, call, pool, said>>

HqNext ==
    \/ \E c \in Command : Begin(c) \/ CommandStep(c) \/ KillCommand(c)
    \/ \E s \in Server : ServerUp(s) \/ ServerDies(s) \/ AddServer(s)
    \/ \E w \in Worker : WorkerUp(w) \/ WorkerStops(w) \/ WorkerDies(w) \/ AddWorker(w)

HqSpec == HqInit /\ [][HqNext]_hqVars

\* A process that is starting comes up or dies.
ServerSettles(s) == server[s] = "starting" /\ (ServerUp(s) \/ ServerDies(s))
WorkerSettles(w) == worker[w].phase = "starting" /\ (WorkerUp(w) \/ WorkerDies(w))

HqFairSpec ==
    /\ HqSpec
    /\ \A c \in Command : WF_hqVars(CommandStep(c))
    /\ \A s \in Server : WF_hqVars(ServerSettles(s))
    /\ \A w \in Worker : WF_hqVars(WorkerSettles(w))

------------------------------------------------------------------------------
(* Properties *)

\* _require_one_worker: "koopmans manages a single worker. Several means someone
\* arranged them by hand." koopmans itself never has two workers running, each
\* advertising the machine.
SeveralAreByHand == Cardinality(Alive \ hand) =< 1

\* The directory of a server that runs is not taken from it, so that koopmans and
\* the daemon can reach it, unless a call for that very server timed out or it did
\* not end when an uninstall told it to.
ServerKeepsItsDirectory ==
    \A s \in Server : server[s] = "up" /\ s \notin missed => directory = s

\* A bare restart that reports a worker started has one of the pool it began with.
StartsWithThePool ==
    \A c \in Command :
       /\ verb[c] = "restart" /\ had[c] # 0
       /\ pc[c] # "idle" /\ said'[c] = "started"
       => \A w \in Alive' : worker'[w].cpus = had[c]

\* "Restarting without --max-procs must not resize the pool" of a worker that
\* lived until it was stopped, on whatever path the restart takes.
RestartKeepsPool == [][StartsWithThePool]_hqVars

\* When an uninstall reports success no process is left.
RemovesAll ==
    \A c \in Command :
       pc[c] # "idle" /\ said'[c] = "removed"
       => /\ \A s \in Server : server'[s] = "off"
          /\ \A w \in Worker : worker'[w].phase = "off"

\* uninstall_backend leaves no HyperQueue process behind, not even one it did not
\* start or one that ignored the request to stop.
UninstallLeavesNothing == [][RemovesAll]_hqVars

\* Every command ends, though servers and workers fail to start, hang when they
\* are to stop, and die.
CommandsEnd == \A c \in Command : pc[c] # "idle" ~> pc[c] = "idle"
==============================================================================
