-------------------------- MODULE HqBackendProofs ---------------------------
(***************************************************************************)
(* Proofs about HqBackend for one command at a time, c, whose calls are    *)
(* answered, that is not killed while something comes up, and whose        *)
(* processes come up or die before it stops looking; for any number of     *)
(* servers, workers, pools and successive commands.                        *)
(***************************************************************************)
EXTENDS HqBackend, FiniteSetTheorems, TLAPS

Labels == {"idle", "find", "require", "size", "asked", "stopall", "awaitstop",
           "server", "renew", "spawnserver", "awaitserver", "worker", "spawn",
           "awaitworker", "isup", "serverstop", "terminate"}

Answer == {"none", "running", "stopped", "failed", "refused", "started", "removed", "killed"}

HqTypes ==
    /\ server \in [Server -> {"off", "starting", "up"}]
    /\ directory \in Server \cup {NoServer}
    /\ pidfile \in Server \cup {NoServer}
    /\ worker \in [Worker -> [phase : {"off", "starting", "up", "stopping"},
                              host : Server \cup {NoServer}, cpus : Nat]]
    /\ hand \subseteq Worker
    /\ missed \subseteq Server
    /\ pc \in [Command -> Labels]
    /\ verb \in [Command -> Verb]
    /\ opt \in [Command -> Nat]
    /\ pool \in [Command -> Nat]
    /\ had \in [Command -> Nat]
    /\ said \in [Command -> Answer]

\* A server comes up only while its command waits for it, and then it is the
\* only one there is but for those that a call has missed.
ServersByStep(c) ==
    /\ ServerKeepsItsDirectory
    /\ \A s \in missed : server[s] = "up"
    /\ \A s \in Server : server[s] = "starting" =>
          /\ pc[c] = "awaitserver" /\ directory = NoServer
          /\ \A u \in Server : server[u] # "off" => u = s \/ u \in missed
    /\ pc[c] \in {"renew", "spawnserver"} =>
          \A s \in Server : server[s] = "off" \/ s \in missed
    /\ pc[c] = "spawnserver" => directory = NoServer

\* So does a worker, and it lives no longer than its server.
WorkersByStep(c) ==
    /\ \A w \in Worker : worker[w].phase = "starting" =>
          pc[c] = "awaitworker" /\ \A v \in Worker : worker[v].phase # "off" => v = w
    /\ \A w \in Alive : worker[w].host \in Server /\ server[worker[w].host] = "up"
    /\ pc[c] = "spawn" => Alive = {}
    /\ \A w, v \in Alive \ hand : w = v

\* Only an uninstall begins by asking whether there is anything to stop.
UninstallAsks(c) == pc[c] = "isup" => verb[c] = "uninstall"

\* The pool of a bare restart: in the worker until it is looked at, in the
\* command from then on, and in the new worker in the end.
PoolByStep(c) ==
    had[c] # 0 /\ pc[c] # "idle" =>
        /\ verb[c] = "restart" /\ opt[c] = 0
        /\ pc[c] \in {"require", "size"} =>
              \E w \in Worker : Alive = {w} /\ worker[w].phase = "up" /\ worker[w].cpus = had[c]
        /\ pc[c] \notin {"require", "size"} => pool[c] = had[c]
        /\ pc[c] \in {"server", "renew", "spawnserver", "awaitserver", "worker", "spawn"} =>
              Alive = {}
        /\ pc[c] = "awaitworker" => \A w \in Alive : worker[w].cpus = had[c]
        /\ \A w \in Worker : worker[w].phase = "starting" => worker[w].cpus = had[c]

\* The inductive invariant.
HqInv(c) ==
    /\ HqTypes
    /\ ServersByStep(c)
    /\ missed = {}
    /\ WorkersByStep(c)
    /\ UninstallAsks(c)
    /\ PoolByStep(c)
    /\ pc[c] # "idle" => said[c] = "none"

-----------------------------------------------------------------------------

\* Without faults a command sees what there is, ...
LEMMA Seen == ASSUME Faults = {} PROVE ServerSeen = {Answering} /\ WorkersSeen = {Listed}
BY DEF ServerSeen, WorkersSeen, Unanswered

\* Asking changes only what is known to be missed.
LEMMA AskedTypes == ASSUME HqTypes, NEW seen, Asked(seen) PROVE missed' \subseteq Server
BY DEF Asked, HqTypes

\* ... and what lives answers.
LEMMA WhatLivesAnswers ==
    ASSUME NEW c, HqInv(c)
    PROVE  /\ Listed = Alive
           /\ Alive # {} => Answering
           /\ ~Answering => \A s \in Server : server[s] # "up"
BY HqAssumption DEF HqInv, ServersByStep, WorkersByStep, ServerKeepsItsDirectory, Listed,
       Answering, Alive

\* A count of one or none, in words: the workers are finitely many.
LEMMA Counting ==
    ASSUME NEW S, S \subseteq Worker
    PROVE  /\ Cardinality(S) =< 1 <=> \A w, v \in S : w = v
           /\ Cardinality(S) > 1 <=> ~(\A w, v \in S : w = v)
           /\ Cardinality(S) = 1 <=> \E w \in S : S = {w}
<1>1. IsFiniteSet(S)
    BY FS_Subset, HqAssumption
<1>2. CASE \A w, v \in S : w = v
    <2>1. CASE S = {}
        BY <1>2, <2>1, FS_EmptySet
    <2>2. CASE S # {}
        <3>1. PICK w \in S : S = {w}
            BY <1>2, <2>2
        <3>2. Cardinality(S) = 1
            BY <3>1, FS_Singleton
        <3>3. QED
            BY <1>2, <3>1, <3>2
    <2>3. QED
        BY <2>1, <2>2
<1>3. CASE ~(\A w, v \in S : w = v)
    <2>1. PICK w \in S, v \in S : w # v
        BY <1>3
    <2>2. Cardinality(S) \in Nat /\ Cardinality(S) # 0
        BY <1>1, <2>1, FS_CardinalityType, FS_EmptySet
    <2>3. Cardinality(S) # 1
        BY <1>1, <2>1, FS_Singleton
    <2>4. QED
        BY <1>3, <2>1, <2>2, <2>3
<1>4. QED
    BY <1>2, <1>3

\* The invariant holds before any command runs.
LEMMA HqInvInit == ASSUME NEW c \in Command PROVE HqInit => HqInv(c)
BY HqAssumption DEF HqInit, HqInv, HqTypes, ServersByStep, WorkersByStep, UninstallAsks, PoolByStep,
       ServerKeepsItsDirectory, Alive, NoWorker, Labels, Verb, Answer

\* Every variable keeps its type.
LEMMA HqTypesStep == ASSUME HqTypes, [HqNext]_hqVars PROVE HqTypes'
<1> USE HqAssumption DEF HqTypes, Goto, Finish, processes, call, Labels, Answer
<1>1. CASE UNCHANGED hqVars
    BY <1>1 DEF hqVars
<1>2. ASSUME NEW c \in Command, Begin(c) PROVE HqTypes'
    <2>1. PICK v \in Verb, p \in Pools \cup {0} :
              /\ verb' = [verb EXCEPT ![c] = v]
              /\ opt' = [opt EXCEPT ![c] = p]
              /\ pool' = [pool EXCEPT ![c] = p]
              /\ had' = [had EXCEPT ![c] =
                           IF v = "restart" /\ p = 0 /\ Cardinality(Steady) = 1 /\ Steady = Listed
                           THEN worker[CHOOSE w \in Steady : TRUE].cpus ELSE 0]
              /\ pc' = [pc EXCEPT ![c] = CASE v \in {"start", "stop"} -> "find"
                                           [] v = "restart" -> "require"
                                           [] v = "install" -> "server"
                                           [] v = "uninstall" -> "isup"]
        BY <1>2 DEF Begin
    <2>2. Cardinality(Steady) = 1 => (CHOOSE w \in Steady : TRUE) \in Worker
        BY Counting DEF Steady, Listed, Alive
    <2>3. had' \in [Command -> Nat]
        BY <2>1, <2>2
    <2>4. pc' \in [Command -> Labels]
        BY <2>1 DEF Verb
    <2>5. verb' \in [Command -> Verb] /\ opt' \in [Command -> Nat] /\ pool' \in [Command -> Nat]
        BY <2>1
    <2>6. said' = [said EXCEPT ![c] = "none"] /\ UNCHANGED processes
        BY <1>2 DEF Begin
    <2>7. QED
        BY <2>3, <2>4, <2>5, <2>6
<1>3. ASSUME NEW c \in Command, CommandStep(c) \/ KillCommand(c) PROVE HqTypes'
    <2>1. CASE Find(c) \/ RequireOneWorker(c) \/ AskWorkers(c) \/ AwaitStopped(c)
        BY <2>1 DEF Find, RequireOneWorker, AskWorkers, AwaitStopped, StopEnds
    <2>2. CASE Size(c)
        <3>1. PICK seen \in WorkersSeen :
                  pool' = IF opt[c] = 0 /\ Cardinality(seen) = 1
                          THEN [pool EXCEPT ![c] = worker[CHOOSE w \in seen : TRUE].cpus]
                          ELSE pool
            BY <2>2 DEF Size
        <3>2. Cardinality(seen) = 1 => (CHOOSE w \in seen : TRUE) \in Worker
            BY Counting DEF WorkersSeen, Listed, Alive
        <3>3. QED
            BY <2>2, <3>1, <3>2 DEF Size
    <2>3. CASE StopAll(c)
        <3>1. worker' \in [Worker -> [phase : {"off", "starting", "up", "stopping"},
                                      host : Server \cup {NoServer}, cpus : Nat]]
            BY <2>3 DEF StopAll
        <3>2. QED
            BY <2>3, <3>1 DEF StopAll
    <2>4. CASE FindServer(c) \/ RenewDirectory(c) \/ SpawnServer(c) \/ AwaitServer(c)
        BY <2>4, AskedTypes DEF FindServer, RenewDirectory, SpawnServer, AwaitServer
    <2>5. CASE FindWorker(c) \/ AwaitWorker(c) \/ KillCommand(c)
        BY <2>5 DEF FindWorker, AwaitWorker, KillCommand
    <2>6. CASE SpawnWorker(c)
        BY <2>6 DEF SpawnWorker
    <2>7. CASE IsUp(c) \/ AskServer(c)
        BY <2>7, AskedTypes DEF IsUp, AskServer, Purge
    <2>8. CASE Terminate(c)
        BY <2>8 DEF Terminate, Ending, Purge, NoWorker
    <2>9. QED
        BY <1>3, <2>1, <2>2, <2>3, <2>4, <2>5, <2>6, <2>7, <2>8 DEF CommandStep
<1>4. ASSUME NEW s \in Server, ServerUp(s) \/ ServerDies(s) \/ AddServer(s) PROVE HqTypes'
    BY <1>4 DEF ServerUp, ServerDies, AddServer, Ending, Forget, NoWorker
<1>5. ASSUME NEW w \in Worker, WorkerUp(w) \/ WorkerStops(w) \/ WorkerDies(w) PROVE HqTypes'
    BY <1>5 DEF WorkerUp, WorkerStops, WorkerDies, Answering, Forget, NoWorker
<1>6. ASSUME NEW w \in Worker, AddWorker(w) PROVE HqTypes'
    BY <1>6 DEF AddWorker, Answering
<1>7. QED
    BY <1>1, <1>2, <1>3, <1>4, <1>5, <1>6 DEF HqNext

\* The server that runs is the one in the directory, and takes its workers with
\* it.
LEMMA NothingAfterTerminate ==
    ASSUME NEW c, Command = {c}, Faults = {}, HqInv(c), Terminate(c)
    PROVE  /\ \A s \in Server : server'[s] = "off"
           /\ \A w \in Worker : worker'[w].phase = "off"
<1> DEFINE gone == ({pidfile} \cup (IF Answering THEN {directory} ELSE {})) \cap Server
<1>1. pc[c] = "terminate" /\ Ending(gone)
    BY Seen DEF Terminate
<1>2. \A s \in Server : server[s] # "off" => s \in gone
    <2>1. \A s \in Server : server[s] # "off" => server[s] = "up" /\ directory = s
        BY <1>1 DEF HqInv, HqTypes, ServersByStep, ServerKeepsItsDirectory
    <2>2. QED
        BY <2>1, HqAssumption DEF Answering
<1>3. \A w \in Worker : worker[w].phase # "off" => worker[w].host \in gone
    <2>1. \A w \in Worker : worker[w].phase # "off" => w \in Alive
        BY <1>1 DEF HqInv, HqTypes, WorkersByStep, Alive
    <2>2. QED
        BY <1>2, <2>1 DEF HqInv, WorkersByStep
<1> HIDE DEF gone
<1>4. QED
    BY <1>1, <1>2, <1>3 DEF Ending, NoWorker

\* A server is started only where there is none that was not missed, and is alone
\* with those till it is up. A call that times out, or a server that does not end,
\* takes the directory from no other.
LEMMA ServersStep ==
    ASSUME NEW c, Command = {c}, Faults \subseteq {"timeout", "deaf"},
           HqTypes, ServersByStep(c), HqNext
    PROVE  ServersByStep(c)'
<1> USE HqAssumption
    DEF HqTypes, ServersByStep, ServerKeepsItsDirectory, Goto, Finish, processes, call
<1>a. \A s \in Server : server[s] = "up" /\ s \notin missed => Answering /\ directory = s
    BY DEF Answering
<1>b. pc[c] # "awaitserver" => \A s \in Server : server[s] # "off" => server[s] = "up"
    OBVIOUS
<1>c. "late" \notin Faults /\ "kill" \notin Faults /\ "hand" \notin Faults
    OBVIOUS
<1>1. CASE Begin(c)
    <2>1. pc'[c] \notin {"renew", "spawnserver"} /\ pc[c] = "idle"
        BY <1>1 DEF Begin, Verb
    <2>2. QED
        BY <1>1, <2>1 DEF Begin
<1>2. CASE Find(c) \/ RequireOneWorker(c) \/ Size(c) \/ AskWorkers(c) \/ StopAll(c)
           \/ AwaitStopped(c) \/ FindWorker(c) \/ SpawnWorker(c) \/ AwaitWorker(c)
    BY <1>2 DEF Find, RequireOneWorker, Size, AskWorkers, StopAll, AwaitStopped, StopEnds,
                FindWorker, SpawnWorker, AwaitWorker
<1>3. CASE FindServer(c)
    <2>1. PICK seen \in ServerSeen :
              Asked(seen) /\ pc' = [pc EXCEPT ![c] = IF seen THEN "worker" ELSE "renew"]
        BY <1>3 DEF FindServer
    <2>2. pc[c] = "server" /\ server' = server /\ directory' = directory
        BY <1>3 DEF FindServer
    <2>3. CASE seen
        BY <1>b, <2>1, <2>2, <2>3 DEF Asked
    <2>4. CASE ~seen
        <3>1. missed' = missed \cup {s \in Server : s = directory /\ Answering}
            BY <2>1, <2>4 DEF Asked
        <3>2. \A s \in Server : server[s] = "off" \/ s \in missed'
            BY <1>a, <1>b, <2>2, <3>1
        <3>3. \A s \in missed' : server'[s] = "up"
            BY <2>2, <3>1 DEF Answering
        <3>4. QED
            BY <2>1, <2>2, <2>4, <3>2, <3>3
    <2>5. QED
        BY <2>3, <2>4
<1>4. CASE RenewDirectory(c) \/ SpawnServer(c)
    BY <1>4 DEF RenewDirectory, SpawnServer
<1>5. CASE AwaitServer(c)
    BY <1>5, <1>c DEF AwaitServer, Answering
<1>6. CASE IsUp(c) \/ AskServer(c)
    <2>1. PICK seen \in ServerSeen :
              /\ Asked(seen)
              /\ \/ directory' = directory /\ pc'[c] \in {"asked", "terminate"}
                 \/ ~seen /\ directory' = NoServer /\ pc'[c] = "idle"
        BY <1>6 DEF IsUp, AskServer, Purge
    <2>2. pc[c] \in {"isup", "serverstop"} /\ server' = server
        BY <1>6 DEF IsUp, AskServer
    <2>3. CASE seen
        BY <1>b, <2>1, <2>2, <2>3 DEF Asked
    <2>4. CASE ~seen
        <3>1. missed' = missed \cup {s \in Server : s = directory /\ Answering}
            BY <2>1, <2>4 DEF Asked
        <3>2. \A s \in Server : server[s] = "off" \/ s \in missed'
            BY <1>a, <1>b, <2>2, <3>1
        <3>3. \A s \in missed' : server'[s] = "up"
            BY <2>2, <3>1 DEF Answering
        <3>4. QED
            BY <1>b, <2>1, <2>2, <3>2, <3>3
    <2>5. QED
        BY <2>3, <2>4
<1>7. CASE Terminate(c)
    <2>1. PICK gone \in SUBSET Server :
              /\ Ending(gone)
              /\ missed' = (missed \cup {s \in Server : s = directory /\ Answering}) \ gone
        BY <1>7 DEF Terminate
    <2>2. pc[c] = "terminate" /\ pc'[c] = "idle"
        BY <1>7 DEF Terminate, Purge
    <2>3. \A s \in Server : server'[s] = "off" \/ s \in missed'
        BY <1>a, <1>b, <2>1, <2>2 DEF Ending
    <2>4. \A s \in Server : server'[s] # "starting"
        BY <1>b, <2>1, <2>2 DEF Ending
    <2>5. \A s \in missed' : server'[s] = "up"
        BY <2>1 DEF Answering, Ending
    <2>6. QED
        BY <2>2, <2>3, <2>4, <2>5
<1>8. CASE KillCommand(c)
    BY <1>8, <1>c DEF KillCommand, Starting
<1>9. ASSUME NEW s \in Server, ServerUp(s) PROVE ServersByStep(c)'
    BY <1>9 DEF ServerUp
<1>10. ASSUME NEW s \in Server, ServerDies(s) PROVE ServersByStep(c)'
    BY <1>10 DEF ServerDies, Ending
<1>11. ASSUME NEW s \in Server, AddServer(s) PROVE ServersByStep(c)'
    BY <1>a, <1>c, <1>11 DEF AddServer, ByHand
<1>12. ASSUME NEW w \in Worker, WorkerUp(w) \/ WorkerStops(w) \/ WorkerDies(w) \/ AddWorker(w)
       PROVE  ServersByStep(c)'
    BY <1>12 DEF WorkerUp, WorkerStops, WorkerDies, AddWorker
<1>13. QED
    BY <1>1, <1>2, <1>3, <1>4, <1>5, <1>6, <1>7, <1>8, <1>9, <1>10, <1>11, <1>12
       DEF HqNext, CommandStep

\* Where every call is answered and every server ends, none is missed.
LEMMA MissedStep ==
    ASSUME NEW c, Command = {c}, Faults = {}, HqInv(c), HqNext
    PROVE  missed' = {}
<1> USE DEF HqInv, processes
<1>1. CASE Begin(c) \/ CommandStep(c) \/ KillCommand(c)
    <2>1. CASE FindServer(c) \/ IsUp(c) \/ AskServer(c)
        <3>1. \E seen \in ServerSeen : Asked(seen)
            BY <2>1 DEF FindServer, IsUp, AskServer
        <3>2. QED
            BY <3>1, Seen DEF Asked
    <2>2. CASE Terminate(c)
        <3>1. PICK told \in ServerSeen, deaf \in SUBSET (IF "deaf" \in Faults THEN Server ELSE {}) :
                  missed' = (missed \cup {s \in Server : s = directory /\ Answering})
                            \ ((({pidfile} \cup (IF told THEN {directory} ELSE {})) \cap Server) \ deaf)
            BY <2>2 DEF Terminate
        <3>2. told = Answering /\ deaf = {}
            BY <3>1, Seen
        <3>3. QED
            BY <3>1, <3>2
    <2>3. QED
        BY <1>1, <2>1, <2>2 DEF Begin, CommandStep, Find, RequireOneWorker, Size, AskWorkers,
               AwaitStopped, StopAll, RenewDirectory, SpawnServer, AwaitServer, FindWorker,
               SpawnWorker, AwaitWorker, KillCommand
<1>2. CASE \E s \in Server : ServerUp(s) \/ ServerDies(s) \/ AddServer(s)
    BY <1>2 DEF ServerUp, ServerDies, AddServer
<1>3. CASE \E w \in Worker : WorkerUp(w) \/ WorkerStops(w) \/ WorkerDies(w) \/ AddWorker(w)
    BY <1>3 DEF WorkerUp, WorkerStops, WorkerDies, AddWorker
<1>4. QED
    BY <1>1, <1>2, <1>3 DEF HqNext

\* A worker is started only where there is none, and goes with its server.
LEMMA WorkersStep ==
    ASSUME NEW c, Command = {c}, Faults = {}, HqInv(c), HqNext
    PROVE  WorkersByStep(c)'
<1> USE HqAssumption, Seen, WhatLivesAnswers
    DEF HqInv, HqTypes, WorkersByStep, Alive, Goto, Finish, processes, call
<1>1. CASE Begin(c)
    <2>1. pc'[c] # "spawn" /\ pc[c] = "idle"
        BY <1>1 DEF Begin, Verb
    <2>2. UNCHANGED processes
        BY <1>1 DEF Begin
    <2>3. QED
        BY <2>1, <2>2
<1>2. CASE Find(c) \/ RequireOneWorker(c) \/ Size(c) \/ AskWorkers(c) \/ AwaitStopped(c)
    BY <1>2 DEF Find, RequireOneWorker, Size, AskWorkers, AwaitStopped, StopEnds
<1>3. CASE StopAll(c)
    <2>1. /\ Alive' = Alive
          /\ \A w \in Worker : worker'[w].host = worker[w].host
          /\ \A w \in Worker : worker'[w].phase = "starting" <=> worker[w].phase = "starting"
        BY <1>3 DEF StopAll, Listed
    <2>2. QED
        BY <1>3, <2>1 DEF StopAll
<1>4. CASE FindServer(c) \/ RenewDirectory(c) \/ AwaitServer(c) \/ FindWorker(c)
           \/ IsUp(c) \/ AskServer(c)
    BY <1>4 DEF FindServer, RenewDirectory, AwaitServer, FindWorker, IsUp, AskServer, Purge
<1>5. CASE SpawnServer(c)
    BY <1>5 DEF SpawnServer
<1>6. CASE SpawnWorker(c)
    <2>1. PICK w \in Worker :
              /\ worker[w].phase = "off"
              /\ worker' = [worker EXCEPT ![w] =
                               [phase |-> "starting", host |-> NoServer,
                                cpus |-> IF pool[c] = 0 THEN DefaultPool ELSE pool[c]]]
        BY <1>6 DEF SpawnWorker
    <2>2. \A v \in Worker : worker[v].phase = "off"
        BY <1>6 DEF SpawnWorker
    <2>3. QED
        BY <1>6, <2>1, <2>2 DEF SpawnWorker
<1>7. CASE AwaitWorker(c)
    BY <1>7 DEF AwaitWorker
<1>8. CASE Terminate(c)
    <2>1. \A w \in Worker : worker'[w].phase = "off"
        BY <1>8, NothingAfterTerminate
    <2>2. QED
        BY <1>8, <2>1 DEF Terminate, Purge
<1>9. CASE KillCommand(c)
    BY <1>9 DEF KillCommand, Starting
<1>10. ASSUME NEW s \in Server, ServerUp(s) PROVE WorkersByStep(c)'
    BY <1>10 DEF ServerUp
<1>11. ASSUME NEW s \in Server, ServerDies(s) PROVE WorkersByStep(c)'
    <2>1. Alive' = {w \in Alive : worker[w].host # s}
        BY <1>11 DEF ServerDies, Ending, NoWorker
    <2>2. \A w \in Worker : worker'[w].phase # "off" => worker'[w] = worker[w]
        BY <1>11 DEF ServerDies, Ending, NoWorker
    <2>3. Alive' \ hand' \subseteq Alive \ hand
        BY <1>11, <2>1 DEF ServerDies, Ending
    <2>4. pc' = pc /\ \A u \in Server \ {s} : server'[u] = server[u]
        BY <1>11 DEF ServerDies, Ending
    <2>5. \A v \in Alive' : worker'[v].host \in Server /\ server'[worker'[v].host] = "up"
        BY <2>1, <2>2, <2>4
    <2>6. \A v, u \in Alive' \ hand' : v = u
        BY <2>3
    <2>7. pc'[c] = "spawn" => Alive' = {}
        BY <2>1, <2>4
    <2>8. QED
        BY <2>2, <2>4, <2>5, <2>6, <2>7
<1>12. ASSUME NEW s \in Server, AddServer(s) PROVE WorkersByStep(c)'
    BY <1>12 DEF AddServer
<1>13. ASSUME NEW w \in Worker, WorkerUp(w) PROVE WorkersByStep(c)'
    BY <1>13 DEF WorkerUp, Answering
<1>14. ASSUME NEW w \in Worker, WorkerStops(w) \/ WorkerDies(w) PROVE WorkersByStep(c)'
    BY <1>14 DEF WorkerStops, WorkerDies, NoWorker
<1>15. ASSUME NEW w \in Worker, AddWorker(w) PROVE WorkersByStep(c)'
    BY <1>15 DEF AddWorker, Answering, ByHand
<1>16. QED
    BY <1>1, <1>2, <1>3, <1>4, <1>5, <1>6, <1>7, <1>8, <1>9, <1>10, <1>11, <1>12, <1>13,
       <1>14, <1>15 DEF HqNext, CommandStep

\* No other command asks so.
LEMMA UninstallAsksStep ==
    ASSUME NEW c, Command = {c}, HqInv(c), HqNext
    PROVE  UninstallAsks(c)'
<1> USE DEF HqInv, HqTypes, UninstallAsks, Goto, Finish, call
<1>1. CASE Begin(c)
    BY <1>1 DEF Begin, Verb
<1>2. CASE CommandStep(c) \/ KillCommand(c)
    BY <1>2 DEF CommandStep, Find, RequireOneWorker, Size, AskWorkers, StopAll, AwaitStopped,
           StopEnds, FindServer, RenewDirectory, SpawnServer, AwaitServer, FindWorker,
           SpawnWorker, AwaitWorker, IsUp, AskServer, Terminate, Purge, KillCommand
<1>3. CASE \E s \in Server : ServerUp(s) \/ ServerDies(s) \/ AddServer(s)
    BY <1>3 DEF ServerUp, ServerDies, AddServer
<1>4. CASE \E w \in Worker : WorkerUp(w) \/ WorkerStops(w) \/ WorkerDies(w) \/ AddWorker(w)
    BY <1>4 DEF WorkerUp, WorkerStops, WorkerDies, AddWorker
<1>5. QED
    BY <1>1, <1>2, <1>3, <1>4 DEF HqNext

\* The pool goes from the worker to the command and on to the new worker.
LEMMA PoolStep ==
    ASSUME NEW c, Command = {c}, Faults = {}, HqInv(c), HqNext
    PROVE  PoolByStep(c)'
<1> USE HqAssumption, Seen, WhatLivesAnswers
    DEF HqInv, HqTypes, PoolByStep, Goto, Finish, processes, call
<1>1. CASE Begin(c)
    <2>1. SUFFICES ASSUME had'[c] # 0 PROVE PoolByStep(c)'
        OBVIOUS
    <2>2. /\ verb'[c] = "restart" /\ opt'[c] = 0 /\ pc'[c] = "require"
          /\ Cardinality(Steady) = 1 /\ Steady = Listed
          /\ had'[c] = worker[CHOOSE w \in Steady : TRUE].cpus
        BY <1>1, <2>1 DEF Begin
    <2>3. PICK w \in Steady : Steady = {w}
        <3>1. Steady \subseteq Worker
            BY DEF Steady, Listed, Alive
        <3>2. QED
            BY ONLY <2>2, <3>1, Counting
    <2>4. w \in Worker /\ Alive = {w} /\ worker[w].phase = "up" /\ worker[w].cpus = had'[c]
        BY <2>2, <2>3 DEF Steady, Listed, Alive
    <2>5. UNCHANGED processes /\ \A v \in Worker : worker[v].phase # "starting"
        BY <1>1 DEF Begin, WorkersByStep
    <2>6. QED
        BY <2>2, <2>4, <2>5 DEF Alive
<1>2. CASE Find(c) \/ IsUp(c) \/ AskServer(c) \/ Terminate(c) \/ KillCommand(c)
    BY <1>2 DEF Find, IsUp, AskServer, Terminate, Purge, KillCommand, UninstallAsks
<1>3. CASE RequireOneWorker(c)
    BY <1>3 DEF RequireOneWorker, Alive
<1>4. CASE Size(c)
    <2>1. SUFFICES ASSUME had[c] # 0 PROVE PoolByStep(c)'
        BY <1>4 DEF Size
    <2>2. PICK w \in Worker : Alive = {w} /\ worker[w].cpus = had[c]
        BY <1>4, <2>1 DEF Size
    <2>3. Cardinality(Listed) = 1 /\ opt[c] = 0
        <3>1. Listed = {w}
            BY <2>2
        <3>2. Cardinality({w}) = 1
            BY ONLY FS_Singleton
        <3>3. QED
            BY <1>4, <2>1, <3>1, <3>2 DEF Size
    <2>4. (CHOOSE v \in Listed : TRUE) = w
        BY <2>2
    <2>5. pool' = [pool EXCEPT ![c] = worker[CHOOSE v \in Listed : TRUE].cpus]
        <3>1. PICK seen \in WorkersSeen :
                  pool' = IF opt[c] = 0 /\ Cardinality(seen) = 1
                          THEN [pool EXCEPT ![c] = worker[CHOOSE v \in seen : TRUE].cpus]
                          ELSE pool
            BY <1>4 DEF Size
        <3>2. seen = Listed
            BY <3>1
        <3>3. QED
            BY ONLY <2>3, <3>1, <3>2
    <2>6. pool'[c] = had[c] /\ pc'[c] = "asked" /\ UNCHANGED <<processes, call>>
        BY <1>4, <2>2, <2>4, <2>5 DEF Size
    <2>7. QED
        BY <1>4, <2>1, <2>6 DEF Size, Alive
<1>5. CASE AskWorkers(c) \/ AwaitStopped(c)
    BY <1>5 DEF AskWorkers, AwaitStopped, StopEnds, Alive, UninstallAsks
<1>6. CASE StopAll(c)
    BY <1>6 DEF StopAll, Listed, Alive
<1>7. CASE FindServer(c) \/ RenewDirectory(c) \/ SpawnServer(c) \/ AwaitServer(c)
    BY <1>7 DEF FindServer, RenewDirectory, SpawnServer, AwaitServer, Alive
<1>8. CASE FindWorker(c) \/ AwaitWorker(c)
    BY <1>8 DEF FindWorker, AwaitWorker, Alive
<1>9. CASE SpawnWorker(c)
    BY <1>9 DEF SpawnWorker, Alive, WorkersByStep
<1>10. ASSUME NEW s \in Server, ServerUp(s) \/ AddServer(s) PROVE PoolByStep(c)'
    BY <1>10 DEF ServerUp, AddServer, Alive
<1>11. ASSUME NEW s \in Server, ServerDies(s) PROVE PoolByStep(c)'
    BY <1>11 DEF ServerDies, Forget
<1>12. ASSUME NEW w \in Worker, WorkerUp(w) PROVE PoolByStep(c)'
    BY <1>12 DEF WorkerUp, Alive, WorkersByStep
<1>13. ASSUME NEW w \in Worker, WorkerStops(w) PROVE PoolByStep(c)'
    BY <1>13 DEF WorkerStops, Alive, NoWorker
<1>14. ASSUME NEW w \in Worker, WorkerDies(w) PROVE PoolByStep(c)'
    BY <1>14 DEF WorkerDies, Forget
<1>15. ASSUME NEW w \in Worker, AddWorker(w) PROVE PoolByStep(c)'
    BY <1>15 DEF AddWorker, ByHand
<1>16. QED
    BY <1>1, <1>2, <1>3, <1>4, <1>5, <1>6, <1>7, <1>8, <1>9, <1>10, <1>11, <1>12, <1>13,
       <1>14, <1>15 DEF HqNext, CommandStep

\* A command has said nothing before it ends.
LEMMA SaidStep ==
    ASSUME NEW c, Command = {c}, HqInv(c), HqNext
    PROVE  pc'[c] # "idle" => said'[c] = "none"
<1> USE DEF HqInv, HqTypes, Goto, Finish
<1>1. CASE Begin(c)
    BY <1>1 DEF Begin
<1>2. CASE CommandStep(c) \/ KillCommand(c)
    BY <1>2 DEF CommandStep, Find, RequireOneWorker, Size, AskWorkers, StopAll, AwaitStopped,
           StopEnds, FindServer, RenewDirectory, SpawnServer, AwaitServer, FindWorker,
           SpawnWorker, AwaitWorker, IsUp, AskServer, Terminate, Purge, KillCommand
<1>3. CASE \E s \in Server : ServerUp(s) \/ ServerDies(s) \/ AddServer(s)
    BY <1>3 DEF ServerUp, ServerDies, AddServer
<1>4. CASE \E w \in Worker : WorkerUp(w) \/ WorkerStops(w) \/ WorkerDies(w) \/ AddWorker(w)
    BY <1>4 DEF WorkerUp, WorkerStops, WorkerDies, AddWorker
<1>5. QED
    BY <1>1, <1>2, <1>3, <1>4 DEF HqNext

\* How a command that succeeds can end.
LEMMA EndsWith ==
    ASSUME NEW c, Command = {c}, HqInv(c), HqNext, pc[c] # "idle"
    PROVE  /\ said'[c] = "started" => AwaitWorker(c) \/ FindWorker(c)
           /\ said'[c] = "removed" => Terminate(c) \/ IsUp(c) \/ AskServer(c)
<1> USE DEF HqInv, HqTypes, Goto, Finish
<1>1. CASE Begin(c)
    BY <1>1 DEF Begin
<1>2. CASE CommandStep(c) \/ KillCommand(c)
    <2>1. CASE Find(c) \/ RequireOneWorker(c) \/ Size(c) \/ StopAll(c)
        BY <2>1 DEF Find, RequireOneWorker, Size, StopAll
    <2>2. CASE AskWorkers(c) \/ AwaitStopped(c)
        BY <2>2 DEF AskWorkers, AwaitStopped, StopEnds
    <2>3. CASE FindServer(c) \/ RenewDirectory(c) \/ SpawnServer(c) \/ AwaitServer(c)
               \/ SpawnWorker(c) \/ KillCommand(c)
        BY <2>3 DEF FindServer, RenewDirectory, SpawnServer, AwaitServer, SpawnWorker, KillCommand
    <2>4. CASE FindWorker(c) \/ AwaitWorker(c)
        BY <2>4 DEF FindWorker, AwaitWorker
    <2>5. CASE IsUp(c) \/ AskServer(c) \/ Terminate(c)
        BY <2>5 DEF IsUp, AskServer, Terminate, Purge
    <2>6. QED
        BY <1>2, <2>1, <2>2, <2>3, <2>4, <2>5 DEF CommandStep
<1>3. CASE \E s \in Server : ServerUp(s) \/ ServerDies(s) \/ AddServer(s)
    BY <1>3 DEF ServerUp, ServerDies, AddServer
<1>4. CASE \E w \in Worker : WorkerUp(w) \/ WorkerStops(w) \/ WorkerDies(w) \/ AddWorker(w)
    BY <1>4 DEF WorkerUp, WorkerStops, WorkerDies, AddWorker
<1>5. QED
    BY <1>1, <1>2, <1>3, <1>4 DEF HqNext

-----------------------------------------------------------------------------

\* It holds throughout.
LEMMA HqInvariance ==
    ASSUME NEW c, Command = {c}, Faults = {}
    PROVE  HqSpec => []HqInv(c)
<1>1. HqInv(c) /\ [HqNext]_hqVars => HqInv(c)'
    <2> SUFFICES ASSUME HqInv(c), [HqNext]_hqVars PROVE HqInv(c)'
        OBVIOUS
    <2>1. CASE HqNext
        BY <2>1, HqTypesStep, ServersStep, MissedStep, WorkersStep, UninstallAsksStep, PoolStep, SaidStep DEF HqInv
    <2>2. CASE UNCHANGED hqVars
        BY <2>2 DEF hqVars, processes, call, HqInv, HqTypes, ServersByStep, WorkersByStep,
               UninstallAsks, PoolByStep, ServerKeepsItsDirectory, Alive
    <2>3. QED
        BY <2>1, <2>2
<1>2. HqInit => HqInv(c)
    BY HqInvInit
<1>3. QED
    BY <1>1, <1>2, PTL DEF HqSpec

\* "koopmans manages a single worker. Several means someone arranged them by
\* hand", whatever is typed, dies and fails to start, and in whatever order.
THEOREM SingleWorker ==
    ASSUME NEW c, Command = {c}, Faults = {}
    PROVE  HqSpec => []SeveralAreByHand
<1>1. HqInv(c) => SeveralAreByHand
    BY Counting DEF HqInv, WorkersByStep, SeveralAreByHand, Alive
<1>2. HqSpec => []HqInv(c)
    BY HqInvariance
<1>3. QED
    BY <1>1, <1>2, PTL

\* Whatever times out, does not end, dies or fails to start, a command that clears
\* the directory takes it from no running server but one that a call of its own
\* has missed: every other one can be reached.
THEOREM ServerReachable ==
    ASSUME NEW c, Command = {c}, Faults \subseteq {"timeout", "deaf"}
    PROVE  HqSpec => []ServerKeepsItsDirectory
<1> DEFINE ServerInv == HqTypes /\ ServersByStep(c)
<1>1. HqInit => ServerInv
    BY HqInvInit DEF HqInv
<1>2. ServerInv /\ [HqNext]_hqVars => ServerInv'
    <2> SUFFICES ASSUME ServerInv, [HqNext]_hqVars PROVE ServerInv'
        OBVIOUS
    <2>1. HqTypes'
        BY HqTypesStep
    <2>2. CASE UNCHANGED hqVars
        BY <2>1, <2>2 DEF hqVars, processes, ServersByStep, ServerKeepsItsDirectory
    <2>3. QED
        BY <2>1, <2>2, ServersStep
<1>3. ServerInv => ServerKeepsItsDirectory
    BY DEF ServersByStep
<1>4. QED
    BY <1>1, <1>2, <1>3, PTL DEF HqSpec

\* The pool of a bare restart is that of the worker it replaces, though three
\* looks at what runs and up to five processes lie between.
THEOREM PoolIsKept ==
    ASSUME NEW c, Command = {c}, Faults = {}
    PROVE  HqSpec => RestartKeepsPool
<1>1. HqInv(c) /\ [HqNext]_hqVars => [StartsWithThePool]_hqVars
    <2> SUFFICES ASSUME HqInv(c), HqNext, had[c] # 0, pc[c] # "idle", said'[c] = "started"
                 PROVE  \A w \in Alive' : worker'[w].cpus = had[c]
        BY DEF StartsWithThePool
    <2>1. AwaitWorker(c) \/ FindWorker(c)
        BY EndsWith
    <2>2. worker' = worker /\ pc[c] \in {"worker", "awaitworker"}
        BY <2>1 DEF AwaitWorker, FindWorker, processes
    <2>3. QED
        BY <2>2 DEF HqInv, PoolByStep, Alive
<1>2. HqSpec => []HqInv(c)
    BY HqInvariance
<1>3. QED
    BY <1>1, <1>2, PTL DEF HqSpec, RestartKeepsPool

\* After an uninstall no process of HyperQueue is left.
THEOREM UninstallIsComplete ==
    ASSUME NEW c, Command = {c}, Faults = {}
    PROVE  HqSpec => UninstallLeavesNothing
<1>1. HqInv(c) /\ [HqNext]_hqVars => [RemovesAll]_hqVars
    <2> SUFFICES ASSUME HqInv(c), HqNext, pc[c] # "idle", said'[c] = "removed"
                 PROVE  /\ \A s \in Server : server'[s] = "off"
                        /\ \A w \in Worker : worker'[w].phase = "off"
        BY DEF RemovesAll
    <2>1. CASE Terminate(c)
        BY <2>1, NothingAfterTerminate
    <2>2. CASE IsUp(c) \/ AskServer(c)
        <3>1. pc[c] \in {"isup", "serverstop"} /\ UNCHANGED <<server, worker>>
            BY <2>2 DEF IsUp, AskServer
        <3>2. ~Answering
            BY <2>2, Seen DEF IsUp, AskServer, Goto, HqInv
        <3>3. QED
            BY <3>1, <3>2, WhatLivesAnswers
               DEF HqInv, HqTypes, ServersByStep, WorkersByStep, Alive
    <2>3. QED
        BY <2>1, <2>2, EndsWith
<1>2. HqSpec => []HqInv(c)
    BY HqInvariance
<1>3. QED
    BY <1>1, <1>2, PTL DEF HqSpec, UninstallLeavesNothing
=============================================================================
