------------------------------- MODULE Lifecycle -------------------------------
(***************************************************************************)
(* The life of the process around its services: the commands boot, head,   *)
(* historic and full (cmd/), BootApplicationWithRetry (internal/boot) with *)
(* the checks of the beacon node and the connection to the database, and   *)
(* the shutdown (internal/shutdown, pkg/gracefulshutdown).                 *)
(*                                                                         *)
(* main boots, starts the services and waits for the shutdown.  One        *)
(* goroutine waits for the signal and runs the operation that stops the    *)
(* services one after another and closes the pool of connections; a timer  *)
(* ends the wait of main after a time limit.  The services themselves are  *)
(* modelled elsewhere: here each is its goroutines, which take connections *)
(* of the pool and give them back.                                         *)
(*                                                                         *)
(* pgxpool is modelled from its use: Close refuses connections from then   *)
(* on and returns once all that were taken have been given back.           *)
(***************************************************************************)
EXTENDS Integers, Sequences

CONSTANTS
    Modes,      \* the commands considered: a subset of AllModes
    Retries,    \* the values of bc.bootMaxRetry considered
    MaxFaults   \* bound on what fails, once the process is up and before

AllModes == {"boot", "head", "historic", "full"}

ASSUME ModesAssumption ==
    /\ Modes \subseteq AllModes
    /\ Retries \subseteq Int
    /\ MaxFaults \in Nat

Services == {"head", "historic", "gaps"}
Batch    == {"historic", "gaps"}      \* those with a context and rows to release

VARIABLES
    config,     \* the command and the settings, see Configs
    main,       \* the main goroutine, or how the process ended
    attempts,   \* boot attempts that were made, also the number of the last one
    err,        \* err of BootApplicationWithRetry: the last attempt failed
    client,     \* BC: the attempt that created it; 0 for the package's own, None for nil
    db,         \* DB: likewise
    exported,   \* the attempt whose counters prometheus has
    pools,      \* the attempts whose pool is open
    service,    \* the state of each service
    cancelled,  \* the services whose context is cancelled
    holding,    \* the services whose goroutines hold a connection
    handler,    \* the goroutine of gracefulshutdown.Shutdown
    todo,       \* what the shutdown operation has yet to do
    timer,      \* time.AfterFunc
    faults      \* how much of the bound is used up

boot     == <<attempts, err, client, db, exported>>
shutdown == <<handler, todo, timer>>
running  == <<service, cancelled, holding>>
vars     == <<config, main, boot, pools, running, shutdown, faults>>

None == -1

Configs == [mode : Modes, maxRetry : Retries, skipSync : BOOLEAN, gaps : BOOLEAN]

\* How the process can have ended.
Ends == {"graceful", "ungraceful", "refused", "killed", "died"}
Ended == main \in Ends

Spend ==
    /\ faults < MaxFaults
    /\ faults' = faults + 1

MainStep(from, to) ==
    /\ main = from
    /\ main' = to

\* The services that a command starts.
Wanted ==
    (CASE config.mode = "boot"     -> {}
       [] config.mode = "head"     -> {"head"}
       [] config.mode = "historic" -> {"historic"}
       [] config.mode = "full"     -> {"head", "historic"})
      \cup IF config.gaps /\ config.mode # "boot" THEN {"gaps"} ELSE {}

-----------------------------------------------------------------------------

Init ==
    /\ config \in Configs
    /\ main = IF config.maxRetry = 0 THEN "prepare" ELSE "create"
    /\ attempts = 0
    /\ err = FALSE
    /\ client = 0
    /\ db = 0
    /\ exported = None
    /\ pools = {}
    /\ service = [s \in Services |-> "off"]
    /\ cancelled = {}
    /\ holding = {}
    /\ handler = "none"
    /\ todo = << >>
    /\ timer = "off"
    /\ faults = 0

-----------------------------------------------------------------------------
(* BootApplicationWithRetry: one attempt.  An attempt that fails returns     *)
(* what there is by then: no client and no database before there is a pool.  *)

AttemptFails(c, d) ==
    /\ Spend
    /\ main' = "retry"
    /\ err' = TRUE
    /\ client' = c
    /\ db' = d

\* CreateBeaconClient: counters that are registered already are left as they
\* are ("duplicate metrics collector registration attempted").
Create ==
    /\ MainStep("create", "check")
    /\ attempts' = attempts + 1
    /\ exported' = IF exported = None THEN attempts' ELSE exported
    /\ UNCHANGED <<config, err, client, db, pools, running, shutdown, faults>>

\* CheckBeaconClient: the health of the beacon node.
CheckBeaconClient ==
    /\ main = "check"
    /\ \/ MainStep("check", "connect") /\ UNCHANGED <<err, client, db, faults>>
       \/ AttemptFails(None, None)
    /\ UNCHANGED <<config, attempts, exported, pools, running, shutdown>>

\* SetupPostgresDb: a pool of connections, of which one is made at once.
SetupPostgresDb ==
    /\ main = "connect"
    /\ \/ /\ MainStep("connect", "sync")
          /\ pools' = pools \cup {attempts}
          /\ UNCHANGED <<err, client, db, faults>>
       \/ AttemptFails(None, None) /\ UNCHANGED pools
    /\ UNCHANGED <<config, attempts, exported, running, shutdown>>

BootSucceeds ==
    /\ MainStep("sync", "prepare")
    /\ err' = FALSE
    /\ client' = attempts
    /\ db' = attempts
    /\ UNCHANGED faults

\* CheckHeadSync: no answer counts as syncing; the pool stays open.
CheckHeadSync ==
    /\ main = "sync"
    /\ \/ BootSucceeds
       \/ ~config.skipSync /\ AttemptFails(attempts, attempts)
    /\ UNCHANGED <<config, attempts, exported, pools, running, shutdown>>

\* A slip: the last attempt's error is forgotten.
RetryForgetful ==
    /\ main = "retry"
    /\ IF config.maxRetry < 0 \/ attempts < config.maxRetry
       THEN MainStep("retry", "create") /\ UNCHANGED err
       ELSE MainStep("retry", "prepare") /\ err' = FALSE
    /\ UNCHANGED <<config, attempts, client, db, exported, pools, running, shutdown, faults>>

\* A slip: one attempt more than there are retries.
RetryOnceMore ==
    /\ MainStep("retry", IF config.maxRetry < 0 \/ attempts <= config.maxRetry
                         THEN "create" ELSE "prepare")
    /\ UNCHANGED <<config, boot, pools, running, shutdown, faults>>

\* Sleep, and try again while there are retries left.
Retry ==
    /\ MainStep("retry", IF config.maxRetry < 0 \/ attempts < config.maxRetry
                         THEN "create" ELSE "prepare")
    /\ UNCHANGED <<config, boot, pools, running, shutdown, faults>>

\* The switch on startUpMode; full passes "head".  A nil client panics.
Prepare ==
    /\ MainStep("prepare",
           CASE config.mode # "boot" /\ client = None -> "died"
             [] config.mode = "historic"              -> "latest"
             [] OTHER                                 -> IF err THEN "refuse" ELSE "launch")
    /\ UNCHANGED <<config, boot, pools, running, shutdown, faults>>

\* GetLatestSlotInBeaconServer: its error, or the one of the attempts.  The
\* package's own client has no endpoint to ask.
GetLatestSlot ==
    /\ main = "latest"
    /\ \/ client # 0 /\ MainStep("latest", IF err THEN "refuse" ELSE "launch") /\ UNCHANGED faults
       \/ client = 0 /\ MainStep("latest", "refuse") /\ UNCHANGED faults
       \/ Spend /\ MainStep("latest", "refuse")
    /\ UNCHANGED <<config, boot, pools, running, shutdown>>

\* StopApplicationPreBoot: the package's own database has no driver to close.
Refuse ==
    /\ MainStep("refuse", IF db = 0 THEN "died" ELSE "refused")
    /\ pools' = pools \ {db}
    /\ UNCHANGED <<config, boot, running, shutdown, faults>>

-----------------------------------------------------------------------------
(* The command: start the services, then wait in ShutdownServices.  Head    *)
(* tracking without a client panics.                                        *)

\* A slip: main serves the metrics itself.
LaunchServing ==
    /\ MainStep("launch", "serving")
    /\ UNCHANGED <<config, boot, pools, running, shutdown, faults>>

Launch ==
    /\ MainStep("launch", IF client = 0 /\ "head" \in Wanted THEN "died" ELSE "waiting")
    /\ service' = [s \in Services |-> IF s \in Wanted THEN "starting" ELSE "off"]
    /\ handler' = "starting"
    /\ UNCHANGED <<config, boot, pools, cancelled, holding, todo, timer, faults>>

\* A service's goroutine gets to run; only then do HistoricalProcess and
\* KnownGapsProcess have a value.
BeginService(s) ==
    /\ ~Ended
    /\ service[s] = "starting"
    /\ service' = [service EXCEPT ![s] = "running"]
    /\ UNCHANGED <<config, main, boot, pools, cancelled, holding, shutdown, faults>>

Working(s) == ~Ended /\ service[s] = "running"
Closing == db \notin pools \/ todo = <<"closing">>

\* A goroutine of the service takes a connection.  Once the pool is closing it
\* gets an error, at which processFullSlot uses a nil transaction and
\* writeKnownGaps calls log.Fatal; a getter may just count it.
Acquire(s) ==
    /\ Working(s) /\ s \notin holding
    /\ \/ ~Closing /\ holding' = holding \cup {s} /\ UNCHANGED main
       \/ Closing /\ main' = "died" /\ UNCHANGED holding
    /\ UNCHANGED <<config, boot, pools, service, cancelled, shutdown, faults>>

GiveBack(s) ==
    /\ ~Ended
    /\ s \in holding
    /\ holding' = holding \ {s}
    /\ UNCHANGED <<config, main, boot, pools, service, cancelled, shutdown, faults>>

\* The goroutines of a batch process have noticed that the context is
\* cancelled, or its getter has given up after five errors; main goes on.
EndService(s) ==
    /\ Working(s) /\ s \in Batch /\ s \notin holding
    /\ \/ s \in cancelled /\ UNCHANGED faults
       \/ s \notin cancelled /\ Spend
    /\ service' = [service EXCEPT ![s] = "ended"]
    /\ UNCHANGED <<config, main, boot, pools, cancelled, holding, shutdown>>

-----------------------------------------------------------------------------
(* gracefulshutdown.Shutdown *)

\* The operation of each command.
Operation ==
    CASE config.mode = "boot"     -> <<"close">>
      [] config.mode = "head"     -> <<"head", "gaps", "close">>
      [] config.mode = "historic" -> <<"historic", "gaps", "close">>
      [] config.mode = "full"     -> <<"historic", "gaps", "head", "close">>

\* signal.Notify
Listen ==
    /\ ~Ended
    /\ handler = "starting"
    /\ handler' = "listening"
    /\ UNCHANGED <<config, main, boot, pools, running, todo, timer, faults>>

\* SIGTERM: nobody listens yet and it ends the process, or it is taken; the
\* command boot sends it to itself.  A second one is left in the channel.
SignalKills ==
    /\ ~Ended
    /\ handler \in {"none", "starting"}
    /\ main' = "killed"
    /\ UNCHANGED <<config, boot, pools, running, shutdown, faults>>

\* A slip: the time limit is set when the operations are done.
TakeSignalNoTimer ==
    /\ ~Ended
    /\ handler = "listening"
    /\ handler' = "working"
    /\ todo' = Operation
    /\ UNCHANGED <<config, main, boot, pools, running, timer, faults>>

TakeSignal ==
    /\ ~Ended
    /\ handler = "listening"
    /\ handler' = "working"
    /\ todo' = Operation
    /\ timer' = "set"
    /\ UNCHANGED <<config, main, boot, pools, running, faults>>

Doing(op) == ~Ended /\ todo # << >> /\ Head(todo) = op

\* StopHistoric and, if it has been started, StopKnownGapsProcessing: cancel
\* the context and release the rows, whose error is only logged.  Without
\* HistoricalProcess the release panics.
StopBatch(s) ==
    /\ Doing(s) /\ s \in Batch
    /\ IF service[s] = "starting" /\ s = "historic"
       THEN main' = "died" /\ UNCHANGED <<todo, cancelled>>
       ELSE /\ todo' = Tail(todo)
            /\ cancelled' = cancelled \cup IF service[s] \in {"off", "starting"} THEN {} ELSE {s}
            /\ UNCHANGED main
    /\ UNCHANGED <<config, boot, pools, service, holding, handler, timer, faults>>

\* StopHeadTracking returns, which is left to chance (see EventIntake); the
\* goroutines processHeadSlot go on.
StopHead ==
    /\ Doing("head")
    /\ todo' = Tail(todo)
    /\ UNCHANGED <<config, main, boot, pools, running, handler, timer, faults>>

\* DB.Close
Close ==
    /\ Doing("close")
    /\ IF db = 0 THEN main' = "died" /\ UNCHANGED todo
                 ELSE todo' = <<"closing">> /\ UNCHANGED main
    /\ UNCHANGED <<config, boot, pools, running, handler, timer, faults>>

\* A slip: the pool does not wait for the connections that are out.
ClosedAtOnce ==
    /\ Doing("closing")
    /\ pools' = pools \ {db}
    /\ todo' = << >>
    /\ handler' = "done"
    /\ UNCHANGED <<config, main, boot, running, timer, faults>>

\* All connections are back: the operation returns, and wg.Wait with it.
Closed ==
    /\ Doing("closing")
    /\ holding = {}
    /\ pools' = pools \ {db}
    /\ todo' = << >>
    /\ handler' = "done"
    /\ UNCHANGED <<config, main, boot, running, timer, faults>>

TimeLimit ==
    /\ ~Ended
    /\ timer = "set"
    /\ handler = "working"
    /\ timer' = "elapsed"
    /\ UNCHANGED <<config, main, boot, pools, running, handler, todo, faults>>

\* ShutdownServices: the select takes what is there.
FinishGraceful ==
    /\ handler = "done"
    /\ MainStep("waiting", "graceful")
    /\ UNCHANGED <<config, boot, pools, running, shutdown, faults>>

FinishUngraceful ==
    /\ timer = "elapsed"
    /\ MainStep("waiting", "ungraceful")
    /\ UNCHANGED <<config, boot, pools, running, shutdown, faults>>

-----------------------------------------------------------------------------

Boot ==
    \/ Create \/ CheckBeaconClient \/ SetupPostgresDb \/ CheckHeadSync
    \/ Retry \/ Prepare \/ GetLatestSlot \/ Refuse
    \/ Launch

Handler == Listen \/ TakeSignal \/ TimeLimit

Operate == (\E s \in Batch : StopBatch(s)) \/ StopHead \/ Close \/ Closed

Finish == FinishGraceful \/ FinishUngraceful

Serve(s) == BeginService(s) \/ Acquire(s) \/ GiveBack(s) \/ EndService(s)

Next ==
    \/ Boot \/ Handler \/ Operate \/ Finish
    \/ SignalKills
    \/ \E s \in Services : Serve(s)

Spec == Init /\ [][Next]_vars

\* main boots and waits; the time limit passes.  Whether and when the signal
\* comes, services take and give back connections and the operation gets on
\* is left to chance.
FairSpec == Spec /\ WF_vars(Boot) /\ WF_vars(Listen) /\ WF_vars(TimeLimit) /\ WF_vars(Finish)

-----------------------------------------------------------------------------

MainPCs == {"create", "check", "connect", "sync", "retry", "prepare", "latest",
            "refuse", "launch", "waiting"} \cup Ends

TypeOK ==
    /\ config \in Configs
    /\ main \in MainPCs
    /\ attempts \in Nat
    /\ config.maxRetry >= 0 => attempts <= config.maxRetry
    /\ err \in BOOLEAN
    /\ client \in 0 .. attempts \cup {None}
    /\ db \in 0 .. attempts \cup {None}
    /\ exported \in 1 .. attempts \cup {None}
    /\ pools \subseteq 1 .. attempts
    /\ service \in [Services -> {"off", "starting", "running", "ended"}]
    /\ cancelled \subseteq Batch
    /\ holding \subseteq Services
    /\ handler \in {"none", "starting", "listening", "working", "done"}
    /\ todo \in Seq(Services \cup {"close", "closing"})
    /\ timer \in {"off", "set", "elapsed"}
    /\ faults \in 0 .. MaxFaults

\* Services run only with a client and a pool of one and the same attempt, the
\* last one, and after it passed all its checks: nothing of an earlier attempt
\* is left in BC and DB (BootApplicationWithRetry), and the pool stays open
\* until the shutdown operation has closed it.
RunsOnOneAttempt ==
    main \in {"launch", "waiting"} /\ config.maxRetry # 0 =>
        /\ client = attempts /\ db = attempts /\ ~err
        /\ handler # "done" => db \in pools

\* "Gracefully shutdown" is logged only when the operation is done: historical
\* processing has its context cancelled, the pool is closed and nobody has a
\* connection of it any more (ShutdownServices, gracefulshutdown.Shutdown).
GracefulMeansReleased ==
    main = "graceful" =>
        /\ todo = << >> /\ db \notin pools /\ holding = {}
        /\ "historic" \in Wanted => "historic" \in cancelled

\* A boot comes to an end: the services run, or the process is gone; with a
\* bounded number of retries and with failures that stop some day.
BootEnds == <>(main = "waiting" \/ Ended)

\* Once the signal is taken the process ends, whatever the services, the pool
\* and the beacon node do (maxWaitSecondsShutdown).
SignalEndsProcess == handler = "working" ~> Ended

\* "It allows us to retry a few times before ending the application."
\* (processhistoric.go): a getter that gave up ends it.
TooManyErrorsEnd ==
    \A s \in Batch : (service[s] = "ended") ~> Ended

\* The counters that prometheus has are those of the running client: "Keeps
\* track of the number of slots we have inserted." (metrics.go)
CountersAreLive == main = "waiting" /\ config.maxRetry # 0 => exported = client

=============================================================================
