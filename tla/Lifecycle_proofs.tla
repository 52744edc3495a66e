---------------------------- MODULE Lifecycle_proofs ----------------------------
(***************************************************************************)
(* What holds of the life of the process for any commands, any number of   *)
(* retries and any number of failures: the types, that the services run on *)
(* one attempt of the boot, and that a graceful end leaves nothing behind. *)
(***************************************************************************)
EXTENDS Lifecycle, SequenceTheorems, TLAPS

\* What the last attempt has come to, while there is none that succeeded.
AttemptInv ==
    /\ main \in {"create", "check", "connect", "sync", "retry"} => config.maxRetry # 0
    /\ main = "create" /\ config.maxRetry > 0 => attempts < config.maxRetry
    /\ main \in {"check", "connect", "sync", "retry"} => attempts > 0
    /\ main = "sync" => attempts \in pools
    /\ main = "retry" => err

\* BC and DB are those of the last attempt, unless it failed.
OneAttempt == client = attempts /\ db = attempts /\ ~err

BootedInv ==
    config.maxRetry # 0 =>
        /\ main \in {"prepare", "latest"} => err \/ (OneAttempt /\ db \in pools)
        /\ main \in {"launch", "waiting"} => OneAttempt /\ (handler # "done" => db \in pools)

\* Before the services are started there is nothing to shut down.
StartUp == MainPCs \ ({"waiting"} \cup Ends)

QuietInv ==
    /\ main \in StartUp => handler = "none"
    /\ handler = "none" => service = [s \in Services |-> "off"] /\ holding = {}

\* The context of the historical processing is cancelled by the first thing
\* that the operation does.
OperationInv ==
    /\ handler # "none" => \A s \in Services : s \in Wanted => service[s] # "off"
    /\ handler # "working" => todo = << >>
    /\ handler = "working" /\ "historic" \in Wanted =>
           "historic" \in cancelled \/ (todo # << >> /\ Head(todo) = "historic")
    /\ handler = "done" =>
           /\ db \notin pools /\ holding = {}
           /\ "historic" \in Wanted => "historic" \in cancelled
    /\ main = "graceful" => handler = "done"

Inv == TypeOK /\ AttemptInv /\ BootedInv /\ QuietInv /\ OperationInv

-----------------------------------------------------------------------------

LEMMA ConfigIsKept == Next => config' = config
BY DEF Next, Boot, Create, CheckBeaconClient, SetupPostgresDb, CheckHeadSync, Retry,
   Prepare, GetLatestSlot, Refuse, Launch, Handler, Listen, TakeSignal, TimeLimit,
   Operate, StopBatch, StopHead, Close, Closed, Finish, FinishGraceful,
   FinishUngraceful, SignalKills, Serve, BeginService, Acquire, GiveBack, EndService

LEMMA WantedIsKept == config' = config => Wanted' = Wanted
BY DEF Wanted

LEMMA SpendType == ASSUME TypeOK, Spend PROVE faults' \in 0 .. MaxFaults
BY ModesAssumption DEF TypeOK, Spend

LEMMA ConfigType ==
    ASSUME TypeOK
    PROVE  config.mode \in AllModes /\ config.maxRetry \in Int /\ config.skipSync \in BOOLEAN
BY ModesAssumption DEF TypeOK, Configs

LEMMA InitInv == Init => Inv
<1>. SUFFICES ASSUME Init PROVE Inv
  OBVIOUS
<1>0. config.maxRetry \in Int
  BY ModesAssumption DEF Init, Configs
<1>1. TypeOK
  <2>1. /\ attempts \in Nat /\ faults \in 0 .. MaxFaults
        /\ config.maxRetry >= 0 => attempts <= config.maxRetry
        /\ client \in 0 .. attempts \cup {None}
        /\ db \in 0 .. attempts \cup {None}
    BY <1>0, ModesAssumption DEF Init
  <2>2. exported \in 1 .. attempts \cup {None} /\ pools \subseteq 1 .. attempts
    BY DEF Init
  <2>3. main \in MainPCs /\ err \in BOOLEAN
    BY DEF Init, MainPCs
  <2>4. /\ service \in [Services -> {"off", "starting", "running", "ended"}]
        /\ cancelled \subseteq Batch /\ holding \subseteq Services
    BY DEF Init
  <2>5. todo \in Seq(Services \cup {"close", "closing"})
    BY EmptySeq DEF Init
  <2>6. /\ handler \in {"none", "starting", "listening", "working", "done"}
        /\ timer \in {"off", "set", "elapsed"}
        /\ config \in Configs
    BY DEF Init
  <2>. QED  BY <2>1, <2>2, <2>3, <2>4, <2>5, <2>6 DEF TypeOK
<1>2. AttemptInv
  BY <1>0 DEF Init, AttemptInv
<1>3. BootedInv
  BY DEF Init, BootedInv
<1>4. QuietInv /\ OperationInv
  BY DEF Init, QuietInv, OperationInv
<1>. QED  BY <1>1, <1>2, <1>3, <1>4 DEF Inv

-----------------------------------------------------------------------------
(* The boot, up to the start of the services *)

Attempting == Create \/ CheckBeaconClient \/ SetupPostgresDb \/ CheckHeadSync \/ Retry

Starting == Prepare \/ GetLatestSlot \/ Refuse

LEMMA AttemptingInv == ASSUME Inv, Attempting PROVE Inv'
<1>0. /\ main \in StartUp /\ main' \in StartUp
      /\ UNCHANGED <<config, service, cancelled, holding, handler, todo, timer>>
  BY DEF Attempting, Create, CheckBeaconClient, SetupPostgresDb, CheckHeadSync, Retry,
     MainStep, BootSucceeds, AttemptFails, running, shutdown, StartUp, MainPCs, Ends
<1>1. QuietInv' /\ OperationInv'
  BY <1>0, WantedIsKept DEF Inv, QuietInv, OperationInv, StartUp, Ends
<1>2. CASE Create
  <2>. USE <1>2 DEF Create, MainStep
  <2>1. attempts' = attempts + 1 /\ attempts' \in Nat /\ config.maxRetry \in Int
    BY ConfigType DEF Inv, TypeOK
  <2>2. TypeOK'
    BY <1>0, <2>1 DEF Inv, TypeOK, MainPCs, AttemptInv, None
  <2>3. AttemptInv' /\ BootedInv'
    BY <1>0, <2>1 DEF Inv, TypeOK, AttemptInv, BootedInv
  <2>. QED  BY <1>1, <2>2, <2>3 DEF Inv
<1>3. CASE CheckBeaconClient
  <2>. USE <1>3 DEF CheckBeaconClient, MainStep, AttemptFails
  <2>1. faults' \in 0 .. MaxFaults
    BY SpendType DEF Inv, TypeOK
  <2>2. TypeOK'
    BY <1>0, <2>1 DEF Inv, TypeOK, MainPCs, None
  <2>3. AttemptInv' /\ BootedInv'
    BY <1>0 DEF Inv, AttemptInv, BootedInv
  <2>. QED  BY <1>1, <2>2, <2>3 DEF Inv
<1>4. CASE SetupPostgresDb
  <2>. USE <1>4 DEF SetupPostgresDb, MainStep, AttemptFails
  <2>1. faults' \in 0 .. MaxFaults
    BY SpendType DEF Inv, TypeOK
  <2>2. TypeOK'
    <3>0. attempts \in 1 .. attempts /\ pools \subseteq 1 .. attempts
      BY DEF Inv, TypeOK, AttemptInv
    <3>1. pools' \subseteq 1 .. attempts
      BY <3>0
    <3>2. client' \in 0 .. attempts \cup {None} /\ db' \in 0 .. attempts \cup {None}
      BY DEF Inv, TypeOK
    <3>3. main' \in MainPCs /\ err' \in BOOLEAN
      BY DEF Inv, TypeOK, MainPCs
    <3>. QED  BY <1>0, <2>1, <3>1, <3>2, <3>3 DEF Inv, TypeOK
  <2>3. AttemptInv' /\ BootedInv'
    BY <1>0 DEF Inv, AttemptInv, BootedInv
  <2>. QED  BY <1>1, <2>2, <2>3 DEF Inv
<1>5. CASE CheckHeadSync
  <2>. USE <1>5 DEF CheckHeadSync, BootSucceeds, MainStep, AttemptFails
  <2>1. faults' \in 0 .. MaxFaults
    BY SpendType DEF Inv, TypeOK
  <2>2. TypeOK'
    <3>1. client' \in 0 .. attempts \cup {None} /\ db' \in 0 .. attempts \cup {None}
      BY DEF Inv, TypeOK
    <3>2. main' \in MainPCs /\ err' \in BOOLEAN
      BY DEF Inv, TypeOK, MainPCs
    <3>. QED  BY <1>0, <2>1, <3>1, <3>2 DEF Inv, TypeOK
  <2>3. AttemptInv' /\ BootedInv'
    BY <1>0 DEF Inv, AttemptInv, BootedInv, OneAttempt
  <2>. QED  BY <1>1, <2>2, <2>3 DEF Inv
<1>6. CASE Retry
  <2>. USE <1>6 DEF Retry, MainStep, boot
  <2>1. TypeOK'
    BY <1>0 DEF Inv, TypeOK, MainPCs
  <2>2. AttemptInv' /\ BootedInv'
    BY <1>0, ConfigType DEF Inv, TypeOK, AttemptInv, BootedInv
  <2>. QED  BY <1>1, <2>1, <2>2 DEF Inv
<1>. QED  BY <1>2, <1>3, <1>4, <1>5, <1>6 DEF Attempting

LEMMA StartingInv == ASSUME Inv, Starting PROVE Inv'
<1>0. /\ main \in {"prepare", "latest", "refuse"}
      /\ main' \in {"latest", "refuse", "launch", "refused", "died"}
      /\ UNCHANGED <<config, attempts, err, client, db, exported, service, cancelled,
                     holding, handler, todo, timer>>
  BY DEF Starting, Prepare, GetLatestSlot, Refuse, MainStep, boot, running, shutdown
<1>1. /\ pools' \subseteq pools
      /\ main' \in {"latest", "refuse", "launch"} => pools' = pools
      /\ main' \in {"latest", "launch"} => main \in {"prepare", "latest"}
      /\ main' = "launch" => ~err
      /\ faults' \in 0 .. MaxFaults
  BY SpendType DEF Starting, Prepare, GetLatestSlot, Refuse, MainStep, Inv, TypeOK
<1>2. TypeOK'
  BY <1>0, <1>1 DEF Inv, TypeOK, MainPCs, Ends
<1>3. AttemptInv' /\ BootedInv'
  BY <1>0, <1>1 DEF Inv, AttemptInv, BootedInv, OneAttempt
<1>4. QuietInv' /\ OperationInv'
  BY <1>0, <1>1, WantedIsKept DEF Inv, QuietInv, OperationInv, StartUp, MainPCs, Ends
<1>. QED  BY <1>2, <1>3, <1>4 DEF Inv

LEMMA LaunchInv == ASSUME Inv, Launch PROVE Inv'
<1>. USE DEF Launch, MainStep, boot
<1>1. handler = "none" /\ handler' = "starting" /\ holding = {} /\ todo = << >>
  BY DEF Inv, QuietInv, OperationInv, StartUp, MainPCs, Ends
<1>2. /\ main = "launch" /\ main' \in {"waiting", "died"}
      /\ \A s \in Services : s \in Wanted => service'[s] = "starting"
  BY DEF Services
<1>3. TypeOK'
  BY <1>1, <1>2 DEF Inv, TypeOK, MainPCs, Ends
<1>4. AttemptInv' /\ BootedInv'
  BY <1>1, <1>2 DEF Inv, AttemptInv, BootedInv, OneAttempt
<1>5. QuietInv' /\ OperationInv'
  BY <1>1, <1>2, WantedIsKept DEF QuietInv, OperationInv, StartUp, Ends
<1>. QED  BY <1>3, <1>4, <1>5 DEF Inv

-----------------------------------------------------------------------------
(* The services *)

\* They touch their own state, the connections, and main when they crash; they
\* take no connection once the pool is closed.
LEMMA ServeStep ==
    ASSUME Inv, NEW s \in Services, Serve(s)
    PROVE  /\ UNCHANGED <<config, boot, pools, cancelled, shutdown>>
           /\ ~Ended /\ main' \in {main, "died"}
           /\ handler # "none"
           /\ service' \in [Services -> {"off", "starting", "running", "ended"}]
           /\ \A x \in Services : service'[x] = "off" <=> service[x] = "off"
           /\ holding' \subseteq Services
           /\ handler = "done" => holding' = {}
           /\ faults' \in 0 .. MaxFaults
<1>0. handler # "none"
  <2>1. service[s] # "off" \/ s \in holding
    BY DEF Serve, BeginService, Acquire, GiveBack, EndService, Working
  <2>. QED  BY <2>1 DEF Inv, QuietInv
<1>1. CASE BeginService(s)
  BY <1>0, <1>1 DEF BeginService, Inv, TypeOK, OperationInv
<1>2. CASE Acquire(s)
  BY <1>0, <1>2 DEF Acquire, Working, Closing, Inv, TypeOK, OperationInv
<1>3. CASE GiveBack(s)
  BY <1>0, <1>3 DEF GiveBack, Inv, TypeOK, OperationInv
<1>4. CASE EndService(s)
  <2>1. faults' \in 0 .. MaxFaults
    BY <1>4, SpendType DEF EndService, Inv, TypeOK
  <2>. QED  BY <1>0, <1>4, <2>1 DEF EndService, Working, Inv, TypeOK, OperationInv
<1>. QED  BY <1>1, <1>2, <1>3, <1>4 DEF Serve

LEMMA ServeInv == ASSUME Inv, NEW s \in Services, Serve(s) PROVE Inv'
<1>0. /\ UNCHANGED <<config, boot, pools, cancelled, shutdown>>
      /\ ~Ended /\ main' \in {main, "died"}
      /\ handler # "none"
      /\ service' \in [Services -> {"off", "starting", "running", "ended"}]
      /\ \A x \in Services : service'[x] = "off" <=> service[x] = "off"
      /\ holding' \subseteq Services
      /\ handler = "done" => holding' = {}
      /\ faults' \in 0 .. MaxFaults
  BY ServeStep
<1>. USE <1>0 DEF boot, shutdown
<1>1. TypeOK'
  BY DEF Inv, TypeOK, MainPCs, Ends
<1>2. AttemptInv' /\ BootedInv'
  BY DEF Inv, AttemptInv, BootedInv, OneAttempt
<1>3. QuietInv'
  BY DEF Inv, QuietInv, StartUp, Ends
<1>4. OperationInv'
  BY WantedIsKept DEF Inv, OperationInv, Ended, Ends
<1>. QED  BY <1>1, <1>2, <1>3, <1>4 DEF Inv

-----------------------------------------------------------------------------
(* The shutdown *)

LEMMA OperationFacts ==
    ASSUME TypeOK
    PROVE  /\ Operation \in Seq(Services \cup {"close", "closing"})
           /\ "historic" \in Wanted => Operation # << >> /\ Head(Operation) = "historic"
<1>. DEFINE S == Services \cup {"close", "closing"}
<1>1. config.mode \in {"boot", "head", "historic", "full"}
  BY ConfigType DEF AllModes
<1>2. {"head", "historic", "gaps", "close"} \subseteq S
  BY DEF Services
<1>3. CASE config.mode = "boot"
  <2>1. Operation = <<"close">> /\ Wanted = {}
    BY <1>3 DEF Operation, Wanted
  <2>. QED  BY <1>2, <2>1
<1>4. CASE config.mode = "head"
  <2>1. Operation = <<"head", "gaps", "close">> /\ "historic" \notin Wanted
    BY <1>4 DEF Operation, Wanted
  <2>. QED  BY <1>2, <2>1
<1>5. CASE config.mode = "historic"
  <2>1. Operation = <<"historic", "gaps", "close">>
    BY <1>5 DEF Operation
  <2>. QED  BY <1>2, <2>1
<1>6. CASE config.mode = "full"
  <2>1. Operation = <<"historic", "gaps", "head", "close">>
    BY <1>6 DEF Operation
  <2>. QED  BY <1>2, <2>1
<1>. QED  BY <1>1, <1>3, <1>4, <1>5, <1>6

LEMMA HandlerStepInv == ASSUME Inv, Handler PROVE Inv'
<1>0. /\ UNCHANGED <<config, main, boot, pools, running, faults>>
      /\ ~Ended
      /\ handler # "none" /\ handler' \notin {"none", "done"} /\ handler # "done"
      /\ handler' \in {"listening", "working"}
      /\ timer' \in {"off", "set", "elapsed"}
  BY DEF Handler, Listen, TakeSignal, TimeLimit, Inv, TypeOK
<1>1. \/ handler' = "listening" /\ todo' = << >> /\ todo = << >>
      \/ handler' = "working" /\ todo' = Operation
      \/ UNCHANGED <<handler, todo>>
  BY DEF Handler, Listen, TakeSignal, TimeLimit, Inv, OperationInv
<1>2. TypeOK'
  BY <1>0, <1>1, OperationFacts DEF Inv, TypeOK, boot, running
<1>3. AttemptInv' /\ BootedInv'
  BY <1>0 DEF Inv, AttemptInv, BootedInv, OneAttempt, boot
<1>4. QuietInv'
  BY <1>0 DEF Inv, QuietInv, running
<1>5. OperationInv'
  BY <1>0, <1>1, OperationFacts, WantedIsKept
  DEF Inv, OperationInv, running, boot, Ended, Ends
<1>. QED  BY <1>2, <1>3, <1>4, <1>5 DEF Inv

\* Something is to be done only while the operation is at work.
LEMMA DoingFacts ==
    ASSUME Inv, NEW op, Doing(op)
    PROVE  /\ handler = "working" /\ ~Ended
           /\ Tail(todo) \in Seq(Services \cup {"close", "closing"})
BY HeadTailProperties DEF Inv, TypeOK, OperationInv, Doing

LEMMA OperateInv == ASSUME Inv, Operate PROVE Inv'
<1>1. ASSUME NEW s \in Batch, StopBatch(s) PROVE Inv'
  <2>. USE <1>1 DEF StopBatch, boot
  <2>0. handler = "working" /\ ~Ended /\ Tail(todo) \in Seq(Services \cup {"close", "closing"})
    BY DoingFacts
  <2>1. TypeOK'
    BY <2>0 DEF Inv, TypeOK, MainPCs, Ends
  <2>2. AttemptInv' /\ BootedInv' /\ QuietInv'
    BY <2>0 DEF Inv, AttemptInv, BootedInv, OneAttempt, QuietInv, StartUp, Ends
  <2>3. "historic" \in Wanted =>
            "historic" \in cancelled' \/ (todo' # << >> /\ Head(todo') = "historic")
    BY <2>0 DEF Inv, OperationInv, Doing, Batch, Services
  <2>4. OperationInv'
    BY <2>0, <2>3, WantedIsKept DEF Inv, OperationInv, Ended, Ends
  <2>. QED  BY <2>1, <2>2, <2>4 DEF Inv
<1>2. CASE StopHead \/ Close
  <2>. USE <1>2 DEF StopHead, Close, boot, running
  <2>0. handler = "working" /\ ~Ended /\ Tail(todo) \in Seq(Services \cup {"close", "closing"})
    BY DoingFacts
  <2>1. TypeOK'
    <3>1. todo' \in Seq(Services \cup {"close", "closing"})
      <4>1. todo' \in {todo, Tail(todo), <<"closing">>}
        OBVIOUS
      <4>2. <<"closing">> \in Seq(Services \cup {"close", "closing"})
        OBVIOUS
      <4>. QED  BY <2>0, <4>1, <4>2 DEF Inv, TypeOK
    <3>2. main' \in MainPCs
      BY DEF Inv, TypeOK, MainPCs, Ends
    <3>. QED  BY <3>1, <3>2 DEF Inv, TypeOK
  <2>2. AttemptInv' /\ BootedInv' /\ QuietInv'
    BY <2>0 DEF Inv, AttemptInv, BootedInv, OneAttempt, QuietInv, StartUp, Ends
  <2>3. "historic" \in Wanted => "historic" \in cancelled'
    BY <2>0 DEF Inv, OperationInv, Doing
  <2>4. OperationInv'
    BY <2>0, <2>3, WantedIsKept DEF Inv, OperationInv, Ended, Ends
  <2>. QED  BY <2>1, <2>2, <2>4 DEF Inv
<1>3. CASE Closed
  <2>. USE <1>3 DEF Closed, boot, running
  <2>0. handler = "working" /\ ~Ended
    BY DoingFacts
  <2>1. TypeOK'
    BY <2>0 DEF Inv, TypeOK
  <2>2. main \notin StartUp
    BY <2>0 DEF Inv, QuietInv
  <2>3. AttemptInv' /\ BootedInv' /\ QuietInv'
    BY <2>0, <2>2 DEF Inv, AttemptInv, BootedInv, OneAttempt, QuietInv, StartUp, MainPCs, Ends
  <2>4. "historic" \in Wanted => "historic" \in cancelled'
    BY <2>0 DEF Inv, OperationInv, Doing
  <2>5. OperationInv'
    BY <2>0, <2>4, WantedIsKept DEF Inv, OperationInv, Ended, Ends
  <2>. QED  BY <2>1, <2>3, <2>5 DEF Inv
<1>. QED  BY <1>1, <1>2, <1>3 DEF Operate

LEMMA EndInv == ASSUME Inv, Finish \/ SignalKills PROVE Inv'
<1>1. /\ UNCHANGED <<config, boot, pools, running, shutdown, faults>>
      /\ main' \in {"graceful", "ungraceful", "killed"}
      /\ main' = "graceful" => handler = "done"
  BY DEF Finish, FinishGraceful, FinishUngraceful, SignalKills, MainStep
<1>. USE <1>1 DEF boot, running, shutdown
<1>2. TypeOK'
  BY DEF Inv, TypeOK, MainPCs, Ends
<1>3. AttemptInv' /\ BootedInv' /\ QuietInv'
  BY DEF Inv, AttemptInv, BootedInv, QuietInv, StartUp, Ends
<1>4. OperationInv'
  BY WantedIsKept DEF Inv, OperationInv
<1>. QED  BY <1>2, <1>3, <1>4 DEF Inv

-----------------------------------------------------------------------------

LEMMA NextInv == ASSUME Inv, [Next]_vars PROVE Inv'
<1>1. CASE Boot
  BY <1>1, AttemptingInv, StartingInv, LaunchInv DEF Boot, Attempting, Starting
<1>2. CASE Handler \/ Operate \/ Finish \/ SignalKills
  BY <1>2, HandlerStepInv, OperateInv, EndInv
<1>3. CASE \E s \in Services : Serve(s)
  BY <1>3, ServeInv
<1>4. CASE UNCHANGED vars
  <2>. USE <1>4 DEF vars, boot, running, shutdown
  <2>1. TypeOK' /\ AttemptInv' /\ BootedInv' /\ QuietInv'
    BY DEF Inv, TypeOK, AttemptInv, BootedInv, OneAttempt, QuietInv
  <2>2. OperationInv'
    BY WantedIsKept DEF Inv, OperationInv
  <2>. QED  BY <2>1, <2>2 DEF Inv
<1>. QED  BY <1>1, <1>2, <1>3, <1>4 DEF Next

LEMMA SpecInv == Spec => []Inv
BY InitInv, NextInv, PTL DEF Spec

\* Every variable has its type at all times (TypeOK).
THEOREM TypeCorrect == Spec => []TypeOK
<1>1. Inv => TypeOK
  BY DEF Inv
<1>. QED  BY <1>1, SpecInv, PTL

\* With any number of retries the services run on the client and the pool of
\* one and the same attempt, the last, which passed all its checks
\* (BootApplicationWithRetry).
THEOREM OneAttemptServes == Spec => []RunsOnOneAttempt
<1>1. Inv => RunsOnOneAttempt
  BY DEF Inv, BootedInv, OneAttempt, RunsOnOneAttempt
<1>. QED  BY <1>1, SpecInv, PTL

\* An end that is logged as graceful leaves no connection out, no pool open
\* and no historical processing uncancelled (ShutdownServices).
THEOREM GracefulIsReleased == Spec => []GracefulMeansReleased
<1>1. Inv => GracefulMeansReleased
  BY DEF Inv, OperationInv, GracefulMeansReleased
<1>. QED  BY <1>1, SpecInv, PTL

=============================================================================
