------------------------------- MODULE StartUp -------------------------------
(***************************************************************************)
(* From Run (cmd/filtered-apiexport-vw/command) to the end of the process: *)
(* the main goroutine asks for informers, starts and awaits them, starts   *)
(* the registered controllers and serves; the post-start hook of the       *)
(* virtual workspace waits once more, starts the API reconciler and makes  *)
(* the server ready; the process may be asked to stop at any moment.       *)
(***************************************************************************)
EXTENDS InformerFactory

CONSTANTS
  Slices, Exports, Schemas, Bindings,  \* the four informers of the program
  Local, Filtered, Cache,              \* the factories of Run
  MainGoroutine,                       \* the goroutine of Run
  CommandLines,                        \* sets of options that may be given
  SystemIdentities,                    \* what resolveIdentities asks for
  Outages                              \* what servers may never answer: sets of
                                       \* informers, or these identities

ASSUME ProgramAssumption ==
  /\ {Slices, Exports, Schemas, Bindings} \subseteq Informers
  /\ {Local, Filtered, Cache} \subseteq Factories
  /\ MainGoroutine \in Callers \ Users
  /\ Outages \subseteq SUBSET (Informers \cup {SystemIdentities})

(* Options the command line must have: two flags are marked as required,   *)
(* Validate looks for four options, one of which is such a flag.  A cache  *)
(* server is used if its kubeconfig is given.                              *)
Required == {"shard-name", "shard-external-url", "local-shard-kubeconfig",
             "front-proxy-kubeconfig", "filtered-apiexport-vw-kubeconfig"}
CacheKubeconfig == "cache-kubeconfig"

Own == {Slices, Exports, Schemas, Bindings}

(* What each step of Run asks of the factories, through Informer() and     *)
(* Lister(): InstallIndexers and InstallControllers, the authorizers and   *)
(* the admission of NewVirtualWorkspaces, the API reconciler of NewServer. *)
ForControllers == {Slices, Exports}
ForAuthorizers == {Slices, Exports, Bindings}
ForAdmission   == {Slices, Bindings}
ForReconciler  == {Slices, Exports, Schemas}

(* What decides about a request of the virtual workspace.                  *)
ForRequests == ForAuthorizers \cup ForAdmission

VARIABLES
  options,      \* options that are given
  unreachable,  \* what no server ever answers
  main,         \* where Run is
  controllers,  \* names registered with the Reconciler
  controller,   \* runController of the endpoint slice controller
  hook,         \* the post-start hook
  left,         \* informers the hook has still to wait for
  reconciler,   \* apiReconciler.Start
  ready,        \* is readyCh closed?
  hookStopped   \* is the context of the hooks done?

runVars == <<options, unreachable, main, controllers, controller, hook, left,
             reconciler, ready, hookStopped>>
vars == <<factoryVars, userVars, runVars>>

EndpointSlices == "endpointslice"
cacheEnabled == CacheKubeconfig \in options

Init ==
  /\ options \in CommandLines
  /\ unreachable \in Outages
  /\ home = [i \in Informers |->
               IF i = Bindings THEN Local
               ELSE IF i \in {Exports, Schemas} THEN (IF cacheEnabled THEN Cache ELSE Local)
               ELSE Filtered]
  /\ FactoryInit
  /\ main = "options" /\ controllers = {} /\ controller = "off"
  /\ hook = "off" /\ left = {} /\ reconciler = "off"
  /\ ready = FALSE /\ hookStopped = FALSE

-----------------------------------------------------------------------------
(* Run.                                                                    *)

(* Mutant: the informers are started before the server is made.            *)
NextStepEarly(s) ==
  CASE s = "options" -> "config" [] s = "config" -> "identities" [] s = "identities" -> "install"
    [] s = "install" -> "startLocal"
    [] s = "startLocal" -> "startFiltered" [] s = "startFiltered" -> "startCache"
    [] s = "startCache" -> "workspaces"
    [] s = "workspaces" -> "server" [] s = "server" -> "waitLocal"
    [] s = "waitLocal" -> "waitFiltered" [] s = "waitFiltered" -> "waitCache"
    [] s = "waitCache" -> "controllers" [] s = "controllers" -> "serve"

(* Mutant: nothing is waited for before the controllers start.             *)
NextStepUnawaited(s) ==
  CASE s = "options" -> "config" [] s = "config" -> "identities" [] s = "identities" -> "install"
    [] s = "install" -> "workspaces" [] s = "workspaces" -> "server"
    [] s = "server" -> "startLocal"
    [] s = "startLocal" -> "startFiltered" [] s = "startFiltered" -> "startCache"
    [] s = "startCache" -> "controllers" [] s = "controllers" -> "serve"

(* The order of Run's steps.                                               *)
NextStep(s) ==
  CASE s = "options" -> "config" [] s = "config" -> "identities" [] s = "identities" -> "install"
    [] s = "install" -> "workspaces" [] s = "workspaces" -> "server"
    [] s = "server" -> "startLocal"
    [] s = "startLocal" -> "startFiltered" [] s = "startFiltered" -> "startCache"
    [] s = "startCache" -> "waitLocal"
    [] s = "waitLocal" -> "waitFiltered" [] s = "waitFiltered" -> "waitCache"
    [] s = "waitCache" -> "controllers" [] s = "controllers" -> "serve"

At(s) == main = s
Go(s) == main = s /\ main' = NextStep(s)
OthersOfMain == UNCHANGED <<options, unreachable, controller, hook, left, reconciler,
                            ready, hookStopped, userVars>>

(* Options.Validate lists what is missing; NewCommand runs nothing then.   *)
Validate ==
  /\ At("options")
  /\ main' = IF Required \subseteq options THEN NextStep("options") ELSE "exited"
  /\ UNCHANGED <<controllers, factoryVars>> /\ OthersOfMain

(* Kubeconfigs, client configurations and clients; the server's options.   *)
Configure ==
  /\ Go("config")
  /\ UNCHANGED <<controllers, factoryVars>> /\ OthersOfMain

(* An error of these, of options of the generic server, or of a later step *)
(* that makes clients or the server, ends the process, and so does a       *)
(* server that cannot listen: it runs no hook then.                        *)
Fail ==
  /\ \/ main \in {"options", "config", "install", "workspaces", "server"}
     \/ main = "serve" /\ hook = "off"
  /\ main' = "exited"
  /\ UNCHANGED <<controllers, factoryVars>> /\ OthersOfMain

(* Mutant: the poll knows no end but success.                              *)
PollsForEver == FALSE

PollEnds == stopped

(* resolveIdentities is polled until it succeeds or the process is to stop. *)
ResolveIdentities ==
  /\ At("identities")
  /\ \/ SystemIdentities \notin unreachable /\ main' = NextStep("identities")
     \/ PollEnds /\ main' = "exited"
  /\ UNCHANGED <<controllers, factoryVars>> /\ OthersOfMain

(* InstallIndexers, InstallControllers: registering a name twice fails.    *)
Install ==
  /\ At("install")
  /\ InformerFor(ForControllers)
  /\ IF EndpointSlices \in controllers
     THEN main' = "exited" /\ UNCHANGED controllers
     ELSE main' = NextStep("install") /\ controllers' = controllers \cup {EndpointSlices}
  /\ UNCHANGED lifeVars /\ OthersOfMain

AskFor(S) ==
  /\ InformerFor(S)
  /\ UNCHANGED <<lifeVars, controllers>> /\ OthersOfMain

(* NewVirtualWorkspaces: newAuthorizer and NewSelectorAdmission.           *)
BuildWorkspaces == Go("workspaces") /\ AskFor(ForAuthorizers \cup ForAdmission)

(* NewServer bootstraps the API set management: NewAPIReconciler.          *)
BuildServer == Go("server") /\ AskFor(ForReconciler)

(* Start: take the lock and loop, or find the factory shutting down.       *)
EnterStart(s, f) ==
  /\ At(s) /\ BeginStart(MainGoroutine, f)
  /\ UNCHANGED <<main, controllers>> /\ OthersOfMain

LoopInStart ==
  /\ Launch(MainGoroutine) \/ Mark(MainGoroutine)
  /\ UNCHANGED <<main, controllers>> /\ OthersOfMain

LeaveStart(s, f) ==
  /\ Go(s) /\ inStart[MainGoroutine] = f /\ EndStart(MainGoroutine)
  /\ UNCHANGED controllers /\ OthersOfMain

StartRefused(s, f) ==
  /\ Go(s) /\ ~InStart(MainGoroutine) /\ LockFree(f) /\ Refuses(f)
  /\ UNCHANGED <<controllers, factoryVars>> /\ OthersOfMain

StartFactory(s, f) == EnterStart(s, f) \/ LeaveStart(s, f) \/ StartRefused(s, f)

SkipCache(s) ==
  /\ Go(s) /\ ~cacheEnabled
  /\ UNCHANGED <<controllers, factoryVars>> /\ OthersOfMain

StartFactories ==
  \/ StartFactory("startLocal", Local)
  \/ StartFactory("startFiltered", Filtered)
  \/ cacheEnabled /\ StartFactory("startCache", Cache)
  \/ LoopInStart
  \/ SkipCache("startCache")

(* The result of WaitForCacheSync, which tells whether it waited in vain,  *)
(* is not looked at.  (Its informers are those started when it is called;  *)
(* one that a user starts meanwhile is waited for too in the model.)       *)
WaitFor(s, f) ==
  /\ Go(s) /\ LockFree(f) /\ Waited(ToWaitFor(f))
  /\ UNCHANGED <<controllers, factoryVars>> /\ OthersOfMain

WaitForFactories ==
  \/ WaitFor("waitLocal", Local)
  \/ WaitFor("waitFiltered", Filtered)
  \/ cacheEnabled /\ WaitFor("waitCache", Cache)
  \/ SkipCache("waitCache")

(* StartControllers: one goroutine for each controller registered.         *)
StartControllers ==
  /\ Go("controllers")
  /\ controller' = IF EndpointSlices \in controllers THEN "waits" ELSE "off"
  /\ UNCHANGED <<options, unreachable, controllers, hook, left, reconciler, ready,
                 hookStopped, factoryVars, userVars>>

(* RunWithContext returns once the hooks have been told to stop.           *)
Exit ==
  /\ At("serve") /\ hookStopped
  /\ main' = "exited"
  /\ UNCHANGED <<controllers, factoryVars>> /\ OthersOfMain

Main ==
  \/ Validate \/ Configure \/ ResolveIdentities \/ Install \/ BuildWorkspaces \/ BuildServer
  \/ StartFactories \/ WaitForFactories \/ StartControllers \/ Exit

-----------------------------------------------------------------------------
(* runController and the post-start hook.                                  *)

Alive == main # "exited"
OthersOfGoroutine == UNCHANGED <<options, unreachable, main, controllers, hookStopped,
                                 userVars>>

(* Mutant: one informer that has synced is enough.                         *)
AnySynced(S) == S \cap synced # {}

AllSynced(S) == S \subseteq synced

ControllerRuns ==
  /\ Alive /\ controller = "waits" /\ AllSynced(ForControllers)
  /\ InformerFor(ForControllers)
  /\ controller' = "runs"
  /\ UNCHANGED <<lifeVars, hook, left, reconciler, ready>>
  /\ OthersOfGoroutine

(* The wait ends with an error, and the controller never starts; or it has *)
(* run and its context is done.                                            *)
ControllerEnds ==
  /\ Alive /\ controller \in {"waits", "runs"} /\ stopped
  /\ controller' = "ended"
  /\ UNCHANGED <<factoryVars, hook, left, reconciler, ready>>
  /\ OthersOfGoroutine

HookBegins ==
  /\ At("serve") /\ hook = "off"
  /\ hook' = "waits" /\ left' = Own
  /\ InformerFor(Own)
  /\ UNCHANGED <<lifeVars, controller, reconciler, ready>>
  /\ OthersOfGoroutine

(* One WaitForNamedCacheSync, in the order of a Go map.                    *)
HookWaits(i) ==
  /\ Alive /\ hook = "waits" /\ i \in left /\ AllSynced({i})
  /\ left' = left \ {i}
  /\ UNCHANGED <<factoryVars, controller, hook, reconciler, ready>>
  /\ OthersOfGoroutine

(* Mutant: the hook goes on after a wait that failed.                      *)
MayGiveUpAnyTime == TRUE

MayGiveUp == hookStopped

(* Its context is done: an informer counts as not synced, and the deferred *)
(* close makes the server ready all the same.                              *)
HookGivesUp ==
  /\ Alive /\ hook = "waits" /\ left # {} /\ MayGiveUp
  /\ hook' = "done" /\ ready' = TRUE
  /\ UNCHANGED <<factoryVars, controller, left, reconciler>>
  /\ OthersOfGoroutine

HookStartsReconciler ==
  /\ Alive /\ hook = "waits" /\ left = {}
  /\ hook' = "started" /\ reconciler' = "runs"
  /\ UNCHANGED <<factoryVars, controller, left, ready>>
  /\ OthersOfGoroutine

HookReturns ==
  /\ Alive /\ hook = "started"
  /\ hook' = "done" /\ ready' = TRUE
  /\ UNCHANGED <<factoryVars, controller, left, reconciler>>
  /\ OthersOfGoroutine

ReconcilerEnds ==
  /\ Alive /\ reconciler = "runs" /\ hookStopped
  /\ reconciler' = "ended"
  /\ UNCHANGED <<factoryVars, controller, hook, left, ready>>
  /\ OthersOfGoroutine

Hook == HookBegins \/ (\E i \in left : HookWaits(i)) \/ HookGivesUp \/ HookStartsReconciler
        \/ HookReturns

Controller == ControllerRuns \/ ControllerEnds

-----------------------------------------------------------------------------
(* The environment: a signal, the server's drain that follows it, servers  *)
(* that answer lists, and other users of the factories.                    *)

Signal ==
  /\ Alive /\ ~stopped /\ stopped' = TRUE
  /\ UNCHANGED <<home, informers, started, running, inStart, launched, synced, shuttingDown,
                 shutDown, runVars, userVars>>

StopHooks ==
  /\ At("serve") /\ stopped /\ ~hookStopped /\ hookStopped' = TRUE
  /\ UNCHANGED <<options, unreachable, main, controllers, controller, hook, left,
                 reconciler, ready, factoryVars, userVars>>

InformerSyncs(i) == Alive /\ i \notin unreachable /\ Sync(i) /\ UNCHANGED <<runVars, userVars>>
InformerReturns(i) == Alive /\ Return(i) /\ UNCHANGED <<runVars, userVars>>
UserActs(u) == Alive /\ UserCalls(u) /\ UNCHANGED runVars
UserGoesOn(u) == Alive /\ UserReturns(u) /\ UNCHANGED runVars

Next ==
  \/ Main \/ Fail \/ Controller \/ Hook \/ ReconcilerEnds
  \/ Signal \/ StopHooks
  \/ \E i \in Informers : InformerSyncs(i) \/ InformerReturns(i)
  \/ \E u \in Users : UserActs(u) \/ UserGoesOn(u)

Spec == Init /\ [][Next]_vars

(* Goroutines are scheduled, servers that can be reached answer, and the   *)
(* generic API server drains.  Who wants a factory's lock gets it, however *)
(* often others take it: a sync.Mutex hands itself over to a goroutine     *)
(* that has waited for long.                                               *)
Fairness ==
  /\ SF_vars(Main) /\ SF_vars(Controller) /\ SF_vars(Hook) /\ WF_vars(ReconcilerEnds)
  /\ WF_vars(StopHooks)
  /\ \A i \in Informers : WF_vars(InformerSyncs(i))
  /\ \A u \in Users : WF_vars(UserGoesOn(u))

FairSpec == Spec /\ Fairness

-----------------------------------------------------------------------------
(* Correctness.                                                            *)

(* Every variable holds a value of its type; a goroutine that runs was     *)
(* started by the one before it.                                           *)
TypeOK ==
  /\ FactoryTypeOK
  /\ options \in CommandLines /\ unreachable \in Outages
  /\ main \in {"options", "config", "identities", "install", "workspaces", "server", "startLocal",
               "startFiltered", "startCache", "waitLocal", "waitFiltered", "waitCache",
               "controllers", "serve", "exited"}
  /\ controllers \subseteq {EndpointSlices}
  /\ controller \in {"off", "waits", "runs", "ended"}
  /\ hook \in {"off", "waits", "started", "done"}
  /\ left \subseteq Own /\ (left # {} => hook \in {"waits", "done"})
  /\ reconciler \in {"off", "runs", "ended"}
  /\ ready \in BOOLEAN /\ ready = (hook = "done")
  /\ hookStopped \in BOOLEAN /\ (hookStopped => stopped)

(* Workers only ever see caches that have filled: those of the API         *)
(* reconciler all four, those of the endpoint slice controller the two     *)
(* they read, also when the process is told to stop while it waits.        *)
WorkersSeeFullCaches ==
  /\ reconciler = "runs" => Own \subseteq synced
  /\ controller = "runs" => ForControllers \subseteq synced

(* As long as the process is not to stop, requests are authorized and      *)
(* admitted on full caches: every informer they read was asked for before  *)
(* the factories were started, and is among those that were waited for.    *)
(* (Run ignores what Start and WaitForCacheSync tell it: were a factory    *)
(* shut down by somebody else, Run would serve on empty caches.)           *)
RequestsSeeFullCaches ==
  main = "serve" /\ ~stopped /\ shuttingDown = {} => ForRequests \subseteq synced

(* "filtered-apiexport virtual workspace controllers are not started"      *)
(* (ReadyChecker): a server that says it is ready has started them, unless *)
(* it is going down.                                                       *)
ReadyMeansStarted == ready /\ ~hookStopped => reconciler = "runs"

(* Whenever all servers can be reached and nothing stops or fails, the     *)
(* server becomes ready with both controllers running: nobody waits for an *)
(* informer that nobody starts.                                            *)
ComesUp ==
  <>(\/ ready /\ reconciler = "runs" /\ controller = "runs"
     \/ stopped \/ main = "exited" \/ shuttingDown # {} \/ unreachable # {})

(* A signal ends the process, whatever it is waiting for.                  *)
GoesDown == stopped ~> main = "exited"
=============================================================================
