---------------------------- MODULE StartUpProofs ----------------------------
(***************************************************************************)
(* Proofs about StartUp and InformerFactory, for any informers, factories, *)
(* other users of the factories, options and outages.                      *)
(***************************************************************************)
EXTENDS StartUp, TLAPS

-----------------------------------------------------------------------------
(* What only ever grows, and what never changes.                           *)
Grows ==
  /\ UNCHANGED <<home, options>>
  /\ Made \subseteq Made' /\ started \subseteq started' /\ synced \subseteq synced'
  /\ shuttingDown \subseteq shuttingDown' /\ (stopped => stopped')

LEMMA InformerForGrows == \A S : InformerFor(S) => Made \subseteq Made'
BY DEF InformerFor, Made

LEMMA NewInformerType ==
  ASSUME NEW i PROVE NewInformer(ResyncPeriod(i)) \in Informer
BY DEF NewInformer, ResyncPeriod, Informer, Resyncs

(* Every informer that is asked for is made.                               *)
LEMMA AskedIsMade == ASSUME NEW S, InformerFor(S) PROVE S \cap Informers \subseteq Made'
<1>1. \A i : NewInformer(ResyncPeriod(i)) # NoInformer
  BY NewInformerType, FactoryAssumption
<1> QED BY <1>1 DEF InformerFor, Made

LEMMA MainGrows == Main \/ Fail => Grows
<1> USE DEF Grows, Go, OthersOfMain, factoryVars, lifeVars
<1>1. Validate \/ Configure \/ ResolveIdentities \/ Exit \/ Fail => Grows
  BY DEF Validate, Configure, ResolveIdentities, Exit, Fail, Made
<1>2. Install \/ BuildWorkspaces \/ BuildServer => Grows
  BY InformerForGrows DEF Install, BuildWorkspaces, BuildServer, AskFor
<1>3. StartFactories => Grows
  BY DEF StartFactories, StartFactory, EnterStart, LeaveStart, StartRefused, LoopInStart, SkipCache,
         BeginStart, Launch, Mark, EndStart, Made
<1>4. WaitForFactories \/ StartControllers => Grows
  BY DEF WaitForFactories, WaitFor, SkipCache, StartControllers, Made
<1> QED BY <1>1, <1>2, <1>3, <1>4 DEF Main

LEMMA GoroutinesGrow == Controller \/ Hook \/ ReconcilerEnds => Grows
<1> USE DEF Grows, OthersOfGoroutine, factoryVars, lifeVars
<1>1. Controller => Grows
  BY InformerForGrows DEF Controller, ControllerRuns, ControllerEnds, Made
<1>2. Hook => Grows
  <2>1. HookBegins => Grows
    BY InformerForGrows DEF HookBegins
  <2>2. ASSUME NEW i \in left, HookWaits(i) PROVE Grows
    BY <2>2 DEF HookWaits, Made
  <2>3. HookGivesUp \/ HookStartsReconciler \/ HookReturns => Grows
    BY DEF HookGivesUp, HookStartsReconciler, HookReturns, Made
  <2> QED BY <2>1, <2>2, <2>3 DEF Hook
<1>3. ReconcilerEnds => Grows
  BY DEF ReconcilerEnds, Made
<1> QED BY <1>1, <1>2, <1>3

LEMMA EnvironmentGrows ==
  Signal \/ StopHooks \/ (\E i \in Informers : InformerSyncs(i) \/ InformerReturns(i))
  \/ (\E u \in Users : UserActs(u) \/ UserGoesOn(u)) => Grows
<1> USE DEF Grows, factoryVars, lifeVars, runVars
<1>1. Signal \/ StopHooks => Grows
  BY DEF Signal, StopHooks, Made
<1>2. (\E i \in Informers : InformerSyncs(i) \/ InformerReturns(i)) => Grows
  BY DEF InformerSyncs, InformerReturns, Sync, Return, Made
<1>3. (\E u \in Users : UserActs(u)) => Grows
  <2>1. ASSUME NEW u \in Users, UserAsks(u), UNCHANGED runVars PROVE Grows
    BY <2>1, InformerForGrows DEF UserAsks
  <2>2. ASSUME NEW u \in Users, UserStarts(u) \/ UserWaits(u) \/ UserShutsDown(u), UNCHANGED runVars
        PROVE  Grows
    BY <2>2 DEF UserStarts, UserWaits, UserShutsDown, BeginStart, Made
  <2> QED BY <2>1, <2>2 DEF UserActs, UserCalls
<1>4. (\E u \in Users : UserGoesOn(u)) => Grows
  BY DEF UserGoesOn, UserReturns, UserLoops, UserStarted, UserWaited, UserHasShutDown, Launch, Mark,
         EndStart, Made
<1> QED BY <1>1, <1>2, <1>3, <1>4

LEMMA StepGrows == [Next]_vars => Grows
<1>1. UNCHANGED vars => Grows
  BY DEF vars, factoryVars, lifeVars, runVars, Grows, Made
<1> QED BY <1>1, MainGrows, GoroutinesGrow, EnvironmentGrows DEF Next

-----------------------------------------------------------------------------
(* Workers.  The hook has found synced whatever it no longer waits for.    *)
HookInv ==
  /\ hook = "waits" => Own \ left \subseteq synced
  /\ hook = "started" /\ ~hookStopped => reconciler = "runs"
  /\ ready = (hook = "done")

WorkersInv == HookInv /\ WorkersSeeFullCaches /\ ReadyMeansStarted

LEMMA InitWorkers == Init => WorkersInv
BY DEF Init, WorkersInv, HookInv, WorkersSeeFullCaches, ReadyMeansStarted

LEMMA StepWorkers == WorkersInv /\ [Next]_vars => WorkersInv'
<1> SUFFICES ASSUME WorkersInv, [Next]_vars PROVE WorkersInv'
  OBVIOUS
<1> USE DEF WorkersInv, HookInv, WorkersSeeFullCaches, ReadyMeansStarted
<1>1. synced \subseteq synced'
  BY StepGrows DEF Grows
<1>2. ASSUME UNCHANGED <<hook, left, reconciler, ready>>, controller' = "runs" => controller = "runs",
             hookStopped => hookStopped'
      PROVE  WorkersInv'
  BY <1>1, <1>2
<1>3. CASE Main \/ Fail
  <2>1. CASE StartControllers
    BY <1>1, <2>1 DEF StartControllers
  <2>2. CASE ~StartControllers
    BY <1>2, <1>3, <2>2
       DEF Main, Fail, Validate, Configure, ResolveIdentities, Install, BuildWorkspaces,
           BuildServer, AskFor, StartFactories, StartFactory, EnterStart, LeaveStart, StartRefused,
           LoopInStart, WaitForFactories, WaitFor, SkipCache, Exit, OthersOfMain
  <2> QED BY <2>1, <2>2
<1>4. CASE Controller
  BY <1>1, <1>4 DEF Controller, ControllerRuns, ControllerEnds, AllSynced, OthersOfGoroutine
<1>5. CASE Hook
  <2>1. CASE HookBegins
    BY <1>1, <2>1 DEF HookBegins, OthersOfGoroutine
  <2>2. CASE \E i \in left : HookWaits(i)
    BY <1>1, <2>2 DEF HookWaits, AllSynced, OthersOfGoroutine
  <2>3. CASE HookGivesUp
    BY <1>1, <2>3 DEF HookGivesUp, MayGiveUp, OthersOfGoroutine
  <2>4. CASE HookStartsReconciler
    BY <1>1, <2>4 DEF HookStartsReconciler, OthersOfGoroutine
  <2>5. CASE HookReturns
    BY <1>1, <2>5 DEF HookReturns, OthersOfGoroutine
  <2> QED BY <1>5, <2>1, <2>2, <2>3, <2>4, <2>5 DEF Hook
<1>6. CASE ReconcilerEnds
  BY <1>1, <1>6 DEF ReconcilerEnds, OthersOfGoroutine
<1>7. CASE \/ Signal \/ StopHooks \/ UNCHANGED vars
           \/ \E i \in Informers : InformerSyncs(i) \/ InformerReturns(i)
           \/ \E u \in Users : UserActs(u) \/ UserGoesOn(u)
  BY <1>2, <1>7 DEF Signal, StopHooks, InformerSyncs, InformerReturns, UserActs, UserGoesOn,
     runVars, vars
<1> QED BY <1>3, <1>4, <1>5, <1>6, <1>7 DEF Next

LEMMA WorkersAlways == Spec => []WorkersInv
BY InitWorkers, StepWorkers, PTL DEF Spec

(* No worker sees a cache that has not filled, whatever order informers    *)
(* list in and whenever the process is told to stop.                       *)
THEOREM WorkersStartOnFullCaches == Spec => []WorkersSeeFullCaches
<1>1. WorkersInv => WorkersSeeFullCaches
  BY DEF WorkersInv
<1> QED BY <1>1, WorkersAlways, PTL

(* A server that says it is ready runs the API reconciler, unless it is    *)
(* going down.                                                             *)
THEOREM ReadyIsStarted == Spec => []ReadyMeansStarted
<1>1. WorkersInv => ReadyMeansStarted
  BY DEF WorkersInv
<1> QED BY <1>1, WorkersAlways, PTL
-----------------------------------------------------------------------------
(* Requests.  Run asks for the informers before it starts the factories,   *)
(* and serves only when it has waited for each of them.                    *)
WaitedCache     == {"controllers", "serve"}
WaitedFiltered  == WaitedCache \cup {"waitCache"}
WaitedLocal     == WaitedFiltered \cup {"waitFiltered"}
StartedCache    == WaitedLocal \cup {"waitLocal"}
StartedFiltered == StartedCache \cup {"startCache"}
StartedLocal    == StartedFiltered \cup {"startFiltered"}
AskedAll        == StartedLocal \cup {"startLocal", "server"}

NeededOf(f) == ForRequests \cap Of(f)

Homes ==
  \A i \in ForRequests :
    i \in Informers /\ (i \in Of(Local) \/ i \in Of(Filtered) \/ (i \in Of(Cache) /\ cacheEnabled))

StartsInv ==
  /\ main \in StartedLocal => NeededOf(Local) \subseteq started
  /\ main \in StartedFiltered => NeededOf(Filtered) \subseteq started
  /\ main \in StartedCache /\ cacheEnabled => NeededOf(Cache) \subseteq started

WaitsInv ==
  /\ main \in WaitedLocal => NeededOf(Local) \subseteq synced
  /\ main \in WaitedFiltered => NeededOf(Filtered) \subseteq synced
  /\ main \in WaitedCache /\ cacheEnabled => NeededOf(Cache) \subseteq synced

RunInv ==
  /\ Homes
  /\ main \in AskedAll => ForRequests \subseteq Made
  /\ shuttingDown = {} => StartsInv
  /\ shuttingDown = {} /\ ~stopped => WaitsInv

LEMMA InitRun == Init => RunInv
BY ProgramAssumption
   DEF Init, RunInv, Homes, StartsInv, WaitsInv, WaitedCache, WaitedFiltered, WaitedLocal,
       StartedCache, StartedFiltered, StartedLocal, AskedAll, ForRequests, ForAuthorizers, ForAdmission, Of

(* The steps of anything but Run.                                          *)
LEMMA MainStays ==
  ASSUME RunInv, Grows, main' = main \/ main' = "exited" PROVE RunInv'
<1>1. Homes'
  BY DEF RunInv, Grows, Homes, Of, cacheEnabled
<1>2. \A f : NeededOf(f)' = NeededOf(f)
  BY DEF Grows, NeededOf, Of
<1>3. cacheEnabled' = cacheEnabled
  BY DEF Grows, cacheEnabled
<1> USE DEF WaitedCache, WaitedFiltered, WaitedLocal, StartedCache, StartedFiltered,
            StartedLocal, AskedAll
<1>4. main' \in AskedAll => ForRequests \subseteq Made'
  BY DEF RunInv, Grows
<1>5. StartsInv => StartsInv'
  BY <1>2, <1>3 DEF Grows, StartsInv
<1>6. WaitsInv => WaitsInv'
  BY <1>2, <1>3 DEF Grows, WaitsInv
<1> QED BY <1>1, <1>4, <1>5, <1>6 DEF RunInv, Grows

(* A step of Run owes what the place it goes to asks for.                  *)
LEMMA MainGoes ==
  ASSUME RunInv, Grows,
         main' \in AskedAll => main \in AskedAll \/ ForRequests \subseteq Made',
         UNCHANGED <<shuttingDown, stopped>>,
         shuttingDown = {} =>
           /\ main' \in StartedLocal => main \in StartedLocal \/ NeededOf(Local) \subseteq started'
           /\ main' \in StartedFiltered =>
                main \in StartedFiltered \/ NeededOf(Filtered) \subseteq started'
           /\ main' \in StartedCache /\ cacheEnabled =>
                main \in StartedCache \/ NeededOf(Cache) \subseteq started',
         shuttingDown = {} /\ ~stopped =>
           /\ main' \in WaitedLocal => main \in WaitedLocal \/ NeededOf(Local) \subseteq synced'
           /\ main' \in WaitedFiltered =>
                main \in WaitedFiltered \/ NeededOf(Filtered) \subseteq synced'
           /\ main' \in WaitedCache /\ cacheEnabled =>
                main \in WaitedCache \/ NeededOf(Cache) \subseteq synced'
  PROVE  RunInv'
<1>1. Homes'
  BY DEF RunInv, Grows, Homes, Of, cacheEnabled
<1>2. \A f : NeededOf(f)' = NeededOf(f)
  BY DEF Grows, NeededOf, Of
<1>3. cacheEnabled' = cacheEnabled
  BY DEF Grows, cacheEnabled
<1>4. main' \in AskedAll => ForRequests \subseteq Made'
  BY DEF RunInv, Grows
<1>5. shuttingDown = {} => StartsInv'
  BY <1>2, <1>3 DEF RunInv, Grows, StartsInv
<1>6. shuttingDown = {} /\ ~stopped => WaitsInv'
  BY <1>2, <1>3 DEF RunInv, Grows, WaitsInv
<1> QED BY <1>1, <1>4, <1>5, <1>6 DEF RunInv

LEMMA MainRun == RunInv /\ (Main \/ Fail) => RunInv'
<1> SUFFICES ASSUME RunInv, Main \/ Fail PROVE RunInv'
  OBVIOUS
<1>1. Grows
  BY MainGrows
<1> USE DEF WaitedCache, WaitedFiltered, WaitedLocal, StartedCache, StartedFiltered,
            StartedLocal, AskedAll, Go, NextStep, At
<1>2. CASE Validate \/ Configure \/ ResolveIdentities \/ Exit \/ Fail
  BY <1>1, <1>2, MainGoes
     DEF Validate, Configure, ResolveIdentities, Exit, Fail, factoryVars, lifeVars, OthersOfMain
<1>3. CASE Install
  BY <1>1, <1>3, MainGoes DEF Install, lifeVars
<1>4. CASE BuildWorkspaces
  <2>1. ForRequests \subseteq Made'
    BY <1>4, AskedIsMade DEF BuildWorkspaces, AskFor, ForRequests, RunInv, Homes
  <2> QED BY <1>1, <1>4, <2>1, MainGoes DEF BuildWorkspaces, AskFor, lifeVars
<1>5. CASE BuildServer
  BY <1>1, <1>5, MainGoes DEF BuildServer, AskFor, lifeVars
<1>6. CASE StartFactories
  <2>1. ASSUME NEW f, NEW s, LeaveStart(s, f), s \in AskedAll
        PROVE  NeededOf(f) \subseteq started'
    BY <2>1 DEF LeaveStart, EndStart, ToStart, NeededOf, RunInv
  <2>2. ASSUME NEW f, NEW s, EnterStart(s, f) \/ LoopInStart PROVE RunInv'
    BY <1>1, <2>2, MainGoes DEF EnterStart, LoopInStart, BeginStart, Launch, Mark
  <2>3. ASSUME NEW f, NEW s, StartRefused(s, f)
        PROVE  shuttingDown # {} /\ UNCHANGED <<shuttingDown, stopped>>
    BY <2>3 DEF StartRefused, Refuses, factoryVars, lifeVars
  <2> USE DEF StartFactory, LeaveStart, EndStart, StartRefused
  <2>4. CASE StartFactory("startLocal", Local)
    BY <1>1, <2>1, <2>2, <2>3, <2>4, MainGoes
  <2>5. CASE StartFactory("startFiltered", Filtered)
    BY <1>1, <2>1, <2>2, <2>3, <2>5, MainGoes
  <2>6. CASE StartFactory("startCache", Cache)
    BY <1>1, <2>1, <2>2, <2>3, <2>6, MainGoes
  <2>7. CASE SkipCache("startCache")
    BY <1>1, <2>7, MainGoes DEF SkipCache, factoryVars, lifeVars
  <2> QED BY <1>6, <2>2, <2>4, <2>5, <2>6, <2>7 DEF StartFactories
<1>7. CASE WaitForFactories
  <2>1. ASSUME NEW f, NEW s, WaitFor(s, f), ~stopped, NeededOf(f) \subseteq started
        PROVE  NeededOf(f) \subseteq synced'
    BY <2>1 DEF WaitFor, Waited, ToWaitFor, NeededOf, factoryVars, lifeVars
  <2>2. shuttingDown = {} => StartsInv
    BY DEF RunInv
  <2>3. CASE WaitFor("waitLocal", Local)
    BY <1>1, <2>1, <2>2, <2>3, MainGoes DEF WaitFor, factoryVars, lifeVars, StartsInv
  <2>4. CASE WaitFor("waitFiltered", Filtered)
    BY <1>1, <2>1, <2>2, <2>4, MainGoes DEF WaitFor, factoryVars, lifeVars, StartsInv
  <2>5. CASE cacheEnabled /\ WaitFor("waitCache", Cache)
    BY <1>1, <2>1, <2>2, <2>5, MainGoes DEF WaitFor, factoryVars, lifeVars, StartsInv
  <2>6. CASE SkipCache("waitCache")
    BY <1>1, <2>6, MainGoes DEF SkipCache, factoryVars, lifeVars
  <2> QED BY <1>7, <2>3, <2>4, <2>5, <2>6 DEF WaitForFactories
<1>8. CASE StartControllers
  BY <1>1, <1>8, MainGoes DEF StartControllers, factoryVars, lifeVars
<1> QED BY <1>2, <1>3, <1>4, <1>5, <1>6, <1>7, <1>8 DEF Main

LEMMA StepRun == RunInv /\ [Next]_vars => RunInv'
<1>1. ASSUME RunInv, [Next]_vars, ~(Main \/ Fail) PROVE RunInv'
  <2>1. Grows
    BY <1>1, StepGrows
  <2>2. main' = main
    BY <1>1 DEF Next, Controller, ControllerRuns, ControllerEnds, Hook, HookBegins, HookWaits,
       HookGivesUp, HookStartsReconciler, HookReturns, ReconcilerEnds, OthersOfGoroutine,
       Signal, StopHooks, InformerSyncs, InformerReturns, UserActs, UserGoesOn, runVars, vars
  <2> QED BY <1>1, <2>1, <2>2, MainStays
<1> QED BY <1>1, MainRun

(* As long as nothing stops, requests are decided on caches that have      *)
(* filled, wherever the factories of the informers are.                    *)
THEOREM RequestsAwaitCaches == Spec => []RequestsSeeFullCaches
<1>1. RunInv => RequestsSeeFullCaches
  BY DEF RunInv, Homes, WaitsInv, RequestsSeeFullCaches, NeededOf, WaitedCache, WaitedFiltered,
         WaitedLocal
<1>2. RunInv /\ [Next]_vars => RunInv'
  BY StepRun
<1> QED BY <1>1, <1>2, InitRun, PTL DEF Spec

-----------------------------------------------------------------------------
(* Factories.  Whatever goroutine acts, a factory sees one of a few calls. *)
Asks ==
  /\ \E S : InformerFor(S)
  /\ UNCHANGED <<lifeVars, userVars>>

Starts ==
  /\ \E c \in Callers : (\E f \in Factories : BeginStart(c, f)) \/ Launch(c) \/ Mark(c) \/ EndStart(c)
  /\ \/ UNCHANGED user
     \/ \E u \in Users : \E s \in {"idle", "starts"} : user' = [user EXCEPT ![u] = s]
  /\ UNCHANGED awaited

Stops ==
  /\ stopped' = TRUE
  /\ UNCHANGED <<home, informers, started, running, inStart, launched, synced, shuttingDown,
                 shutDown, userVars>>

InformersAct == (\E i \in Informers : Sync(i) \/ Return(i)) /\ UNCHANGED userVars

UsersAct == \E u \in Users : UserWaits(u) \/ UserShutsDown(u) \/ UserWaited(u) \/ UserHasShutDown(u)

FactoryStep ==
  \/ Asks \/ Starts \/ Stops \/ InformersAct \/ UsersAct
  \/ UNCHANGED <<factoryVars, userVars>>

LEMMA MainFactoryStep == Main \/ Fail => FactoryStep
<1> USE DEF FactoryStep, OthersOfMain
<1>1. Validate \/ Configure \/ ResolveIdentities \/ Exit \/ Fail => FactoryStep
  BY DEF Validate, Configure, ResolveIdentities, Exit, Fail
<1>2. Install \/ BuildWorkspaces \/ BuildServer => FactoryStep
  BY DEF Install, BuildWorkspaces, BuildServer, AskFor, Asks
<1>3. StartFactories => FactoryStep
  <2>1. ASSUME NEW f \in Factories, NEW s, StartFactory(s, f) PROVE FactoryStep
    BY <2>1, ProgramAssumption DEF StartFactory, EnterStart, LeaveStart, StartRefused, Starts, userVars
  <2>2. LoopInStart => FactoryStep
    BY ProgramAssumption DEF LoopInStart, Starts, userVars
  <2> QED BY <2>1, <2>2, ProgramAssumption DEF StartFactories, SkipCache
<1>4. WaitForFactories \/ StartControllers => FactoryStep
  BY DEF WaitForFactories, WaitFor, SkipCache, StartControllers
<1> QED BY <1>1, <1>2, <1>3, <1>4 DEF Main

LEMMA StepFactoryStep == [Next]_vars => FactoryStep
<1>1. Controller \/ ReconcilerEnds => FactoryStep
  BY DEF Controller, ControllerRuns, ControllerEnds, ReconcilerEnds, OthersOfGoroutine,
         FactoryStep, Asks
<1>2. HookBegins => FactoryStep
  BY DEF HookBegins, OthersOfGoroutine, FactoryStep, Asks
<1>3. (\E i \in left : HookWaits(i)) \/ HookGivesUp \/ HookStartsReconciler \/ HookReturns
      => FactoryStep
  BY DEF HookWaits, HookGivesUp, HookStartsReconciler, HookReturns, OthersOfGoroutine, FactoryStep
<1>4. Signal \/ StopHooks => FactoryStep
  BY DEF Signal, StopHooks, FactoryStep, Stops
<1>5. (\E i \in Informers : InformerSyncs(i) \/ InformerReturns(i)) => FactoryStep
  BY DEF InformerSyncs, InformerReturns, FactoryStep, InformersAct
<1>6. (\E u \in Users : UserActs(u)) => FactoryStep
  <2>1. ASSUME NEW u \in Users, UserAsks(u) PROVE Asks
    BY <2>1 DEF UserAsks, Asks
  <2>2. ASSUME NEW u \in Users, UserStarts(u) PROVE Starts
    BY <2>2, FactoryAssumption DEF UserStarts, Starts
  <2> QED BY <2>1, <2>2 DEF UserActs, UserCalls, FactoryStep, UsersAct
<1>7. (\E u \in Users : UserGoesOn(u)) => FactoryStep
  <2>1. ASSUME NEW u \in Users, UserLoops(u) \/ UserStarted(u) PROVE Starts
    BY <2>1, FactoryAssumption DEF UserLoops, UserStarted, Starts, userVars
  <2> QED BY <2>1 DEF UserGoesOn, UserReturns, FactoryStep, UsersAct
<1>8. UNCHANGED vars => FactoryStep
  BY DEF vars, FactoryStep
<1> QED BY <1>1, <1>2, <1>3, <1>4, <1>5, <1>6, <1>7, <1>8, MainFactoryStep DEF Next, Hook

(* One caller holds a factory's lock, and not while the factory is         *)
(* shutting down.                                                          *)
LockInv ==
  /\ \A c, d \in Callers : InStart(c) /\ inStart[c] = inStart[d] => c = d
  /\ \A c \in Callers : InStart(c) => inStart[c] \notin shuttingDown

(* What runs is in startedInformers, or a caller that holds the lock is    *)
(* about to put it there.                                                  *)
LaunchInv ==
  /\ \A c \in Callers : launched[c] # {} => InStart(c) /\ launched[c] \subseteq ToStart(inStart[c])
  /\ \A i \in Informers : running[i] > 0 => i \in started \/ \E c \in Callers : i \in launched[c]

(* Who waits in Shutdown waits for a factory that is shutting down.        *)
ShutdownInv == \A u \in Users : user[u] = "shutsDown" => awaited[u] \subseteq shuttingDown

FactoryInv == FactoryTypeOK /\ LockInv /\ LaunchInv /\ ShutdownInv /\ RunsOnce /\ ShutdownIsFinal

LEMMA InitFactory == Init => FactoryInv
<1> SUFFICES ASSUME Init PROVE FactoryInv
  OBVIOUS
<1>1. home \in [Informers -> Factories]
  BY ProgramAssumption DEF Init
<1> USE DEF Init, FactoryInit
<1>2. FactoryTypeOK
  BY <1>1 DEF FactoryTypeOK, Made
<1>3. LockInv /\ LaunchInv
  BY DEF LockInv, LaunchInv, InStart
<1>4. ShutdownInv /\ RunsOnce /\ ShutdownIsFinal
  BY DEF ShutdownInv, RunsOnce, ShutdownIsFinal
<1> QED BY <1>2, <1>3, <1>4 DEF FactoryInv

(* The lock is what keeps two loops from running one informer.             *)
LEMMA LaunchOnce ==
  ASSUME FactoryInv, NEW c \in Callers, InStart(c), launched[c] = {}, NEW i \in ToStart(inStart[c])
  PROVE  running[i] = 0
<1>1. i \in Informers /\ home[i] = inStart[c] /\ i \notin started
  BY DEF ToStart, Of, Made
<1>2. ASSUME NEW d \in Callers, i \in launched[d] PROVE FALSE
  BY <1>1, <1>2 DEF FactoryInv, LockInv, LaunchInv, ToStart, Of
<1> QED BY <1>1, <1>2 DEF FactoryInv, FactoryTypeOK, LaunchInv

LEMMA StepStarts == FactoryInv /\ Starts => FactoryInv'
<1> SUFFICES ASSUME FactoryInv, Starts PROVE FactoryInv'
  OBVIOUS
<1> USE DEF FactoryInv, FactoryTypeOK, RunsOnce, ShutdownIsFinal
<1>1. user' \in [Users -> {"idle", "starts", "waits", "shutsDown"}] /\ awaited' = awaited
  BY DEF Starts
<1>2. \A u \in Users : user'[u] = "shutsDown" => user[u] = "shutsDown"
  BY DEF Starts
<1>3. PICK c \in Callers : (\E f \in Factories : BeginStart(c, f)) \/ Launch(c) \/ Mark(c) \/ EndStart(c)
  BY DEF Starts
<1>4. UNCHANGED <<home, informers, synced, shuttingDown, shutDown, stopped>>
  BY <1>3 DEF BeginStart, Launch, Mark, EndStart
<1>5. ShutdownInv'
  BY <1>1, <1>2, <1>4 DEF ShutdownInv
<1> USE DEF Made, Of, ToStart
<1>6. CASE \E f \in Factories : BeginStart(c, f)
  <2>1. PICK f \in Factories : BeginStart(c, f)
    BY <1>6
  <2>2. f # NoFactory
    BY FactoryAssumption
  <2>3. LockInv'
    BY <2>1, <2>2 DEF BeginStart, LockInv, LockFree, Refuses, InStart
  <2>4. LaunchInv'
    BY <2>1 DEF BeginStart, LaunchInv, InStart
  <2> QED BY <1>1, <1>4, <1>5, <2>1, <2>3, <2>4 DEF BeginStart
<1>7. CASE Launch(c)
  <2>1. PICK i \in ToStart(inStart[c]) : /\ running' = [running EXCEPT ![i] = @ + 1]
                                       /\ launched' = [launched EXCEPT ![c] = {i}]
    BY <1>7 DEF Launch
  <2>2. InStart(c) /\ launched[c] = {} /\ UNCHANGED <<started, inStart>>
    BY <1>7 DEF Launch
  <2>3. i \in Informers /\ home[i] = inStart[c] /\ inStart[c] \notin shuttingDown
    BY <2>2 DEF LockInv
  <2>4. running[i] = 0
    BY <2>2, LaunchOnce
  <2>5. running' \in [Informers -> Nat] /\ running'[i] = 1
        /\ \A j \in Informers \ {i} : running'[j] = running[j]
    BY <2>1, <2>3, <2>4
  <2>6. launched' \in [Callers -> SUBSET Made'] /\ launched'[c] = {i}
        /\ \A d \in Callers \ {c} : launched'[d] = launched[d]
    BY <1>4, <2>1, <2>3
  <2>7. LockInv'
    BY <1>4, <2>2 DEF LockInv, InStart
  <2>8. LaunchInv'
    BY <1>4, <2>1, <2>2, <2>5, <2>6 DEF LaunchInv, InStart
  <2>9. RunsOnce' /\ ShutdownIsFinal'
    BY <1>4, <2>3, <2>5
  <2> QED BY <1>1, <1>4, <1>5, <2>2, <2>5, <2>6, <2>7, <2>8, <2>9
<1>8. CASE Mark(c)
  <2>1. InStart(c) /\ launched[c] # {} /\ UNCHANGED <<running, inStart>>
    BY <1>8 DEF Mark
  <2>2. started' = started \cup launched[c]
    BY <1>8 DEF Mark
  <2>3. launched' \in [Callers -> SUBSET Made'] /\ launched'[c] = {}
        /\ \A d \in Callers \ {c} : launched'[d] = launched[d]
    BY <1>4, <1>8 DEF Mark
  <2>4. \A d \in Callers \ {c} : launched[d] \cap launched[c] = {}
    BY <2>1 DEF LaunchInv, LockInv
  <2>5. LaunchInv'
    BY <1>4, <2>1, <2>2, <2>3, <2>4 DEF LaunchInv, InStart
  <2>6. LockInv'
    BY <1>4, <2>1 DEF LockInv, InStart
  <2> QED BY <1>1, <1>4, <1>5, <2>1, <2>2, <2>3, <2>5, <2>6
<1>9. CASE EndStart(c)
  <2>1. LockInv' /\ LaunchInv'
    BY <1>9 DEF EndStart, LockInv, LaunchInv, InStart
  <2> QED BY <1>1, <1>4, <1>5, <1>9, <2>1 DEF EndStart
<1> QED BY <1>3, <1>6, <1>7, <1>8, <1>9

LEMMA StepFactory == FactoryInv /\ [Next]_vars => FactoryInv'
<1> SUFFICES ASSUME FactoryInv, FactoryStep PROVE FactoryInv'
  BY StepFactoryStep
<1> USE DEF FactoryInv, FactoryTypeOK, LockInv, LaunchInv, ShutdownInv, RunsOnce, ShutdownIsFinal,
            InStart, ToStart, Of, Made
<1>1. CASE Asks
  <2>1. PICK S : InformerFor(S)
    BY <1>1 DEF Asks
  <2>2. informers' \in [Informers -> Informer \cup {NoInformer}]
    BY <2>1, NewInformerType DEF InformerFor
  <2>3. Made \subseteq Made'
    BY <2>1, InformerForGrows
  <2> QED BY <1>1, <2>2, <2>3 DEF Asks, lifeVars, userVars
<1>2. CASE Starts
  BY <1>2, StepStarts
<1>3. CASE Stops
  BY <1>3 DEF Stops, userVars
<1>4. CASE InformersAct
  <2>1. PICK i \in Informers : Sync(i) \/ Return(i)
    BY <1>4 DEF InformersAct
  <2>2. CASE Sync(i)
    <3>1. i \in Made
      BY <2>2 DEF Sync
    <3> QED BY <1>4, <2>2, <3>1 DEF Sync, InformersAct, userVars
  <2>3. CASE Return(i)
    <3>1. running' \in [Informers -> Nat] /\ \A j \in Informers : running'[j] <= running[j]
      BY <2>3 DEF Return
    <3> QED BY <1>4, <2>3, <3>1 DEF Return, InformersAct, userVars
  <2> QED BY <2>1, <2>2, <2>3
<1>5. CASE UsersAct
  <2>1. PICK u \in Users : UserWaits(u) \/ UserShutsDown(u) \/ UserWaited(u) \/ UserHasShutDown(u)
    BY <1>5 DEF UsersAct
  <2>2. CASE UserWaits(u)
    BY <2>2 DEF UserWaits, ToWaitFor, factoryVars, lifeVars
  <2>3. CASE UserShutsDown(u)
    <3>1. PICK f \in Shared : /\ LockFree(f)
                              /\ shuttingDown' = shuttingDown \cup {f}
                              /\ awaited' = [awaited EXCEPT ![u] = {f}]
      BY <2>3 DEF UserShutsDown
    <3>2. f \in Factories
      BY FactoryAssumption
    <3>3. {f} \in (SUBSET Informers) \cup (SUBSET Factories)
      BY <3>2
    <3>4. awaited' \in [Users -> (SUBSET Informers) \cup (SUBSET Factories)]
      BY <3>1, <3>3
    <3>5. FactoryTypeOK'
      BY <2>3, <3>1, <3>2, <3>4 DEF UserShutsDown
    <3>6. ShutdownInv'
      BY <2>3, <3>1 DEF UserShutsDown
    <3>7. LockInv'
      BY <2>3, <3>1 DEF UserShutsDown, LockFree
    <3> QED BY <2>3, <3>5, <3>6, <3>7 DEF UserShutsDown
  <2>4. CASE UserWaited(u)
    BY <2>4 DEF UserWaited, factoryVars, lifeVars
  <2>5. CASE UserHasShutDown(u)
    BY <2>5 DEF UserHasShutDown, AllReturned
  <2> QED BY <2>1, <2>2, <2>3, <2>4, <2>5
<1>6. CASE UNCHANGED <<factoryVars, userVars>>
  BY <1>6 DEF factoryVars, lifeVars, userVars
<1> QED BY <1>1, <1>2, <1>3, <1>4, <1>5, <1>6 DEF FactoryStep

LEMMA FactoryAlways == Spec => []FactoryInv
BY InitFactory, StepFactory, PTL DEF Spec

(* Once Shutdown has returned, no informer of the factory runs any more,   *)
(* whoever calls Start, for any number of users and factories.             *)
THEOREM ShutdownEndsInformers == Spec => []ShutdownIsFinal
<1>1. FactoryInv => ShutdownIsFinal
  BY DEF FactoryInv
<1> QED BY <1>1, FactoryAlways, PTL

(* No two goroutines run one informer, whoever calls Start, and wherever   *)
(* the loops of other Starts are.                                          *)
THEOREM NoneRunsTwice == Spec => []RunsOnce
<1>1. FactoryInv => RunsOnce
  BY DEF FactoryInv
<1> QED BY <1>1, FactoryAlways, PTL

-----------------------------------------------------------------------------
(* Types.                                                                  *)
RunTypeOK ==
  /\ options \in CommandLines /\ unreachable \in Outages
  /\ main \in {"options", "config", "identities", "install"} \cup AskedAll
             \cup {"workspaces", "exited"}
  /\ controllers \subseteq {EndpointSlices}
  /\ controller \in {"off", "waits", "runs", "ended"}
  /\ hook \in {"off", "waits", "started", "done"}
  /\ left \subseteq Own /\ (left # {} => hook \in {"waits", "done"})
  /\ reconciler \in {"off", "runs", "ended"}
  /\ ready \in BOOLEAN /\ ready = (hook = "done")
  /\ hookStopped \in BOOLEAN /\ (hookStopped => stopped)

LEMMA StepRunType == RunTypeOK /\ [Next]_vars => RunTypeOK'
<1> SUFFICES ASSUME RunTypeOK, [Next]_vars PROVE RunTypeOK'
  OBVIOUS
<1>1. stopped => stopped'
  BY StepGrows DEF Grows
<1> USE DEF RunTypeOK, AskedAll, StartedLocal, StartedFiltered, StartedCache, WaitedLocal,
            WaitedFiltered, WaitedCache
<1>2. CASE Main \/ Fail
  <2> USE <1>1 DEF OthersOfMain, Go, At, NextStep
  <2>1. CASE Validate \/ Configure \/ ResolveIdentities \/ Exit \/ Fail
    BY <2>1 DEF Validate, Configure, ResolveIdentities, Exit, Fail
  <2>2. CASE Install \/ BuildWorkspaces \/ BuildServer
    BY <2>2 DEF Install, BuildWorkspaces, BuildServer, AskFor
  <2>3. CASE StartFactories
    BY <2>3 DEF StartFactories, StartFactory, EnterStart, LeaveStart, StartRefused, LoopInStart,
       SkipCache
  <2>4. CASE WaitForFactories
    BY <2>4 DEF WaitForFactories, WaitFor, SkipCache
  <2>5. CASE StartControllers
    BY <2>5 DEF StartControllers
  <2> QED BY <1>2, <2>1, <2>2, <2>3, <2>4, <2>5 DEF Main
<1>3. CASE Controller \/ ReconcilerEnds
  BY <1>1, <1>3 DEF Controller, ControllerRuns, ControllerEnds, ReconcilerEnds, OthersOfGoroutine
<1>4. CASE Hook
  <2> USE <1>1 DEF OthersOfGoroutine
  <2>1. CASE HookBegins
    BY <2>1 DEF HookBegins
  <2>2. CASE \E i \in left : HookWaits(i)
    BY <2>2 DEF HookWaits
  <2>3. CASE HookGivesUp \/ HookStartsReconciler \/ HookReturns
    BY <2>3 DEF HookGivesUp, HookStartsReconciler, HookReturns
  <2> QED BY <1>4, <2>1, <2>2, <2>3 DEF Hook
<1>5. CASE StopHooks
  BY <1>5 DEF StopHooks, factoryVars, lifeVars
<1>6. CASE \/ Signal \/ UNCHANGED vars
           \/ \E i \in Informers : InformerSyncs(i) \/ InformerReturns(i)
           \/ \E u \in Users : UserActs(u) \/ UserGoesOn(u)
  BY <1>1, <1>6 DEF Signal, InformerSyncs, InformerReturns, UserActs, UserGoesOn, runVars, vars
<1> QED BY <1>2, <1>3, <1>4, <1>5, <1>6 DEF Next

(* Every variable of the program and of its factories has a value of its   *)
(* type, and the goroutines are started in turn.                           *)
THEOREM TypeCorrect == Spec => []TypeOK
<1> USE DEF RunTypeOK, AskedAll, StartedLocal, StartedFiltered, StartedCache, WaitedLocal,
            WaitedFiltered, WaitedCache
<1>1. Init => RunTypeOK
  BY DEF Init, FactoryInit
<1>2. RunTypeOK /\ FactoryInv => TypeOK
  BY DEF FactoryInv, TypeOK
<1> QED BY <1>1, <1>2, StepRunType, FactoryAlways, PTL DEF Spec
=============================================================================
