--------------------------- MODULE InformerFactory ---------------------------
(***************************************************************************)
(* Shared informer factories (sdk/client/informers/externalversions).      *)
(* Goroutines share a factory: they ask it for informers, start what they  *)
(* asked for, wait for the caches to fill, and shut it down.  Start takes  *)
(* the factory's lock, goes through its loop and releases the lock, step   *)
(* by step; what the other methods do under the lock is one action each,   *)
(* which needs the lock to be free; the two waits go on without it.  The   *)
(* kcp factories the program uses beside this one come from the same       *)
(* generator.                                                              *)
(***************************************************************************)
EXTENDS Naturals, FiniteSets

CONSTANTS
  Factories,
  Informers,      \* types informers exist for
  Callers,        \* goroutines that may call Start
  Users,          \* those that use factories in ways of their own,
  Shared,         \* and those factories
  NoFactory,      \* where a goroutine is not in Start
  DefaultResync,  \* resync period of a factory
  CustomResync,   \* periods given by WithCustomResyncConfig, by informer
  NoInformer      \* where no informer has been made

Resyncs == {DefaultResync} \cup {CustomResync[i] : i \in DOMAIN CustomResync}
Informer == [resync : Resyncs]

ASSUME FactoryAssumption ==
  /\ Shared \subseteq Factories /\ Users \subseteq Callers
  /\ NoFactory \notin Factories
  /\ DOMAIN CustomResync \subseteq Informers
  /\ NoInformer \notin Informer

VARIABLES
  home,         \* the factory of each informer
  informers,    \* the informers factories have made
  started,      \* startedInformers
  running,      \* how many goroutines of an informer have not returned: wg
  inStart,      \* the factory a caller holds the lock of, in Start
  launched,     \* what its loop runs and has not put into startedInformers
  synced,       \* informers that have listed: HasSynced
  shuttingDown, \* factories on which Shutdown was called
  shutDown,     \* factories of which some Shutdown has returned
  stopped,      \* is the stop channel (ctx.Done()) closed?
  user,         \* what each user is doing
  awaited       \* what it waits for: informers, or the factory to end

lifeVars    == <<home, started, running, inStart, launched, synced, shuttingDown, shutDown, stopped>>
factoryVars == <<informers, lifeVars>>
userVars    == <<user, awaited>>

Of(f) == {i \in Informers : home[i] = f}
Made  == {i \in Informers : informers[i] # NoInformer}

-----------------------------------------------------------------------------
(* Construction.                                                           *)

FactoryInit ==
  /\ informers = [i \in Informers |-> NoInformer]
  /\ started = {} /\ running = [i \in Informers |-> 0] /\ synced = {}
  /\ inStart = [c \in Callers |-> NoFactory]
  /\ launched = [c \in Callers |-> {}]
  /\ shuttingDown = {} /\ shutDown = {}
  /\ stopped = FALSE
  /\ user = [u \in Users |-> "idle"]
  /\ awaited = [u \in Users |-> {}]

-----------------------------------------------------------------------------
(* The methods.  Each leaves the variables it does not name unchanged.     *)

ResyncPeriod(i) == IF i \in DOMAIN CustomResync THEN CustomResync[i] ELSE DefaultResync

(* What the generated code passes as newFunc: an informer that lists and   *)
(* watches all objects of its type.                                        *)
NewInformer(period) == [resync |-> period]

(* Mutant: Start does without the lock.                                    *)
LockUnneeded(f) == f \in Factories

LockFree(f) == \A c \in Callers : inStart[c] # f

(* InformerFor each of S: one that exists is returned as it is.            *)
InformerFor(S) ==
  /\ \A i \in S : LockFree(home[i])
  /\ informers' = [i \in Informers |->
       IF i \in S /\ informers[i] = NoInformer
       THEN NewInformer(ResyncPeriod(i)) ELSE informers[i]]

(* Mutant: Start does not look at shuttingDown.                            *)
RefusesNever(f) == FALSE

(* Start returns at once when the factory is shutting down.                *)
Refuses(f) == f \in shuttingDown

(* Mutant: Start runs informers that nobody has asked for.                 *)
ToStartUnmade(f) == Of(f) \ started

(* What Start's loop has still to run: informers that were asked for and   *)
(* are not in startedInformers.                                            *)
ToStart(f) == (Made \cap Of(f)) \ started

InStart(c) == inStart[c] # NoFactory

BeginStart(c, f) ==
  /\ ~InStart(c) /\ LockFree(f) /\ ~Refuses(f)
  /\ inStart' = [inStart EXCEPT ![c] = f]
  /\ UNCHANGED <<home, informers, started, running, launched, synced, shuttingDown, shutDown,
                 stopped>>

(* wg.Add(1), and the goroutine that runs the informer.                    *)
Launch(c) ==
  /\ InStart(c) /\ launched[c] = {}
  /\ \E i \in ToStart(inStart[c]) :
       /\ running' = [running EXCEPT ![i] = @ + 1]
       /\ launched' = [launched EXCEPT ![c] = {i}]
  /\ UNCHANGED <<home, informers, started, inStart, synced, shuttingDown, shutDown, stopped>>

(* The end of the loop's body.                                             *)
Mark(c) ==
  /\ InStart(c) /\ launched[c] # {}
  /\ started' = started \cup launched[c]
  /\ launched' = [launched EXCEPT ![c] = {}]
  /\ UNCHANGED <<home, informers, running, inStart, synced, shuttingDown, shutDown, stopped>>

EndStart(c) ==
  /\ InStart(c) /\ launched[c] = {} /\ ToStart(inStart[c]) = {}
  /\ inStart' = [inStart EXCEPT ![c] = NoFactory]
  /\ UNCHANGED <<home, informers, started, running, launched, synced, shuttingDown, shutDown,
                 stopped>>

(* WaitForCacheSync waits for the informers started when it is called.     *)
ToWaitFor(f) == started \cap Of(f)

(* Mutant: the stop channel is not looked at.                              *)
SyncedOnly(S) == S \subseteq synced

Waited(S) == stopped \/ S \subseteq synced

(* wg.Wait() returns.                                                      *)
AllReturned(f) == \A i \in Of(f) : running[i] = 0

(* Goroutines of informers: a list that succeeds, and the end of Run.      *)
Sync(i) ==
  /\ running[i] > 0 /\ ~stopped
  /\ synced' = synced \cup {i}
  /\ UNCHANGED <<home, informers, started, running, inStart, launched, shuttingDown, shutDown,
                 stopped>>

Return(i) ==
  /\ running[i] > 0 /\ stopped
  /\ running' = [running EXCEPT ![i] = @ - 1]
  /\ UNCHANGED <<home, informers, started, inStart, launched, synced, shuttingDown, shutDown,
                 stopped>>

-----------------------------------------------------------------------------
(* What a user of the interface may do besides.                            *)

UserAsks(u) ==
  /\ user[u] = "idle"
  /\ \E f \in Shared : \E i \in Of(f) : informers[i] = NoInformer /\ InformerFor({i})
  /\ UNCHANGED <<lifeVars, userVars>>

UserStarts(u) ==
  /\ user[u] = "idle"
  /\ \E f \in Shared : BeginStart(u, f)
  /\ user' = [user EXCEPT ![u] = "starts"]
  /\ UNCHANGED awaited

UserLoops(u) ==
  /\ user[u] = "starts"
  /\ Launch(u) \/ Mark(u)
  /\ UNCHANGED userVars

UserStarted(u) ==
  /\ user[u] = "starts"
  /\ EndStart(u)
  /\ user' = [user EXCEPT ![u] = "idle"]
  /\ UNCHANGED awaited

UserWaits(u) ==
  /\ user[u] = "idle"
  /\ user' = [user EXCEPT ![u] = "waits"]
  /\ \E f \in Shared : LockFree(f) /\ awaited' = [awaited EXCEPT ![u] = ToWaitFor(f)]
  /\ UNCHANGED factoryVars

UserWaited(u) ==
  /\ user[u] = "waits" /\ Waited(awaited[u])
  /\ user' = [user EXCEPT ![u] = "idle"]
  /\ awaited' = [awaited EXCEPT ![u] = {}]
  /\ UNCHANGED factoryVars

UserShutsDown(u) ==
  /\ user[u] = "idle"
  /\ \E f \in Shared :
       /\ LockFree(f)
       /\ shuttingDown' = shuttingDown \cup {f}
       /\ awaited' = [awaited EXCEPT ![u] = {f}]
  /\ user' = [user EXCEPT ![u] = "shutsDown"]
  /\ UNCHANGED <<home, informers, started, running, inStart, launched, synced, shutDown, stopped>>

UserHasShutDown(u) ==
  /\ user[u] = "shutsDown"
  /\ \A f \in awaited[u] : AllReturned(f)
  /\ shutDown' = shutDown \cup awaited[u]
  /\ user' = [user EXCEPT ![u] = "idle"]
  /\ awaited' = [awaited EXCEPT ![u] = {}]
  /\ UNCHANGED <<home, informers, started, running, inStart, launched, synced, shuttingDown,
                 stopped>>

UserCalls(u) == UserAsks(u) \/ UserStarts(u) \/ UserWaits(u) \/ UserShutsDown(u)
UserReturns(u) == UserLoops(u) \/ UserStarted(u) \/ UserWaited(u) \/ UserHasShutDown(u)

-----------------------------------------------------------------------------
FactoryTypeOK ==
  /\ home \in [Informers -> Factories]
  /\ informers \in [Informers -> Informer \cup {NoInformer}]
  /\ running \in [Informers -> Nat]
  /\ inStart \in [Callers -> Factories \cup {NoFactory}]
  /\ launched \in [Callers -> SUBSET Made]
  /\ synced \subseteq Made /\ started \subseteq Made
  /\ shutDown \subseteq shuttingDown /\ shuttingDown \subseteq Factories
  /\ stopped \in BOOLEAN
  /\ user \in [Users -> {"idle", "starts", "waits", "shutsDown"}]
  /\ awaited \in [Users -> (SUBSET Informers) \cup (SUBSET Factories)]

(* "Start() [may] be called multiple times safely" (sharedInformerFactory): *)
(* of no informer do two goroutines run at once, whoever calls Start, also *)
(* while another Start is in its loop and has run an informer that it has  *)
(* not put into startedInformers yet.                                      *)
RunsOnce == \A i \in Informers : running[i] <= 1

(* "Shutdown blocks until all goroutines have terminated", and "no new     *)
(* informers can be started anymore": once it has returned, none of the    *)
(* factory's informers runs, whatever Start was called before, meanwhile   *)
(* or afterwards.                                                          *)
ShutdownIsFinal == \A f \in shutDown : \A i \in Of(f) : running[i] = 0
=============================================================================
