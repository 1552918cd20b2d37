---------------------------- MODULE LocalLeader ----------------------------
(***************************************************************************)
(* Who opens the engine on a local data directory: resolveDatabaseUrl() of *)
(* src/packages/client/src/local.ts, which elects a leader that serves the *)
(* others over the wire, and connectFile() of pglite.ts, which opens the   *)
(* directory for one process and pins what it opened for the next module   *)
(* reload.  Both stand on the lock file of DatadirLock.                    *)
(***************************************************************************)
EXTENDS DatadirLock

CONSTANTS
    Resolver,    \* callers that may call resolveDatabaseUrl()
    Connecter,   \* callers that may call connectFile()
    Patient      \* resolvers with no end of a timeoutMs

ASSUME LeaderAssumption ==
    /\ Resolver \cup Connecter = Caller
    /\ Patient \subseteq Resolver

VARIABLES
    role,     \* where each caller of one or the other stands
    elect,    \* the callers of resolveDatabaseUrl(); the rest call connectFile()
    engine,   \* the callers whose engine has the directory open
    pin,      \* per process, whose engine is pinned
    exit      \* per process, has a signal asked it to exit, and how did it go?

localVars == <<role, elect, engine, pin, exit>>
vars == <<lockVars, localVars>>

Init ==
    /\ LockInit
    /\ role = [c \in Caller |-> "new"]
    /\ elect = {}
    /\ engine = {}
    /\ pin = [p \in Process |-> None]
    /\ exit = [p \in Process |-> "no"]

(* The leader handles of a process: each has a listener for the signal,    *)
(* which no close() takes away.                                            *)
Handles(p) == {c \in elect : Home[c] = p /\ role[c] \in {"open", "stop", "release"}}

(* A close() that the signal has asked for is over: process.exit() is next.*)
Exiting(p) ==
    exit[p] = "asked" /\ \E c \in Handles(p) : role[c] = "release" /\ lk[c] = "done"

Is(c, r) == role[c] = r /\ Live(c) /\ ~Exiting(Home[c])

Become(c, r) == role' = [role EXCEPT ![c] = r]

----------------------------------------------------------------------------
(* resolveDatabaseUrl() is called ...                                      *)
Resolve(c) ==
    /\ c \in Resolver
    /\ Is(c, "new")
    /\ Become(c, "look")
    /\ elect' = elect \cup {c}
    /\ UNCHANGED <<lockVars, engine, pin, exit>>

(* ... and follows a live leader that has published its port,              *)
Follow(c) ==
    /\ Is(c, "look")
    /\ View = "live" /\ lockFile.port
    /\ Become(c, "follower")
    /\ UNCHANGED <<lockVars, elect, engine, pin, exit>>

(* waits for one that has not, until the deadline,                         *)
Tire(c) ==
    /\ Is(c, "look")
    /\ View = "live" /\ ~lockFile.port
    /\ c \notin Patient
    /\ Become(c, "failed")
    /\ UNCHANGED <<lockVars, elect, engine, pin, exit>>

(* or goes for the lock, if no record names a live process.                *)
Stand(c) ==
    /\ Is(c, "look")
    /\ View # "live"
    /\ Begin(c)
    /\ Become(c, "lock")
    /\ UNCHANGED <<elect, engine, pin, exit>>

(* connectFile(): an instance this process has pinned is used again ...    *)
Reuse(c) ==
    /\ c \in Connecter
    /\ Is(c, "new")
    /\ pin[Home[c]] # None
    /\ Become(c, "reused")
    /\ UNCHANGED <<lockVars, elect, engine, pin, exit>>

(* ... else the lock is needed.                                            *)
Connect(c) ==
    /\ c \in Connecter
    /\ Is(c, "new")
    /\ pin[Home[c]] = None
    /\ Begin(c)
    /\ Become(c, "lock")
    /\ UNCHANGED <<elect, engine, pin, exit>>

Acquiring(c) ==
    /\ Is(c, "lock")
    /\ AcquireStep(c)
    /\ UNCHANGED localVars

(* acquireDatadirLock() has thrown: the election looks again.              *)
Lose(c) ==
    /\ Is(c, "lock")
    /\ lk[c] = "gaveup"
    /\ \/ c \in elect /\ Become(c, "look")
       \/ c \notin elect \cap Patient /\ Become(c, "failed")
    /\ UNCHANGED <<lockVars, elect, engine, pin, exit>>

----------------------------------------------------------------------------
(* PGlite.create(), and for a leader the wire.  The pin is set only now.   *)
Open(c) ==
    /\ Is(c, "lock")
    /\ lk[c] = "held"
    /\ engine' = engine \cup {c}
    /\ IF c \in elect THEN Become(c, "publish") /\ UNCHANGED pin
                      ELSE Become(c, "open") /\ pin' = [pin EXCEPT ![Home[c]] = c]
    /\ UNCHANGED <<lockVars, elect, exit>>

OpenFails(c) ==
    /\ Is(c, "lock")
    /\ lk[c] = "held"
    /\ Release(c)
    /\ Become(c, "undo")
    /\ UNCHANGED <<elect, engine, pin, exit>>

(* The leader writes its port into its record, in the two steps of         *)
(* writeFile(); if that throws, nobody closes what has been opened.        *)
Publish(c) ==
    /\ Is(c, "publish")
    /\ \/ Truncate(c) /\ UNCHANGED role
       \/ Rewrite(c) /\ Become(c, IF lk'[c] = "held" THEN "open" ELSE "failed")
    /\ UNCHANGED <<elect, engine, pin, exit>>

Unpin(c) == IF c \in elect THEN pin ELSE [pin EXCEPT ![Home[c]] = None]

(* Wrong: the pin outlives the engine.                                     *)
CloseKeepsPin(c) ==
    /\ Is(c, "open")
    /\ Become(c, "stop")
    /\ UNCHANGED <<lockVars, elect, engine, pin, exit>>

(* close() of a leader, end() of the client that opened the engine.        *)
Close(c) ==
    /\ Is(c, "open")
    /\ Become(c, "stop")
    /\ pin' = Unpin(c)
    /\ UNCHANGED <<lockVars, elect, engine, exit>>

(* Wrong: the lock is released before the engine is closed.                *)
ReleaseFirst(c) ==
    /\ Is(c, "stop")
    /\ Release(c)
    /\ Become(c, "release")
    /\ UNCHANGED <<elect, engine, pin, exit>>

(* The engine is closed, then the lock released.                           *)
Shut(c) ==
    /\ Is(c, "stop")
    /\ engine' = engine \ {c}
    /\ Release(c)
    /\ Become(c, "release")
    /\ UNCHANGED <<elect, pin, exit>>

Releasing(c) ==
    /\ Is(c, "release") \/ Is(c, "undo")
    /\ ReleaseStep(c)
    /\ UNCHANGED localVars

----------------------------------------------------------------------------
Dies(p) ==
    /\ Crash(p)
    /\ engine' = {c \in engine : Home[c] # p}
    /\ pin' = [pin EXCEPT ![p] = None]
    /\ UNCHANGED <<role, elect>>

Killed(p) == Dies(p) /\ UNCHANGED exit

(* SIGINT or SIGTERM: every listener calls close(), and the first close()  *)
(* that is over ends the process.                                          *)
Signal(p) ==
    /\ alive[p]
    /\ exit[p] = "no"
    /\ Handles(p) # {}
    /\ \A c \in Handles(p) : role[c] = "open"
    /\ exit' = [exit EXCEPT ![p] = "asked"]
    /\ role' = [c \in Caller |-> IF c \in Handles(p) THEN "stop" ELSE role[c]]
    /\ UNCHANGED <<lockVars, elect, engine, pin>>

(* A close() called before returns at once, finished or not.               *)
SignalTooLate(p) ==
    /\ exit[p] = "no"
    /\ \E c \in Handles(p) : role[c] # "open"
    /\ Dies(p)
    /\ exit' = [exit EXCEPT ![p] = "early"]

(* Wrong: the process ends when the engine is closed.                      *)
QuitOnShut(p) ==
    /\ exit[p] = "asked"
    /\ \E c \in Handles(p) : role[c] = "release"
    /\ Dies(p)
    /\ exit' = [exit EXCEPT ![p] = "clean"]

Quit(p) ==
    /\ Exiting(p)
    /\ Dies(p)
    /\ exit' = [exit EXCEPT ![p] = "clean"]

Ages == TimePasses /\ UNCHANGED localVars

----------------------------------------------------------------------------
Electing(c) == Follow(c) \/ Tire(c) \/ Stand(c) \/ Lose(c)

Opening(c) == Open(c) \/ OpenFails(c) \/ Publish(c)

Closing(c) == Shut(c) \/ Releasing(c)

CallerStep(c) ==
    \/ Resolve(c) \/ Reuse(c) \/ Connect(c)
    \/ Electing(c) \/ Acquiring(c) \/ Opening(c)
    \/ Close(c) \/ Closing(c)

ProcessStep(p) == Killed(p) \/ Signal(p) \/ SignalTooLate(p) \/ Quit(p)

Next ==
    \/ \E c \in Caller : CallerStep(c)
    \/ \E p \in Process : ProcessStep(p)
    \/ Ages

GiveUp(c) == Acquiring(c) /\ lk'[c] = "gaveup"

Get == \E c \in Caller : Acquiring(c) /\ lk'[c] = "held"

(* What has been called goes on, time passes, and so do the two seconds an *)
(* election gives one acquireDatadirLock(); a file system does not fail for*)
(* ever; nobody need close.                                                *)
Fairness ==
    /\ \A c \in Caller : WF_vars(Electing(c) \/ Acquiring(c) \/ Opening(c) \/ Closing(c))
    /\ \A c \in Patient : SF_vars(GiveUp(c))
    /\ SF_vars(Get)
    /\ \A p \in Process : WF_vars(Quit(p))
    /\ WF_vars(Ages)

Spec == Init /\ [][Next]_vars /\ Fairness

----------------------------------------------------------------------------
Roles == {"new", "look", "lock", "publish", "open", "stop", "release", "undo",
          "follower", "reused", "failed"}

TypeOK ==
    /\ LockTypeOK
    /\ role \in [Caller -> Roles]
    /\ elect \subseteq Caller
    /\ engine \subseteq Caller
    /\ pin \in [Process -> Caller \cup {None}]
    /\ exit \in [Process -> {"no", "asked", "clean", "early"}]

(* An engine has the directory open only under the record of its own call, *)
(* so that two never have it open, from before it is opened until after it *)
(* is closed; the holes are those of the lock.                             *)
EngineGuarded == \A c \in engine : lockFile.by = c \/ Unguarded

(* What is pinned is open: a module reload never gets a closed engine.     *)
PinIsOpen == \A p \in Process : pin[p] # None => pin[p] \in engine

(* A process that a signal ends takes its record with it ("frees the lock  *)
(* + port for the next leader"), ...                                       *)
ExitFreesLock ==
    \A c \in elect :
        exit[Home[c]] \in {"clean", "early"} /\ role[c] \in {"stop", "release"} => lockFile.by # c

(* ... unless a leader handle of the process had been closed before: then  *)
(* it exits under the close() that is under way.                           *)
ExitExplained == ExitFreesLock \/ \E p \in Process : exit[p] = "early"

(* A patient caller of resolveDatabaseUrl() gets a url or an error, however*)
(* many leaders die before, with the lock or the mutex in hand; only a     *)
(* connectFile() of a live process, which has no port, can keep it waiting.*)
ResolveSettles ==
    \A c \in Patient :
        (c \in elect /\ role[c] = "look") ~>
            \/ role[c] \notin {"look", "lock", "publish"}
            \/ ~Live(c)
            \/ \E d \in Caller \ elect : Holds(d)
=============================================================================
