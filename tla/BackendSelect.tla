--------------------------- MODULE BackendSelect ---------------------------
(***************************************************************************)
(* Process-wide selection of the arithmetic backend (ed25519/backend.go,   *)
(* with activate of backend_r51.go and backend_ifma.go).                   *)
(*                                                                         *)
(* Goroutines race SetBackend against the first active(): SetBackend runs  *)
(* under selectMu, active() has a lock-free fast path and re-checks under  *)
(* selectMu.  A panic in pick unlocks selectMu (the deferred Unlock) and   *)
(* may be recovered by the caller, who may call again.                     *)
(***************************************************************************)
EXTENDS Integers, FiniteSets

CONSTANTS
  Procs,        \* goroutines
  NoProc,       \* nobody holds selectMu
  Registered,   \* names in the registry
  Unknown,      \* a name that is not in the registry
  Native,       \* the names that need AVX512-IFMA ("ifma", "r51")
  Activating,   \* the backends that implement activatingBackend
  NoName        \* "": nothing requested, nothing selected

Generic == "generic"
Names == Registered \cup {Unknown}

ASSUME SelectAssumption ==
  /\ NoProc \notin Procs
  /\ Generic \in Registered \ (Native \cup Activating)
  /\ Native \subseteq Registered /\ Activating \subseteq Registered
  /\ Unknown \notin Registered /\ NoName \notin Registered /\ NoName # Unknown

VARIABLES
  hasIFMA,     \* cpufeat.IFMA()
  env,         \* OVERCLOCK_ED25519_BACKEND, or NoName
  current,     \* name in the published backendBox, NoName while it is nil
  requested,   \* requested
  selectMu,    \* owner of the mutex
  activated,   \* per activating backend: "no", "ok" or "err" (sync.Once)
  pc, op, arg, \* each goroutine: control, "set" or "active", name at hand
  used,        \* history: backends that active() has returned
  granted      \* history: names for which SetBackend returned nil

vars == <<hasIFMA, env, current, requested, selectMu, activated, pc, op, arg, used, granted>>

Init ==
  /\ hasIFMA \in BOOLEAN
  /\ env \in Names \cup {NoName}
  /\ current = NoName /\ requested = NoName /\ selectMu = NoProc
  /\ activated = [b \in Activating |-> "no"]
  /\ pc = [p \in Procs |-> "idle"] /\ op = [p \in Procs |-> "active"]
  /\ arg = [p \in Procs |-> NoName]
  /\ used = {} /\ granted = {}

Goto(p, label) == pc' = [pc EXCEPT ![p] = label]

\* The call ends; its frame is gone.
Leave(p) ==
  /\ Goto(p, "idle")
  /\ op' = [op EXCEPT ![p] = "active"] /\ arg' = [arg EXCEPT ![p] = NoName]

-----------------------------------------------------------------------------

SetBackend(p) ==
  /\ pc[p] = "idle"
  /\ \E name \in Names : arg' = [arg EXCEPT ![p] = name]
  /\ op' = [op EXCEPT ![p] = "set"]
  /\ Goto(p, "lock")
  /\ UNCHANGED <<hasIFMA, env, current, requested, selectMu, activated, used, granted>>

\* active(), its fast path: one atomic load.
active(p) ==
  /\ pc[p] = "idle"
  /\ \/ /\ current # NoName
        /\ used' = used \cup {current} /\ UNCHANGED pc
     \/ /\ current = NoName
        /\ Goto(p, "lock") /\ UNCHANGED used
  /\ UNCHANGED <<hasIFMA, env, current, requested, selectMu, activated, op, arg, granted>>

Lock(p) ==
  /\ pc[p] = "lock" /\ selectMu = NoProc
  /\ selectMu' = p
  /\ Goto(p, "recheck")
  /\ UNCHANGED <<hasIFMA, env, current, requested, activated, op, arg, used, granted>>

Unlock == selectMu' = NoProc

\* Mutant: SetBackend reports success for any name once a backend is active.
SameNameAssumed(p) == TRUE

SameName(p) == arg[p] = current

\* Under the lock a backend is already published: SetBackend accepts only the
\* same name, active() returns it.
Published(p) ==
  /\ pc[p] = "recheck" /\ current # NoName
  /\ \/ /\ op[p] = "set" /\ UNCHANGED used
        /\ granted' = IF SameName(p) THEN granted \cup {arg[p]} ELSE granted
     \/ op[p] = "active" /\ used' = used \cup {current} /\ UNCHANGED granted
  /\ Unlock /\ Leave(p)
  /\ UNCHANGED <<hasIFMA, env, current, requested, activated>>

\* The name to resolve: SetBackend's argument, or requested, or the environment.
Wanted(p) ==
  IF op[p] = "set" THEN arg[p]
  ELSE IF requested # NoName THEN requested ELSE env

\* Mutant: the CPU is not consulted.
SupportedAssumed(name) == TRUE

Known(name) == name \in Registered
Supported(name) == name \in Native => hasIFMA

\* Nothing published yet.  A name that cannot be honoured is SetBackend's error
\* and pick's panic; pick("") is the generic backend.
Resolve(p) ==
  LET name == Wanted(p)
      honoured == Known(name) /\ Supported(name)
      chosen == IF name = NoName THEN Generic ELSE name
  IN  /\ pc[p] = "recheck" /\ current = NoName
      /\ \/ /\ name = NoName \/ honoured
            /\ arg' = [arg EXCEPT ![p] = chosen]
            /\ Goto(p, IF chosen \in Activating THEN "activate" ELSE "publish")
            /\ UNCHANGED <<op, selectMu>>
         \/ /\ name # NoName /\ ~honoured
            /\ Unlock /\ Leave(p)
      /\ UNCHANGED <<hasIFMA, env, current, requested, activated, used, granted>>

\* Mutant: activation is attempted anew on every call.
OnceAgain(b, outcome) == outcome

\* sync.Once: the first attempt decides for the life of the process.
Once(b, outcome) == IF activated[b] = "no" THEN outcome ELSE activated[b]

\* Mutant: a failed activation is retried under the lock.
FailRetries(p) == UNCHANGED <<selectMu, pc, op, arg>>

\* An error or a panic: the deferred Unlock runs either way.
Fail(p) == Unlock /\ Leave(p)

activate(p) ==
  LET b == arg[p] IN
  /\ pc[p] = "activate"
  /\ \E outcome \in {"ok", "err"} : activated' = [activated EXCEPT ![b] = Once(b, outcome)]
  /\ \/ /\ activated'[b] = "ok"
        /\ Goto(p, "publish") /\ UNCHANGED <<op, arg, selectMu>>
     \/ activated'[b] = "err" /\ Fail(p)
  /\ UNCHANGED <<hasIFMA, env, current, requested, used, granted>>

\* current.Store.  SetBackend also records the request, and reports success.
Publish(p) ==
  /\ pc[p] = "publish"
  /\ current' = arg[p]
  /\ \/ /\ op[p] = "set"
        /\ requested' = arg[p] /\ granted' = granted \cup {arg[p]} /\ UNCHANGED used
     \/ /\ op[p] = "active"
        /\ used' = used \cup {arg[p]} /\ UNCHANGED <<requested, granted>>
  /\ Unlock /\ Leave(p)
  /\ UNCHANGED <<hasIFMA, env, activated>>

Step(p) == Lock(p) \/ Published(p) \/ Resolve(p) \/ activate(p) \/ Publish(p)

Next == \E p \in Procs : SetBackend(p) \/ active(p) \/ Step(p)

Spec == Init /\ [][Next]_vars

\* A started call is scheduled; sync.Mutex hands over to a goroutine that has
\* waited (its starvation mode), which is strong fairness of Lock.
FairSpec == Spec /\ \A p \in Procs : WF_vars(Step(p)) /\ SF_vars(Lock(p))

-----------------------------------------------------------------------------

\* All goroutines use one backend, and it is the one SetBackend promised: a
\* SetBackend that returned nil is honoured by every active() of the process.
OneBackend == used \cup granted \subseteq {current}

\* No silent degradation: a native backend is published only on a CPU that has
\* it and after its activation succeeded; without a successful SetBackend the
\* published backend is the one the environment names.
NoSilentDegrade ==
  current # NoName =>
    /\ current \in Native => hasIFMA
    /\ current \in Activating => activated[current] = "ok"
    /\ granted = {} => current = IF env = NoName THEN Generic ELSE env

\* A published backend and a finished activation are never revised.
SelectionFinal ==
  [][/\ current # NoName => current' = current
     /\ \A b \in Activating : activated[b] # "no" => activated'[b] = activated[b]]_vars

\* Every call returns or panics with selectMu released.
CallsReturn == \A p \in Procs : pc[p] # "idle" ~> pc[p] = "idle"
=============================================================================
