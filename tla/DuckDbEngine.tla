---------------------------- MODULE DuckDbEngine ----------------------------
(***************************************************************************)
(* The embedded DuckDB engine of the lakehouse backend.  A request waits   *)
(* its turn in one queue, waits for the engine to be built, leases a       *)
(* connection and runs statements on it: CREATE SECRET, the attach and the *)
(* query, DETACH, DROP SECRET.  Secrets and attachments belong to the      *)
(* instance, so an instance one of them may be left on is poisoned,        *)
(* emptied of leases and replaced.                                         *)
(*                                                                         *)
(* A request answers its caller at the deadline at the latest; what it was *)
(* running goes on as an orphan, and may ignore the interrupt for ever.    *)
(* Each request calls the engine once.                                     *)
(***************************************************************************)
EXTENDS Naturals, Sequences, FiniteSets, Lists

CONSTANTS
    Requests,     \* calls of withStorageSecret
    PoolSize,     \* connections of an instance
    MaxPending,   \* maxPending: requests waiting behind the one running
    Faults        \* cleanup statements that may fail: "drop", "detach"

ASSUME RequestsAssumption == IsFiniteSet(Requests)
ASSUME PoolAssumption == PoolSize \in Nat \ {0} /\ MaxPending \in Nat \ {0}
ASSUME FaultsAssumption == Faults \subseteq {"drop", "detach"}

\* A request starts at most one build, so these are all the instances.
Builds == 1 .. Cardinality(Requests)
None == 0

VARIABLES
    caller,   \* what the caller of each request waits for
    op,       \* the statement its operation runs next
    on,       \* the build it waits for, then the instance it runs on
    gen,      \* the generation it read when it was called
    line,     \* the engine queue: requests whose gate is not released
    engine,   \* the fields of DuckDbService
    builds,   \* initialize() calls and how they ended
    open,     \* instances created and not closed
    secrets   \* instance -> requests whose temporary secret it holds

vars == <<caller, op, on, gen, line, engine, builds, open, secrets>>

Running == {"create", "operate", "detach", "drop"}

Init ==
    /\ caller = [r \in Requests |-> "idle"]
    /\ op = [r \in Requests |-> "none"]
    /\ on = [r \in Requests |-> None] /\ gen = [r \in Requests |-> 0]
    /\ line = <<>>
    /\ engine = [poisoned |-> FALSE, generation |-> 0, leased |-> {},
                 available |-> <<>>, current |-> None, initialization |-> None]
    /\ builds = [b \in Builds |-> "none"]
    /\ open = {}
    /\ secrets = [b \in Builds |-> {}]

-----------------------------------------------------------------------------
(* What the methods of DuckDbService do to its fields.                     *)

\* resetPoisonedInstance: close the instance, forget its initialization.
Reset(e) ==
    [e EXCEPT !.poisoned = FALSE, !.available = <<>>, !.current = None,
              !.initialization = None]

\* invalidate: fail closed until the leases have drained.
Invalidate(e) ==
    IF e.poisoned THEN e
    ELSE LET p == [e EXCEPT !.poisoned = TRUE, !.generation = @ + 1,
                            !.available = <<>>]
         IN  IF e.leased = {} THEN Reset(p) ELSE p

(* Mutant: an abandoned lease does not let the engine be rebuilt.          *)
LeaseForgotten(e, r) == [e EXCEPT !.leased = @ \ {r}]
\* The lease of r is over without its connection coming back.
LeaseAbandoned(e, r) ==
    LET d == [e EXCEPT !.leased = @ \ {r}]
    IN  IF d.poisoned /\ d.leased = {} THEN Reset(d) ELSE d

\* finishLease: also called late, for a lease that was abandoned meanwhile.
FinishLease(e, r, instance) ==
    IF r \notin e.leased THEN e
    ELSE IF e.poisoned THEN LeaseAbandoned(e, r)
    ELSE [e EXCEPT !.leased = @ \ {r}, !.available = Append(@, instance)]

(* Mutant: a failed DROP condemns whatever instance is there by then.      *)
CondemnsAlways(r, e) == TRUE
\* A failed DROP condemns the instance of the generation the request read.
Condemns(r, e) == e.generation = gen[r]

(* Mutant: the reset forgets its instance without closing it.              *)
CloseSkipped == open' = open
\* closeCurrentInstance, when the step replaced or dropped the instance.
Close == open' = IF engine'.current = None THEN open \ {engine.current} ELSE open

\* The gate of r is released and its caller has its answer.
Release(r) ==
    /\ line' = Omitting(line, {r})
    /\ caller' = [caller EXCEPT ![r] = "answered"]

-----------------------------------------------------------------------------
(* Until a request has its connection.                                     *)

Admits == ~engine.poisoned /\ Len(line) < MaxPending + 1

\* withStorageSecret and withEngineLock: fail fast, or join the queue.
Call(r) ==
    /\ caller[r] = "idle"
    /\ IF Admits
       THEN /\ caller' = [caller EXCEPT ![r] = "queued"]
            /\ line' = Append(line, r)
            /\ gen' = [gen EXCEPT ![r] = engine.generation]
       ELSE Release(r) /\ UNCHANGED gen
    /\ UNCHANGED <<op, on, engine, builds, open, secrets>>

(* Mutant: the queue is not a queue.                                       *)
NotInOrder(r) == caller[r] = "queued"
InTurn(r) == caller[r] = "queued" /\ Head(line) = r

(* Mutant: the turn checks for poison only.                                *)
PoisonedOnly(r) == engine.poisoned
\* The instance r was called for is condemned or gone.
Outdated(r) == engine.poisoned \/ gen[r] # engine.generation

NextBuild == Cardinality({b \in Builds : builds[b] # "none"}) + 1

\* The turn of r: the generation is checked, then the engine's initialization
\* is awaited, and started if nobody has.
Enter(r) ==
    /\ InTurn(r)
    /\ IF Outdated(r)
       THEN Release(r) /\ UNCHANGED <<on, engine, builds>>
       ELSE /\ caller' = [caller EXCEPT ![r] = "acquiring"]
            /\ IF engine.initialization = None
               THEN /\ on' = [on EXCEPT ![r] = NextBuild]
                    /\ engine' = [engine EXCEPT !.initialization = NextBuild]
                    /\ builds' = [builds EXCEPT ![NextBuild] = "running"]
               ELSE /\ on' = [on EXCEPT ![r] = engine.initialization]
                    /\ UNCHANGED <<engine, builds>>
            /\ UNCHANGED line
    /\ UNCHANGED <<op, gen, open, secrets>>

\* buildInstance installs its instance, whatever happened to the engine
\* while it ran.
BuildSucceeds(b) ==
    /\ builds[b] = "running"
    /\ builds' = [builds EXCEPT ![b] = "ok"]
    /\ engine' = [engine EXCEPT !.current = b,
                    !.available = @ \o [n \in 1 .. PoolSize |-> b]]
    /\ open' = open \cup {b}
    /\ UNCHANGED <<caller, op, on, gen, line, secrets>>

\* It failed: the next request initializes again.
BuildFails(b) ==
    /\ builds[b] = "running"
    /\ builds' = [builds EXCEPT ![b] = "failed"]
    /\ engine' = [engine EXCEPT !.initialization = None]
    /\ UNCHANGED <<caller, op, on, gen, line, open, secrets>>

\* acquire, once the initialization it awaits has ended.
Acquire(r) ==
    /\ caller[r] = "acquiring"
    /\ builds[on[r]] # "running"
    /\ IF builds[on[r]] = "failed" \/ engine.poisoned
       THEN Release(r) /\ UNCHANGED <<op, on, engine>>
       ELSE LET a == engine.available
            IN  /\ a # <<>>
                /\ engine' = [engine EXCEPT !.leased = @ \cup {r},
                                !.available = SubSeq(a, 1, Len(a) - 1)]
                /\ on' = [on EXCEPT ![r] = a[Len(a)]]
                /\ op' = [op EXCEPT ![r] = "create"]
                /\ caller' = [caller EXCEPT ![r] = "leased"]
                /\ UNCHANGED line
    /\ UNCHANGED <<gen, builds, open, secrets>>

(* Mutant: the deadline does not cut the wait for the initialization.      *)
WaitTimeoutInLine(r) ==
    /\ caller[r] = "queued"
    /\ Release(r)
    /\ UNCHANGED <<op, on, gen, engine, builds, open, secrets>>
\* The deadline passes before r has a connection.
WaitTimeout(r) ==
    /\ caller[r] \in {"queued", "acquiring"}
    /\ Release(r)
    /\ UNCHANGED <<op, on, gen, engine, builds, open, secrets>>

-----------------------------------------------------------------------------
(* The operation of a leased request, with or without its caller.          *)

\* A failed CREATE, or an interrupted one, may have made the secret.
CreateSecret(r, ok, there) ==
    /\ op[r] = "create"
    /\ ok => there
    /\ op' = [op EXCEPT ![r] = IF ok THEN "operate" ELSE "drop"]
    /\ secrets' = [secrets EXCEPT ![on[r]] = IF there THEN @ \cup {r} ELSE @]
    /\ UNCHANGED <<caller, on, gen, line, engine, builds, open>>

\* The setup statements and the query: what was attached must be detached.
Operate(r, attached) ==
    /\ op[r] = "operate"
    /\ op' = [op EXCEPT ![r] = IF attached THEN "detach" ELSE "drop"]
    /\ UNCHANGED <<caller, on, gen, line, engine, builds, open, secrets>>

\* executeRead and withCatalogAttached: a failed DETACH invalidates the engine
\* there is at that time.
Detach(r, ok) ==
    /\ op[r] = "detach"
    /\ ~ok => "detach" \in Faults
    /\ op' = [op EXCEPT ![r] = "drop"]
    /\ engine' = IF ok THEN engine ELSE Invalidate(engine)
    /\ Close
    /\ UNCHANGED <<caller, on, gen, line, builds, secrets>>

\* DROP SECRET, always run; the operation has settled.
DropSecret(r, ok) ==
    /\ op[r] = "drop"
    /\ ~ok => "drop" \in Faults
    /\ op' = [op EXCEPT ![r] = "settled"]
    /\ secrets' = [secrets EXCEPT ![on[r]] = IF ok THEN @ \ {r} ELSE @]
    /\ LET e == IF ~ok /\ Condemns(r, engine) THEN Invalidate(engine) ELSE engine
       IN  engine' = FinishLease(e, r, on[r])
    /\ Close
    /\ IF caller[r] = "leased" THEN Release(r) ELSE UNCHANGED <<caller, line>>
    /\ UNCHANGED <<on, gen, builds>>

\* The deadline: interrupt, poison, answer; the lease waits for the operation.
Timeout(r) ==
    /\ caller[r] = "leased"
    /\ engine' = Invalidate(engine)
    /\ Release(r)
    /\ UNCHANGED <<op, on, gen, builds, open, secrets>>

\* INTERRUPT_GRACE_MS later the connection is abandoned.
Grace(r) ==
    /\ caller[r] = "answered" /\ op[r] \in Running
    /\ r \in engine.leased
    /\ engine' = LeaseAbandoned(engine, r)
    /\ Close
    /\ UNCHANGED <<caller, op, on, gen, line, builds, secrets>>

Operation(r) ==
    \/ \E ok, there \in BOOLEAN : CreateSecret(r, ok, there)
    \/ \E b \in BOOLEAN : Operate(r, b) \/ Detach(r, b) \/ DropSecret(r, b)

Timers(r) == WaitTimeout(r) \/ Timeout(r) \/ Grace(r)

Next ==
    \/ \E r \in Requests : Call(r) \/ Enter(r) \/ Acquire(r) \/ Operation(r) \/ Timers(r)
    \/ \E b \in Builds : BuildSucceeds(b) \/ BuildFails(b)

\* Timers fire.  Neither a statement nor a build owes an end.
Fairness ==
    \A r \in Requests :
        WF_vars(WaitTimeout(r)) /\ WF_vars(Timeout(r)) /\ WF_vars(Grace(r))

Spec == Init /\ [][Next]_vars
FairSpec == Spec /\ Fairness

-----------------------------------------------------------------------------
(* Properties                                                              *)

EngineType ==
    [poisoned : BOOLEAN, generation : Nat, leased : SUBSET Requests,
     available : Seq(Builds), current : Builds \cup {None},
     initialization : Builds \cup {None}]

(* The type of every variable. *)
TypeOK ==
    /\ caller \in [Requests -> {"idle", "queued", "acquiring", "leased", "answered"}]
    /\ op \in [Requests -> Running \cup {"none", "settled"}]
    /\ on \in [Requests -> Builds \cup {None}]
    /\ gen \in [Requests -> Nat]
    /\ line \in Seq(Requests)
    /\ engine \in EngineType
    /\ builds \in [Builds -> {"none", "running", "ok", "failed"}]
    /\ open \subseteq Builds
    /\ secrets \in [Builds -> SUBSET Requests]

(* A request only ever queries an instance that holds no temporary secret  *)
(* but its own, whatever timed out, was abandoned or failed to clean up    *)
(* before it (withStorageSecret).                                          *)
NoForeignSecret ==
    \A r \in Requests : op[r] = "operate" => secrets[on[r]] \subseteq {r}

(* No two operations run on one instance at a time, orphans included: the  *)
(* engine queue lets the next request in only when the last one is over or *)
(* its instance condemned.                                                 *)
OneOperationPerInstance ==
    \A q, r \in Requests :
        q # r /\ op[q] \in Running /\ op[r] \in Running => on[q] # on[r]

(* The engine never loses an instance: the only one open is the current.   *)
NoInstanceLeak == open \subseteq {engine.current}

(* Behind the engine queue the pool never runs dry: a request that may     *)
(* acquire finds a connection, so the pool's own waiters are never used.   *)
PoolNeverDry ==
    \A r \in Requests :
        caller[r] = "acquiring" /\ builds[on[r]] = "ok" /\ ~engine.poisoned
          => engine.available # <<>>

(* Only a request that runs on the current instance can condemn it; an     *)
(* abandoned one cannot reach the replacement (releaseWhenSettled).        *)
OnlyOwnInstanceCondemned ==
    [][engine'.generation # engine.generation =>
         \E r \in Requests : /\ on[r] = engine.current
                             /\ op'[r] # op[r] \/ caller'[r] # caller[r]]_vars

(* A poisoned engine is rebuilt even if the operation that poisoned it     *)
(* never ends, so requests do not fail for ever.                           *)
EngineRecovers == engine.poisoned ~> ~engine.poisoned

(* Every caller is answered, whatever hangs.                               *)
CallersAreAnswered ==
    \A r \in Requests : caller[r] = "queued" ~> caller[r] = "answered"

(* Instances and connections are accounted for: none is open that nobody   *)
(* can reach, and none is missing from the pool when its turn comes.       *)
EngineIsWhole == TypeOK /\ NoInstanceLeak /\ PoolNeverDry
=============================================================================
