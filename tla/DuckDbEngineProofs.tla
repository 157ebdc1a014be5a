------------------------- MODULE DuckDbEngineProofs -------------------------
(***************************************************************************)
(* What the embedded engine keeps true for any number of requests, any     *)
(* pool and any queue bound.  EngineInv holds whatever clean-up fails: it  *)
(* follows the line, the leases and the instances an operation may still   *)
(* be running on.  PoolInv holds where DETACH does not fail: then nothing  *)
(* but the request whose turn it is can condemn the engine.                *)
(***************************************************************************)
EXTENDS DuckDbEngine, ListLemmas, TLAPS

Avail == Elements(engine.available)
Top == engine.available[Len(engine.available)]

Started == {b \in Builds : builds[b] # "none"}
Entered == {r \in Requests : caller[r] \in {"acquiring", "leased", "answered"}}

\* Every build was started by a request of its own, at its turn.
BuildsCounted ==
    /\ Started = 1 .. Cardinality(Started)
    /\ Cardinality(Started) <= Cardinality(Entered)

\* The line holds the requests that wait or work, and only the first of them
\* is past its turn.
LineInOrder ==
    /\ NoRepeats(line)
    /\ Elements(line) = {r \in Requests : caller[r] \in {"queued", "acquiring", "leased"}}
    /\ \A r \in Requests : caller[r] \in {"acquiring", "leased"} => Head(line) = r

\* A lease outlives its caller only on a poisoned engine.
LeasesHeld ==
    /\ engine.poisoned => engine.leased # {}
    /\ engine.initialization # None => builds[engine.initialization] # "none"
    /\ \A r \in Requests :
          /\ caller[r] \in {"idle", "queued", "acquiring"} => op[r] = "none"
          /\ caller[r] = "leased" => r \in engine.leased
          /\ r \in engine.leased => op[r] \in Running
          /\ r \in engine.leased /\ caller[r] # "leased" => engine.poisoned
          /\ caller[r] = "acquiring" => on[r] \in Builds /\ builds[on[r]] # "none"
          /\ op[r] \in Running => on[r] \in Builds /\ builds[on[r]] = "ok"

\* No connection in the pool belongs to an instance an orphan runs on.
PoolIsFree ==
    /\ \A b \in Avail : builds[b] = "ok"
    /\ \A r \in Requests :
          op[r] \in Running /\ (engine.poisoned \/ caller[r] # "leased") => on[r] \notin Avail

\* A request may be about to take a connection.
Ready ==
    \/ engine.initialization # None /\ builds[engine.initialization] = "ok"
    \/ \E r \in Requests : caller[r] = "acquiring" /\ builds[on[r]] = "ok"

\* The connection the next request takes belongs to an instance without secrets;
\* deeper in the pool there may be others, of requests called before a failed
\* DETACH condemned their instance.
TopIsClean ==
    /\ \A b \in Builds : secrets[b] # {} => builds[b] = "ok"
    /\ \A r \in Requests : op[r] \in Running => secrets[on[r]] \subseteq {r}
    /\ ~engine.poisoned /\ engine.leased = {} /\ engine.available # <<>> /\ Ready
          => secrets[Top] = {}
    /\ \A r \in Requests :
          caller[r] \in {"acquiring", "leased"} /\ ~engine.poisoned /\ gen[r] # engine.generation
             => engine.initialization = None

EngineInv ==
    /\ TypeOK /\ BuildsCounted
    /\ LineInOrder /\ LeasesHeld /\ PoolIsFree /\ OneOperationPerInstance /\ TopIsClean

-----------------------------------------------------------------------------
(* The helpers that change the engine's fields.                             *)

LEMMA ResetFields ==
  ASSUME NEW e \in EngineType
  PROVE  LET x == Reset(e)
         IN  /\ x \in EngineType /\ x.leased = e.leased /\ x.generation = e.generation
             /\ x.poisoned = FALSE /\ x.available = <<>>
             /\ x.current = None /\ x.initialization = None
<1>1. <<>> \in Seq(Builds)
  OBVIOUS
<1>2. Reset(e) \in EngineType
  BY <1>1, Zenon DEF Reset, EngineType
<1> QED  BY <1>2 DEF Reset, EngineType

LEMMA InvalidateFields ==
  ASSUME NEW e \in EngineType
  PROVE  LET x == Invalidate(e)
         IN  /\ x \in EngineType /\ x.leased = e.leased
             /\ e.poisoned => x = e
             /\ ~e.poisoned =>
                   /\ x.generation = e.generation + 1 /\ x.available = <<>>
                   /\ IF e.leased = {}
                      THEN ~x.poisoned /\ x.current = None /\ x.initialization = None
                      ELSE /\ x.poisoned /\ x.current = e.current
                           /\ x.initialization = e.initialization
<1> DEFINE p == [e EXCEPT !.poisoned = TRUE, !.generation = @ + 1, !.available = <<>>]
<1>1. /\ p \in EngineType /\ p.poisoned = TRUE /\ p.generation = e.generation + 1
      /\ p.available = <<>> /\ p.leased = e.leased /\ p.current = e.current
      /\ p.initialization = e.initialization
  <2>1. <<>> \in Seq(Builds) /\ e.generation + 1 \in Nat
    BY DEF EngineType
  <2>2. p \in EngineType
    BY <2>1, Zenon DEF EngineType
  <2> QED  BY <2>2 DEF EngineType
<1>2. Invalidate(e) = IF e.poisoned THEN e ELSE IF e.leased = {} THEN Reset(p) ELSE p
  BY DEF Invalidate
<1> HIDE DEF p
<1>3. CASE e.poisoned
  BY <1>2, <1>3, Zenon
<1>4. CASE ~e.poisoned /\ e.leased = {}
  <2>1. Invalidate(e) = Reset(p)
    BY <1>2, <1>4, Zenon
  <2> QED  BY <1>1, <1>4, <2>1, ResetFields
<1>5. CASE ~e.poisoned /\ e.leased # {}
  <2>1. Invalidate(e) = p
    BY <1>2, <1>5, Zenon
  <2> QED  BY <1>1, <1>5, <2>1
<1> QED  BY <1>3, <1>4, <1>5

LEMMA AbandonFields ==
  ASSUME NEW e \in EngineType, NEW r
  PROVE  LET x == LeaseAbandoned(e, r)
         IN  /\ x \in EngineType /\ x.leased = e.leased \ {r}
             /\ x.generation = e.generation
             /\ IF e.poisoned /\ e.leased \ {r} = {}
                THEN /\ ~x.poisoned /\ x.available = <<>>
                     /\ x.current = None /\ x.initialization = None
                ELSE /\ x.poisoned = e.poisoned /\ x.available = e.available
                     /\ x.current = e.current /\ x.initialization = e.initialization
<1> DEFINE d == [e EXCEPT !.leased = @ \ {r}]
<1>1. /\ d \in EngineType /\ d.poisoned = e.poisoned /\ d.generation = e.generation
      /\ d.available = e.available /\ d.leased = e.leased \ {r}
      /\ d.current = e.current /\ d.initialization = e.initialization
  BY DEF EngineType
<1>2. LeaseAbandoned(e, r) = IF d.poisoned /\ d.leased = {} THEN Reset(d) ELSE d
  BY DEF LeaseAbandoned
<1> HIDE DEF d
<1>3. CASE d.poisoned /\ d.leased = {}
  <2>1. LeaseAbandoned(e, r) = Reset(d)
    BY <1>2, <1>3, Zenon
  <2> QED  BY <1>1, <1>3, <2>1, ResetFields
<1>4. CASE ~(d.poisoned /\ d.leased = {})
  <2>1. LeaseAbandoned(e, r) = d
    BY <1>2, <1>4, Zenon
  <2> QED  BY <1>1, <1>4, <2>1
<1> QED  BY <1>3, <1>4

LEMMA FinishFields ==
  ASSUME NEW e \in EngineType, NEW r, NEW i \in Builds
  PROVE  LET x == FinishLease(e, r, i)
         IN  /\ x \in EngineType /\ x.leased = e.leased \ {r}
             /\ x.generation = e.generation
             /\ r \notin e.leased => x = e
             /\ r \in e.leased /\ e.poisoned => x = LeaseAbandoned(e, r)
             /\ r \in e.leased /\ ~e.poisoned =>
                   /\ ~x.poisoned /\ x.available = Append(e.available, i)
                   /\ x.current = e.current /\ x.initialization = e.initialization
<1>1. CASE r \notin e.leased
  BY <1>1 DEF FinishLease
<1>2. CASE r \in e.leased /\ e.poisoned
  BY <1>2, AbandonFields DEF FinishLease
<1>3. CASE r \in e.leased /\ ~e.poisoned
  <2>1. FinishLease(e, r, i) = [e EXCEPT !.leased = @ \ {r}, !.available = Append(@, i)]
    BY <1>3, Zenon DEF FinishLease
  <2>2. Append(e.available, i) \in Seq(Builds)
    BY DEF EngineType
  <2> QED  BY <1>3, <2>1, <2>2 DEF EngineType
<1> QED  BY <1>1, <1>2, <1>3

\* The gate of r is released: the others keep their places.
LEMMA ReleaseKeepsOrder ==
  ASSUME TypeOK, LineInOrder, NEW r \in Requests, Release(r)
  PROVE  LineInOrder' /\ line' \in Seq(Requests)
<1>1. /\ line' \in Seq(Requests) /\ NoRepeats(line') /\ Elements(line') = Elements(line) \ {r}
      /\ line # <<>> /\ Head(line) \notin {r} => Head(line') = Head(line)
  BY OmittingProperties DEF Release, TypeOK, LineInOrder
<1>2. \A q \in Requests : caller'[q] = IF q = r THEN "answered" ELSE caller[q]
  BY DEF Release, TypeOK
<1>3. Elements(line') = {q \in Requests : caller'[q] \in {"queued", "acquiring", "leased"}}
  BY <1>1, <1>2 DEF LineInOrder
<1>4. ASSUME NEW q \in Requests, caller'[q] \in {"acquiring", "leased"}
      PROVE  Head(line') = q
  <2>1. q # r /\ caller[q] \in {"acquiring", "leased"} /\ Head(line) = q
    BY <1>2, <1>4 DEF LineInOrder
  <2>2. q \in Elements(line)
    BY <2>1 DEF LineInOrder
  <2>3. line # <<>>
    BY <2>2 DEF Elements
  <2> QED  BY <1>1, <2>1, <2>3
<1> QED  BY <1>1, <1>3, <1>4 DEF LineInOrder

LEMMA LineStep ==
  ASSUME TypeOK, LineInOrder, Next
  PROVE  LineInOrder' /\ line' \in Seq(Requests)
<1>a. ASSUME UNCHANGED <<caller, line>>  PROVE LineInOrder' /\ line' \in Seq(Requests)
  BY <1>a DEF TypeOK, LineInOrder
<1>1. ASSUME NEW r \in Requests, Call(r)  PROVE LineInOrder' /\ line' \in Seq(Requests)
  <2>1. CASE Admits
    <3>1. r \notin Elements(line)
      BY <1>1 DEF Call, LineInOrder
    <3>2. line' = Append(line, r) /\ caller' = [caller EXCEPT ![r] = "queued"]
      BY <1>1, <2>1 DEF Call
    <3>3. /\ line' \in Seq(Requests) /\ NoRepeats(line')
          /\ Elements(line') = Elements(line) \cup {r}
          /\ Head(line') = IF line = <<>> THEN r ELSE Head(line)
      BY <3>1, <3>2, AppendElements DEF TypeOK, LineInOrder
    <3>4. \A q \in Requests : caller'[q] = IF q = r THEN "queued" ELSE caller[q]
      BY <3>2 DEF TypeOK
    <3>5. ASSUME NEW q \in Requests, caller'[q] \in {"acquiring", "leased"}
          PROVE  Head(line') = q
      <4>1. Head(line) = q /\ q \in Elements(line)
        BY <3>4, <3>5 DEF LineInOrder
      <4>2. line # <<>>
        BY <4>1 DEF Elements
      <4> QED  BY <3>3, <4>1, <4>2
    <3> QED  BY <3>3, <3>4, <3>5 DEF LineInOrder
  <2>2. CASE ~Admits
    BY <1>1, <2>2, ReleaseKeepsOrder DEF Call
  <2> QED  BY <2>1, <2>2
<1>2. ASSUME NEW r \in Requests, Enter(r)  PROVE LineInOrder' /\ line' \in Seq(Requests)
  <2>1. CASE Release(r)
    BY <2>1, ReleaseKeepsOrder
  <2>2. CASE caller' = [caller EXCEPT ![r] = "acquiring"] /\ line' = line
    BY <1>2, <2>2 DEF Enter, InTurn, TypeOK, LineInOrder
  <2> QED  BY <1>2, <2>1, <2>2 DEF Enter
<1>3. ASSUME NEW r \in Requests, Acquire(r)  PROVE LineInOrder' /\ line' \in Seq(Requests)
  <2>1. CASE Release(r)
    BY <2>1, ReleaseKeepsOrder
  <2>2. CASE caller' = [caller EXCEPT ![r] = "leased"] /\ line' = line
    BY <1>3, <2>2 DEF Acquire, TypeOK, LineInOrder
  <2> QED  BY <1>3, <2>1, <2>2 DEF Acquire
<1>4. ASSUME NEW r \in Requests, Operation(r) \/ Timers(r)
      PROVE  LineInOrder' /\ line' \in Seq(Requests)
  <2>1. Release(r) \/ UNCHANGED <<caller, line>>
    BY <1>4 DEF Operation, Timers, CreateSecret, Operate, Detach, DropSecret,
                WaitTimeout, Timeout, Grace
  <2> QED  BY <1>a, <2>1, ReleaseKeepsOrder
<1>5. ASSUME NEW b \in Builds, BuildSucceeds(b) \/ BuildFails(b)
      PROVE  LineInOrder' /\ line' \in Seq(Requests)
  BY <1>5, <1>a DEF BuildSucceeds, BuildFails
<1> QED  BY <1>1, <1>2, <1>3, <1>4, <1>5 DEF Next

-----------------------------------------------------------------------------
(* The builds are numbered in the order they are started, one at most by a  *)
(* request.                                                                 *)
LEMMA NextBuildFits ==
  ASSUME TypeOK, BuildsCounted, NEW r \in Requests, r \notin Entered
  PROVE  /\ NextBuild \in Builds /\ builds[NextBuild] = "none"
         /\ NextBuild = Cardinality(Started) + 1
         /\ Cardinality(Started) \in Nat /\ IsFiniteSet(Started)
<1>1. /\ IsFiniteSet(Entered) /\ Cardinality(Entered) \in Nat
      /\ IsFiniteSet(Entered \cup {r}) /\ Cardinality(Entered \cup {r}) = Cardinality(Entered) + 1
  <2>1. Entered \subseteq Requests
    BY DEF Entered
  <2>2. IsFiniteSet(Entered) /\ Cardinality(Entered) \in Nat
    BY <2>1, RequestsAssumption, FS_Subset, FS_CardinalityType
  <2> QED  BY <2>2, FS_AddElement
<1>2. Cardinality(Entered) + 1 <= Cardinality(Requests) /\ Cardinality(Requests) \in Nat
  <2>1. Entered \cup {r} \subseteq Requests
    BY DEF Entered
  <2>2. Cardinality(Entered \cup {r}) <= Cardinality(Requests)
    BY <2>1, RequestsAssumption, FS_Subset
  <2> QED  BY <1>1, <2>2, RequestsAssumption, FS_CardinalityType
<1>3. IsFiniteSet(Started) /\ Cardinality(Started) \in Nat
  <2>1. IsFiniteSet(Builds) /\ Started \subseteq Builds
    BY <1>2, FS_Interval DEF Builds, Started
  <2> QED  BY <2>1, FS_Subset, FS_CardinalityType
<1>4. NextBuild = Cardinality(Started) + 1
  BY DEF NextBuild, Started
<1>5. NextBuild \in Builds /\ NextBuild \notin Started
  BY <1>1, <1>2, <1>3, <1>4 DEF BuildsCounted, Builds
<1> QED  BY <1>3, <1>4, <1>5 DEF Started

LEMMA BuildsStep ==
  ASSUME TypeOK, BuildsCounted, Next
  PROVE  BuildsCounted'
<1>f. /\ IsFiniteSet(Entered) /\ IsFiniteSet(Entered')
      /\ Cardinality(Entered) \in Nat /\ Cardinality(Entered') \in Nat
  <2>1. Entered \subseteq Requests /\ Entered' \subseteq Requests
    BY DEF Entered
  <2> QED  BY <2>1, RequestsAssumption, FS_Subset, FS_CardinalityType
<1>a. ASSUME Started' = Started, Entered \subseteq Entered'  PROVE BuildsCounted'
  <2>1. Cardinality(Entered) <= Cardinality(Entered')
    BY <1>a, <1>f, FS_Subset
  <2>2. Cardinality(Started) \in Nat
    <3>1. IsFiniteSet(Builds) /\ Started \subseteq Builds
      BY RequestsAssumption, FS_CardinalityType, FS_Interval DEF Builds, Started
    <3> QED  BY <3>1, FS_Subset, FS_CardinalityType
  <2> QED  BY <1>a, <1>f, <2>1, <2>2 DEF BuildsCounted
<1>1. ASSUME NEW r \in Requests, Enter(r)  PROVE BuildsCounted'
  <2>1. CASE UNCHANGED builds
    <3>1. Entered \subseteq Entered' /\ Started' = Started
      BY <1>1, <2>1 DEF Enter, InTurn, Release, Entered, Started, TypeOK
    <3> QED  BY <1>a, <3>1
  <2>2. CASE builds' = [builds EXCEPT ![NextBuild] = "running"]
    <3>1. r \notin Entered
      BY <1>1 DEF Enter, InTurn, Entered
    <3>2. /\ NextBuild \in Builds /\ builds[NextBuild] = "none"
          /\ NextBuild = Cardinality(Started) + 1
          /\ Cardinality(Started) \in Nat /\ IsFiniteSet(Started)
      BY <3>1, NextBuildFits
    <3>3. Started' = Started \cup {NextBuild} /\ NextBuild \notin Started
      BY <2>2, <3>2 DEF Started, TypeOK
    <3>4. Entered \cup {r} \subseteq Entered'
      BY <1>1 DEF Enter, InTurn, Release, Entered, TypeOK
    <3>5. Cardinality(Entered \cup {r}) = Cardinality(Entered) + 1
          /\ Cardinality(Entered \cup {r}) <= Cardinality(Entered')
      BY <1>f, <3>1, <3>4, FS_AddElement, FS_Subset
    <3>6. Cardinality(Started') = Cardinality(Started) + 1
      BY <3>2, <3>3, FS_AddElement
    <3>7. Started' = 1 .. Cardinality(Started')
      BY <3>2, <3>3, <3>6 DEF BuildsCounted
    <3> QED  BY <1>f, <3>2, <3>5, <3>6, <3>7 DEF BuildsCounted
  <2> QED  BY <1>1, <2>1, <2>2 DEF Enter
<1>2. ASSUME NEW r \in Requests, Call(r) \/ Acquire(r) \/ Operation(r) \/ Timers(r)
      PROVE  BuildsCounted'
  <2>1. builds' = builds /\ (UNCHANGED caller \/ caller' = [caller EXCEPT ![r] = "answered"]
          \/ (caller' = [caller EXCEPT ![r] = "leased"])
          \/ (caller[r] = "idle" /\ caller' = [caller EXCEPT ![r] = "queued"]))
    BY <1>2 DEF Call, Acquire, Operation, Timers, CreateSecret, Operate, Detach, DropSecret,
                WaitTimeout, Timeout, Grace, Release
  <2>2. Started' = Started /\ Entered \subseteq Entered'
    BY <2>1 DEF Started, Entered, TypeOK
  <2> QED  BY <1>a, <2>2
<1>3. ASSUME NEW b \in Builds, BuildSucceeds(b) \/ BuildFails(b)  PROVE BuildsCounted'
  <2>1. Started' = Started /\ Entered' = Entered
    BY <1>3 DEF BuildSucceeds, BuildFails, Started, Entered, TypeOK
  <2> QED  BY <1>a, <2>1
<1> QED  BY <1>1, <1>2, <1>3 DEF Next

-----------------------------------------------------------------------------
(* One lemma per action.  What each keeps of EngineInv, beside the line and *)
(* the count of builds:                                                     *)
CoreInv ==
    /\ LeasesHeld /\ PoolIsFree /\ OneOperationPerInstance /\ TopIsClean

LEMMA CallCore ==
  ASSUME EngineInv, NEW r \in Requests, Call(r), line' \in Seq(Requests)
  PROVE  TypeOK' /\ CoreInv'
<1>1. /\ UNCHANGED <<op, on, engine, builds, open, secrets>>
      /\ caller[r] = "idle"
      /\ \/ caller' = [caller EXCEPT ![r] = "queued"]
            /\ gen' = [gen EXCEPT ![r] = engine.generation]
         \/ caller' = [caller EXCEPT ![r] = "answered"] /\ gen' = gen
  BY DEF Call, Release
<1>2. TypeOK'
  <2>1. engine.generation \in Nat
    BY DEF EngineInv, TypeOK, EngineType
  <2> QED  BY <1>1, <2>1 DEF EngineInv, TypeOK
<1>3. \A q \in Requests : /\ caller'[q] = caller[q] \/ (q = r /\ caller'[q] \in {"queued", "answered"})
                          /\ gen'[q] = gen[q] \/ q = r
  BY <1>1 DEF EngineInv, TypeOK
<1>4. LeasesHeld' /\ PoolIsFree' /\ OneOperationPerInstance'
  BY <1>1, <1>3 DEF EngineInv, LeasesHeld, PoolIsFree, OneOperationPerInstance, Avail
<1>5. TopIsClean'
  BY <1>1, <1>3 DEF EngineInv, TopIsClean, Top, Ready
<1> QED  BY <1>2, <1>4, <1>5 DEF CoreInv

LEMMA WaitCore ==
  ASSUME EngineInv, NEW r \in Requests, line' \in Seq(Requests),
         caller[r] \in {"queued", "acquiring"}, Release(r),
         UNCHANGED <<op, on, gen, engine, builds, open, secrets>>
  PROVE  TypeOK' /\ CoreInv'
<1>1. caller' = [caller EXCEPT ![r] = "answered"]
  BY DEF Release
<1>2. TypeOK'
  BY <1>1 DEF EngineInv, TypeOK
<1>3. \A q \in Requests : caller'[q] = IF q = r THEN "answered" ELSE caller[q]
  BY <1>1 DEF EngineInv, TypeOK
<1>4. LeasesHeld' /\ PoolIsFree' /\ OneOperationPerInstance'
  BY <1>3 DEF EngineInv, LeasesHeld, PoolIsFree, OneOperationPerInstance, Avail
<1>5. TopIsClean'
  <2>1. Ready' => Ready
    BY <1>3 DEF Ready
  <2>2. /\ \A b \in Builds : secrets'[b] # {} => builds'[b] = "ok"
        /\ \A q \in Requests : op'[q] \in Running => secrets'[on'[q]] \subseteq {q}
    BY DEF EngineInv, TopIsClean
  <2>3. /\ ~engine.poisoned /\ engine.leased = {} /\ engine.available # <<>> /\ Ready
        => secrets[Top] = {}
    BY DEF EngineInv, TopIsClean
  <2>4. Top' = Top /\ engine' = engine /\ secrets' = secrets
    BY DEF Top
  <2>5. \A q \in Requests : caller'[q] \in {"acquiring", "leased"} => q # r /\ caller[q] = caller'[q]
    BY <1>3
  <2>6. \A q \in Requests : caller'[q] \in {"acquiring", "leased"} /\ ~engine'.poisoned
          /\ gen'[q] # engine'.generation => engine'.initialization = None
    BY <2>5 DEF EngineInv, TopIsClean
  <2> QED  BY <2>1, <2>2, <2>3, <2>4, <2>6 DEF TopIsClean
<1> QED  BY <1>2, <1>4, <1>5 DEF CoreInv

LEMMA EnterCore ==
  ASSUME EngineInv, NEW r \in Requests, Enter(r), line' \in Seq(Requests)
  PROVE  TypeOK' /\ CoreInv'
<1>0. caller[r] = "queued" /\ Head(line) = r /\ UNCHANGED <<op, gen, open, secrets>>
  BY DEF Enter, InTurn
<1>1. CASE Outdated(r)
  BY <1>0, <1>1, WaitCore DEF Enter
<1>2. CASE ~Outdated(r)
  <2>0. /\ caller' = [caller EXCEPT ![r] = "acquiring"] /\ gen[r] = engine.generation
        /\ \A q \in Requests : caller'[q] = IF q = r THEN "acquiring" ELSE caller[q]
        /\ \A q \in Requests : caller[q] \notin {"acquiring", "leased"}
        /\ ~engine.poisoned
    <3>1. caller' = [caller EXCEPT ![r] = "acquiring"] /\ gen[r] = engine.generation
          /\ ~engine.poisoned
      BY <1>2 DEF Enter, Outdated
    <3> QED  BY <1>0, <3>1 DEF EngineInv, TypeOK, LineInOrder
  <2>1. CASE engine.initialization # None
    <3>1. /\ on' = [on EXCEPT ![r] = engine.initialization]
          /\ UNCHANGED <<engine, builds>>
      BY <1>2, <2>1 DEF Enter
    <3>2. /\ engine.initialization \in Builds
          /\ \A q \in Requests : on'[q] = IF q = r THEN engine.initialization ELSE on[q]
      BY <2>1, <3>1 DEF EngineInv, TypeOK, EngineType
    <3>3. TypeOK'
      BY <1>0, <2>0, <3>1, <3>2 DEF EngineInv, TypeOK
    <3>4. LeasesHeld' /\ PoolIsFree' /\ OneOperationPerInstance'
      BY <1>0, <2>0, <2>1, <3>1, <3>2
      DEF EngineInv, LeasesHeld, PoolIsFree, OneOperationPerInstance, Avail, Running
    <3>5. TopIsClean'
      <4>1. Ready' => Ready
        BY <2>0, <2>1, <3>1, <3>2 DEF Ready
      <4>2. \A q \in Requests : op'[q] \in Running => secrets'[on'[q]] \subseteq {q}
        BY <1>0, <3>2 DEF EngineInv, LeasesHeld, TopIsClean, Running
      <4>3. \A q \in Requests : caller'[q] \in {"acquiring", "leased"} => gen'[q] = engine.generation
        BY <1>0, <2>0
      <4>4. Top' = Top
        BY <3>1 DEF Top
      <4> QED  BY <1>0, <3>1, <4>1, <4>2, <4>3, <4>4 DEF EngineInv, TopIsClean
    <3> QED  BY <3>3, <3>4, <3>5 DEF CoreInv
  <2>2. CASE engine.initialization = None
    <3> DEFINE new == NextBuild
    <3>1. /\ on' = [on EXCEPT ![r] = new]
          /\ engine' = [engine EXCEPT !.initialization = new]
          /\ builds' = [builds EXCEPT ![new] = "running"]
      BY <1>2, <2>2 DEF Enter
    <3>2. new \in Builds /\ builds[new] = "none"
      <4>1. r \notin Entered
        BY <1>0 DEF Entered
      <4> QED  BY <4>1, NextBuildFits DEF EngineInv
    <3> HIDE DEF new
    <3>3. /\ \A q \in Requests : on'[q] = IF q = r THEN new ELSE on[q]
          /\ \A b \in Builds : builds'[b] = IF b = new THEN "running" ELSE builds[b]
          /\ engine'.initialization = new
          /\ engine'.poisoned = engine.poisoned /\ engine'.leased = engine.leased
          /\ engine'.available = engine.available /\ engine'.generation = engine.generation
          /\ engine'.current = engine.current /\ new # None
      BY <3>1, <3>2 DEF EngineInv, TypeOK, EngineType, Builds, None
    <3>a. engine' \in EngineType
      BY <3>1, <3>2, Zenon DEF EngineInv, TypeOK, EngineType
    <3>4. TypeOK'
      BY <1>0, <2>0, <3>1, <3>2, <3>a DEF EngineInv, TypeOK
    <3>5. LeasesHeld'
      BY <1>0, <2>0, <3>2, <3>3 DEF EngineInv, LeasesHeld, Running
    <3>6. PoolIsFree'
      <4>1. Avail' = Avail /\ Avail \subseteq Builds
        BY <3>3 DEF Avail, Elements, EngineInv, TypeOK, EngineType
      <4> QED  BY <1>0, <2>0, <3>2, <3>3, <4>1 DEF EngineInv, LeasesHeld, PoolIsFree, Running
    <3>7. OneOperationPerInstance'
      BY <1>0, <3>3 DEF EngineInv, LeasesHeld, OneOperationPerInstance, Running
    <3>8. TopIsClean'
      <4>1. ~Ready'
        BY <2>0, <3>2, <3>3 DEF Ready
      <4>2. \A q \in Requests : op'[q] \in Running => secrets'[on'[q]] \subseteq {q}
        BY <1>0, <3>3 DEF EngineInv, LeasesHeld, TopIsClean, Running
      <4>3. \A q \in Requests : caller'[q] \in {"acquiring", "leased"} => gen'[q] = engine.generation
        BY <1>0, <2>0
      <4>4. \A b \in Builds : secrets'[b] # {} => builds'[b] = "ok"
        BY <1>0, <3>2, <3>3 DEF EngineInv, TopIsClean
      <4> QED  BY <3>3, <4>1, <4>2, <4>3, <4>4 DEF TopIsClean
    <3> QED  BY <3>4, <3>5, <3>6, <3>7, <3>8 DEF CoreInv
  <2> QED  BY <2>1, <2>2
<1> QED  BY <1>1, <1>2

LEMMA BuildCore ==
  ASSUME EngineInv, NEW b \in Builds, BuildSucceeds(b) \/ BuildFails(b)
  PROVE  TypeOK' /\ CoreInv'
<1>0. builds[b] = "running" /\ UNCHANGED <<caller, op, on, gen, line, secrets>>
  BY DEF BuildSucceeds, BuildFails
<1>t. engine \in EngineType /\ engine.available \in Seq(Builds) /\ Avail \subseteq Builds
      /\ builds \in [Builds -> {"none", "running", "ok", "failed"}]
      /\ PoolSize \in Nat \ {0} /\ b # None
  <2>1. /\ engine \in EngineType
        /\ builds \in [Builds -> {"none", "running", "ok", "failed"}]
    BY DEF EngineInv, TypeOK
  <2>2. engine.available \in Seq(Builds)
    BY <2>1 DEF EngineType
  <2>3. Avail \subseteq Builds
    BY <2>2 DEF Avail, Elements
  <2>4. b # None
    BY DEF Builds, None
  <2> QED  BY <2>1, <2>2, <2>3, <2>4, PoolAssumption
<1>b. b \notin Avail /\ secrets[b] = {}
  BY <1>0, <1>t DEF EngineInv, PoolIsFree, TopIsClean
<1>o. \A r \in Requests : op[r] \in Running => on[r] # b /\ on[r] \in Builds
  BY <1>0 DEF EngineInv, LeasesHeld
<1>1. CASE BuildSucceeds(b)
  <2> DEFINE pool == engine.available \o [n \in 1 .. PoolSize |-> b]
  <2>1. /\ pool \in Seq(Builds) /\ Elements(pool) = Avail \cup {b}
        /\ pool[Len(pool)] = b /\ Len(pool) = Len(engine.available) + PoolSize
    BY <1>t, CopiesAdded DEF Avail
  <2>2. /\ builds' = [builds EXCEPT ![b] = "ok"] /\ open' = open \cup {b}
        /\ engine' = [engine EXCEPT !.current = b, !.available = pool]
    BY <1>1 DEF BuildSucceeds
  <2> HIDE DEF pool
  <2>a. engine' \in EngineType
    BY <1>t, <2>1, <2>2, Zenon DEF EngineType
  <2>3. /\ \A c \in Builds : builds'[c] = IF c = b THEN "ok" ELSE builds[c]
        /\ engine'.initialization = engine.initialization
        /\ engine'.poisoned = engine.poisoned /\ engine'.leased = engine.leased
        /\ engine'.available = pool /\ engine'.generation = engine.generation
        /\ engine'.current = b /\ Avail' = Avail \cup {b} /\ Top' = b
    BY <1>t, <2>1, <2>2 DEF EngineType, Avail, Top
  <2>4. TypeOK'
    BY <1>0, <1>t, <2>2, <2>a DEF EngineInv, TypeOK
  <2>5. LeasesHeld'
    BY <1>0, <1>t, <2>3 DEF EngineInv, LeasesHeld, TypeOK, EngineType
  <2>6. PoolIsFree'
    BY <1>0, <1>t, <1>o, <2>3 DEF EngineInv, PoolIsFree
  <2>7. OneOperationPerInstance'
    BY <1>0 DEF EngineInv, OneOperationPerInstance
  <2>8. TopIsClean'
    BY <1>0, <1>b, <1>t, <1>o, <2>3 DEF EngineInv, TopIsClean
  <2> QED  BY <2>4, <2>5, <2>6, <2>7, <2>8 DEF CoreInv
<1>2. CASE BuildFails(b)
  <2>2. /\ builds' = [builds EXCEPT ![b] = "failed"] /\ open' = open
        /\ engine' = [engine EXCEPT !.initialization = None]
    BY <1>2 DEF BuildFails
  <2>3. /\ \A c \in Builds : builds'[c] = IF c = b THEN "failed" ELSE builds[c]
        /\ engine' \in EngineType /\ engine'.initialization = None
        /\ engine'.poisoned = engine.poisoned /\ engine'.leased = engine.leased
        /\ engine'.available = engine.available /\ engine'.generation = engine.generation
        /\ engine'.current = engine.current /\ Avail' = Avail /\ Top' = Top
    BY <1>t, <2>2 DEF EngineType, Avail, Top
  <2>4. TypeOK'
    BY <1>0, <1>t, <2>2, <2>3 DEF EngineInv, TypeOK
  <2>5. LeasesHeld'
    BY <1>0, <1>t, <1>o, <2>3 DEF EngineInv, LeasesHeld
  <2>6. PoolIsFree'
    BY <1>0, <1>t, <1>b, <1>o, <2>3 DEF EngineInv, PoolIsFree
  <2>7. OneOperationPerInstance'
    BY <1>0 DEF EngineInv, OneOperationPerInstance
  <2>8. TopIsClean'
    <3>1. Ready' => Ready
      BY <1>0, <1>t, <2>3 DEF Ready, EngineInv, LeasesHeld
    <3> QED  BY <1>0, <1>b, <1>t, <1>o, <2>3, <3>1 DEF EngineInv, TopIsClean
  <2> QED  BY <2>4, <2>5, <2>6, <2>7, <2>8 DEF CoreInv
<1> QED  BY <1>1, <1>2

LEMMA AcquireCore ==
  ASSUME EngineInv, NEW r \in Requests, Acquire(r), line' \in Seq(Requests)
  PROVE  TypeOK' /\ CoreInv'
<1>0. /\ caller[r] = "acquiring" /\ builds[on[r]] # "running"
      /\ UNCHANGED <<gen, builds, open, secrets>>
  BY DEF Acquire
<1>1. CASE builds[on[r]] = "failed" \/ engine.poisoned
  BY <1>0, <1>1, WaitCore DEF Acquire
<1>2. CASE ~(builds[on[r]] = "failed" \/ engine.poisoned)
  <2> DEFINE left == SubSeq(engine.available, 1, Len(engine.available) - 1)
  <2>1. /\ engine.available # <<>>
        /\ engine' = [engine EXCEPT !.leased = @ \cup {r}, !.available = left]
        /\ on' = [on EXCEPT ![r] = Top] /\ op' = [op EXCEPT ![r] = "create"]
        /\ caller' = [caller EXCEPT ![r] = "leased"]
    BY <1>2, Zenon DEF Acquire, Top
  <2>t. engine \in EngineType /\ engine.available \in Seq(Builds)
    BY DEF EngineInv, TypeOK, EngineType
  <2>2. left \in Seq(Builds) /\ Elements(left) \subseteq Avail /\ Top \in Avail /\ Top \in Builds
    BY <2>1, <2>t, LastTaken DEF Avail, Top
  <2> HIDE DEF left
  <2>3. engine.leased \cup {r} \in SUBSET Requests
    BY <2>t DEF EngineType
  <2>4. engine' \in EngineType
    BY <2>t, <2>1, <2>2, <2>3, Zenon DEF EngineType
  <2>5. /\ engine'.leased = engine.leased \cup {r} /\ engine'.available = left
        /\ engine'.poisoned = engine.poisoned /\ engine'.generation = engine.generation
        /\ engine'.current = engine.current
        /\ engine'.initialization = engine.initialization /\ Avail' \subseteq Avail
    BY <2>t, <2>1, <2>2 DEF EngineType, Avail
  <2>6. /\ \A q \in Requests : on'[q] = IF q = r THEN Top ELSE on[q]
        /\ \A q \in Requests : op'[q] = IF q = r THEN "create" ELSE op[q]
        /\ \A q \in Requests : caller'[q] = IF q = r THEN "leased" ELSE caller[q]
        /\ \A q \in Requests : q # r => caller[q] \notin {"acquiring", "leased"}
    BY <1>0, <2>1 DEF EngineInv, TypeOK, LineInOrder
  <2>7. ~engine.poisoned /\ engine.leased = {} /\ builds[Top] = "ok" /\ builds[on[r]] = "ok"
    <3>1. engine.leased = {}
      BY <1>0, <1>2, <2>6, <2>t DEF EngineInv, LeasesHeld, EngineType
    <3>2. builds[on[r]] = "ok"
      BY <1>0, <1>2 DEF EngineInv, TypeOK, LeasesHeld
    <3> QED  BY <1>2, <2>2, <3>1, <3>2 DEF EngineInv, PoolIsFree
  <2>8. secrets[Top] = {}
    <3>1. Ready
      BY <1>0, <2>7 DEF Ready
    <3> QED  BY <2>1, <2>7, <3>1 DEF EngineInv, TopIsClean
  <2>9. \A q \in Requests : q # r /\ op[q] \in Running => on[q] # Top
    BY <2>2, <2>6 DEF EngineInv, PoolIsFree
  <2>10. TypeOK'
    BY <1>0, <2>1, <2>2, <2>4 DEF EngineInv, TypeOK, Running
  <2>11. LeasesHeld'
    BY <1>0, <2>2, <2>5, <2>6, <2>7 DEF EngineInv, LeasesHeld, Running
  <2>12. PoolIsFree'
    BY <1>0, <2>5, <2>6, <2>7 DEF EngineInv, PoolIsFree
  <2>13. OneOperationPerInstance'
    BY <2>6, <2>9 DEF EngineInv, OneOperationPerInstance
  <2>14. TopIsClean'
    <3>1. \A q \in Requests : op'[q] \in Running => secrets'[on'[q]] \subseteq {q}
      BY <1>0, <2>6, <2>8 DEF EngineInv, TopIsClean
    <3>2. \A q \in Requests :
             caller'[q] \in {"acquiring", "leased"} /\ ~engine'.poisoned /\ gen'[q] # engine'.generation
               => engine'.initialization = None
      BY <1>0, <2>5, <2>6 DEF EngineInv, TopIsClean
    <3> QED  BY <1>0, <2>5, <3>1, <3>2 DEF EngineInv, TopIsClean
  <2> QED  BY <2>10, <2>11, <2>12, <2>13, <2>14 DEF CoreInv
<1> QED  BY <1>1, <1>2

LEMMA StatementCore ==
  ASSUME EngineInv, NEW r \in Requests,
         \/ \E ok, there \in BOOLEAN : CreateSecret(r, ok, there)
         \/ \E attached \in BOOLEAN : Operate(r, attached)
  PROVE  TypeOK' /\ CoreInv'
<1>1. PICK step \in Running \ {"create"}, held \in SUBSET {r} :
        /\ op[r] \in Running /\ op' = [op EXCEPT ![r] = step]
        /\ secrets' = [secrets EXCEPT ![on[r]] = @ \cup held]
        /\ UNCHANGED <<caller, on, gen, line, engine, builds, open>>
  <2>1. ASSUME NEW ok \in BOOLEAN, NEW there \in BOOLEAN, CreateSecret(r, ok, there)
        PROVE  \E step \in Running \ {"create"}, held \in SUBSET {r} :
                 /\ op[r] \in Running /\ op' = [op EXCEPT ![r] = step]
                 /\ secrets' = [secrets EXCEPT ![on[r]] = @ \cup held]
    <3> DEFINE step == IF ok THEN "operate" ELSE "drop"
               held == IF there THEN {r} ELSE {}
    <3>1. step \in Running \ {"create"} /\ held \in SUBSET {r}
      BY DEF Running
    <3>2. op[r] \in Running /\ op' = [op EXCEPT ![r] = step]
      BY <2>1 DEF CreateSecret, Running
    <3>3. secrets' = [secrets EXCEPT ![on[r]] = @ \cup held]
      BY <2>1 DEF CreateSecret
    <3> HIDE DEF step, held
    <3> QED  BY <3>1, <3>2, <3>3
  <2>2. ASSUME NEW attached \in BOOLEAN, Operate(r, attached)
        PROVE  \E step \in Running \ {"create"}, held \in SUBSET {r} :
                 /\ op[r] \in Running /\ op' = [op EXCEPT ![r] = step]
                 /\ secrets' = [secrets EXCEPT ![on[r]] = @ \cup held]
    <3> DEFINE step == IF attached THEN "detach" ELSE "drop"
    <3>1. step \in Running \ {"create"} /\ {} \in SUBSET {r}
      BY DEF Running
    <3>2. op[r] \in Running /\ op' = [op EXCEPT ![r] = step]
      BY <2>2 DEF Operate, Running
    <3>3. secrets' = [secrets EXCEPT ![on[r]] = @ \cup {}]
      BY <2>2 DEF Operate, EngineInv, TypeOK
    <3> HIDE DEF step
    <3> QED  BY <3>1, <3>2, <3>3
  <2>3. UNCHANGED <<caller, on, gen, line, engine, builds, open>>
    BY DEF CreateSecret, Operate
  <2> QED  BY <2>1, <2>2, <2>3
<1>2. on[r] \in Builds /\ builds[on[r]] = "ok"
  BY <1>1 DEF EngineInv, LeasesHeld
<1>3. /\ \A q \in Requests : op'[q] = IF q = r THEN step ELSE op[q]
      /\ \A b \in Builds : secrets'[b] = IF b = on[r] THEN secrets[b] \cup held ELSE secrets[b]
  BY <1>1, <1>2 DEF EngineInv, TypeOK
<1>4. TypeOK'
  BY <1>1, <1>2 DEF EngineInv, TypeOK
<1>5. LeasesHeld' /\ PoolIsFree' /\ OneOperationPerInstance'
  <2>1. LeasesHeld'
    BY <1>1, <1>3 DEF EngineInv, LeasesHeld, Running
  <2>2. PoolIsFree'
    BY <1>1, <1>3 DEF EngineInv, PoolIsFree, Avail
  <2>3. OneOperationPerInstance'
    BY <1>1, <1>3 DEF EngineInv, OneOperationPerInstance
  <2> QED  BY <2>1, <2>2, <2>3
<1>6. TopIsClean'
  <2>1. \A b \in Builds : secrets'[b] # {} => builds'[b] = "ok"
    BY <1>1, <1>2, <1>3 DEF EngineInv, TopIsClean
  <2>2. ASSUME NEW q \in Requests, op'[q] \in Running  PROVE secrets'[on'[q]] \subseteq {q}
    <3>1. op[q] \in Running /\ on'[q] = on[q] /\ on[q] \in Builds
      BY <1>1, <1>3, <2>2 DEF EngineInv, LeasesHeld
    <3>2. secrets[on[q]] \subseteq {q}
      BY <3>1 DEF EngineInv, TopIsClean
    <3>3. q # r => on[q] # on[r]
      BY <1>1, <3>1 DEF EngineInv, OneOperationPerInstance
    <3> QED  BY <1>3, <3>1, <3>2, <3>3
  <2>3. ASSUME ~engine.poisoned, engine.leased = {}, engine.available # <<>>, Ready
        PROVE  secrets'[Top] = {}
    <3>1. Top \in Avail /\ Top \in Builds
      BY <2>3, LastTaken DEF EngineInv, TypeOK, EngineType, Avail, Top
    <3>2. on[r] \notin Avail
      BY <1>1, <2>3 DEF EngineInv, LeasesHeld, PoolIsFree
    <3> QED  BY <1>3, <2>3, <3>1, <3>2 DEF EngineInv, TopIsClean
  <2>4. Top' = Top /\ (Ready' <=> Ready)
    BY <1>1 DEF Top, Ready
  <2> QED  BY <1>1, <2>1, <2>2, <2>3, <2>4 DEF EngineInv, TopIsClean
<1> QED  BY <1>4, <1>5, <1>6 DEF CoreInv

\* What condemning the engine, abandoning a lease or returning it does to the
\* pool; those of gone no longer hold a lease.
Moves(gone) ==
    /\ engine' \in EngineType /\ engine'.leased = engine.leased \ gone
    /\ \/ /\ engine'.leased = {} /\ ~engine'.poisoned /\ engine'.available = <<>>
          /\ engine'.current = None /\ engine'.initialization = None
       \/ /\ engine'.leased # {} /\ ~engine.poisoned /\ engine'.poisoned
          /\ engine'.available = <<>> /\ engine'.current = engine.current
          /\ engine'.initialization = engine.initialization
       \/ /\ engine'.poisoned => engine'.leased # {}
          /\ engine'.poisoned = engine.poisoned /\ engine'.available = engine.available
          /\ engine'.generation = engine.generation /\ engine'.current = engine.current
          /\ engine'.initialization = engine.initialization
          /\ gone \cap engine.leased # {} => engine.poisoned

\* The connection of r goes back to the pool.
Returns(r) ==
    /\ r \in engine.leased /\ ~engine.poisoned
    /\ engine' \in EngineType /\ engine'.leased = engine.leased \ {r}
    /\ ~engine'.poisoned /\ engine'.available = Append(engine.available, on[r])
    /\ engine'.generation = engine.generation /\ engine'.current = engine.current
    /\ engine'.initialization = engine.initialization

LEMMA MovesCases ==
  ASSUME EngineInv
  PROVE  /\ engine' = Invalidate(engine) => Moves({})
         /\ engine' = engine => Moves({})
         /\ \A r \in engine.leased :
               engine.poisoned /\ engine' = LeaseAbandoned(engine, r) => Moves({r})
<1>0. engine \in EngineType /\ (engine.poisoned => engine.leased # {})
  BY DEF EngineInv, TypeOK, LeasesHeld
<1>1. ASSUME engine' = Invalidate(engine)  PROVE Moves({})
  BY <1>0, <1>1, InvalidateFields DEF Moves
<1>2. ASSUME engine' = engine  PROVE Moves({})
  BY <1>0, <1>2 DEF Moves
<1>3. ASSUME NEW r \in engine.leased, engine.poisoned, engine' = LeaseAbandoned(engine, r)
      PROVE  Moves({r})
  <2>1. /\ engine' \in EngineType /\ engine'.leased = engine.leased \ {r}
        /\ engine'.generation = engine.generation
        /\ IF engine.leased \ {r} = {}
           THEN /\ ~engine'.poisoned /\ engine'.available = <<>>
                /\ engine'.current = None /\ engine'.initialization = None
           ELSE /\ engine'.poisoned = engine.poisoned /\ engine'.available = engine.available
                /\ engine'.current = engine.current
                /\ engine'.initialization = engine.initialization
    BY <1>0, <1>3, AbandonFields
  <2>2. CASE engine.leased \ {r} = {}
    BY <2>1, <2>2 DEF Moves
  <2>3. CASE engine.leased \ {r} # {}
    BY <1>3, <2>1, <2>3 DEF Moves
  <2> QED  BY <2>2, <2>3
<1> QED  BY <1>1, <1>2, <1>3

LEMMA DropMoves ==
  ASSUME EngineInv, NEW r \in Requests, NEW ok \in BOOLEAN, DropSecret(r, ok)
  PROVE  Moves({r}) \/ (Returns(r) /\ (ok \/ gen[r] # engine.generation))
<1> DEFINE e == IF ~ok /\ Condemns(r, engine) THEN Invalidate(engine) ELSE engine
<1>0. engine \in EngineType /\ on[r] \in Builds /\ (engine.poisoned => engine.leased # {})
  BY DEF DropSecret, EngineInv, TypeOK, LeasesHeld, Running
<1>1. engine' = FinishLease(e, r, on[r])
  BY Zenon DEF DropSecret
<1>2. CASE ~ok /\ Condemns(r, engine)
  <2>1. e = Invalidate(engine)
    BY <1>2, Zenon
  <2> HIDE DEF e
  <2>2. e \in EngineType /\ e.leased = engine.leased
    BY <1>0, <2>1, InvalidateFields
  <2>3. CASE r \notin engine.leased
    <3>1. engine' = Invalidate(engine) /\ engine.leased \ {r} = engine.leased
      BY <1>0, <1>1, <2>1, <2>2, <2>3, FinishFields
    <3> QED  BY <1>0, <2>3, <3>1, InvalidateFields DEF Moves
  <2>4. CASE r \in engine.leased
    <3>1. e.poisoned /\ e.current = engine.current /\ e.initialization = engine.initialization
          /\ IF engine.poisoned THEN e = engine ELSE e.available = <<>>
      BY <1>0, <2>1, <2>4, InvalidateFields
    <3>2. engine' = LeaseAbandoned(e, r)
      BY <1>0, <1>1, <2>2, <2>4, <3>1, FinishFields
    <3> QED  BY <1>0, <2>2, <2>4, <3>1, <3>2, AbandonFields DEF Moves
  <2> QED  BY <2>3, <2>4
<1>3. CASE ~(~ok /\ Condemns(r, engine))
  <2>1. e = engine
    BY <1>3, Zenon
  <2> HIDE DEF e
  <2>2. CASE r \notin engine.leased
    <3>1. engine' = engine /\ engine.leased \ {r} = engine.leased
      BY <1>0, <1>1, <2>1, <2>2, FinishFields
    <3> QED  BY <1>0, <2>2, <3>1 DEF Moves
  <2>3. CASE r \in engine.leased /\ engine.poisoned
    <3>1. engine' = LeaseAbandoned(engine, r)
      BY <1>0, <1>1, <2>1, <2>3, FinishFields
    <3> QED  BY <2>3, <3>1, MovesCases
  <2>4. CASE r \in engine.leased /\ ~engine.poisoned
    <3>1. Returns(r)
      BY <1>0, <1>1, <2>1, <2>4, FinishFields DEF Returns
    <3> QED  BY <1>3, <3>1 DEF Condemns
  <2> QED  BY <2>2, <2>3, <2>4
<1> QED  BY <1>2, <1>3

\* The request stops running, or goes on without its caller, or without its
\* lease; nothing else changes but the pool and the secret of r.
Leaves(r, gone, step, kept) ==
    /\ Moves(gone) /\ op[r] \in Running
    /\ step \in Running \cup {"settled"} /\ op' = [op EXCEPT ![r] = step]
    /\ secrets' = [secrets EXCEPT ![on[r]] = kept] /\ kept \subseteq secrets[on[r]]
    /\ UNCHANGED <<on, gen, builds>> /\ open' \subseteq Builds
    /\ caller' = caller \/ caller' = [caller EXCEPT ![r] = "answered"]
    /\ caller'[r] # caller[r] => step = "settled" \/ engine'.poisoned
    /\ gone = {} => step # "settled"
    /\ step = "settled" \/ gone # {} => caller'[r] # "leased"

LEMMA LeavesCore ==
  ASSUME EngineInv, NEW r \in Requests, NEW gone \in SUBSET {r}, NEW step, NEW kept,
         Leaves(r, gone, step, kept), line' \in Seq(Requests)
  PROVE  TypeOK' /\ CoreInv'
<1> USE DEF Leaves
<1>k. kept \subseteq Requests
  BY DEF EngineInv, TypeOK, LeasesHeld
<1>1. /\ \A q \in Requests : op'[q] = IF q = r THEN step ELSE op[q]
      /\ on[r] \in Builds /\ builds[on[r]] = "ok"
      /\ \A b \in Builds : secrets'[b] = IF b = on[r] THEN kept ELSE secrets[b]
      /\ \A q \in Requests : caller'[q] = caller[q] \/ (q = r /\ caller'[q] = "answered")
      /\ \A b \in Builds : secrets'[b] \subseteq secrets[b]
  BY DEF EngineInv, TypeOK, LeasesHeld
<1>2. TypeOK'
  <2>1. engine' \in EngineType
    BY DEF Moves
  <2>2. /\ caller' \in [Requests -> {"idle", "queued", "acquiring", "leased", "answered"}]
        /\ op' \in [Requests -> Running \cup {"none", "settled"}]
    BY DEF EngineInv, TypeOK
  <2>3. secrets' \in [Builds -> SUBSET Requests]
    BY <1>k DEF EngineInv, TypeOK
  <2>4. /\ on' \in [Requests -> Builds \cup {None}] /\ gen' \in [Requests -> Nat]
        /\ builds' \in [Builds -> {"none", "running", "ok", "failed"}]
    BY DEF EngineInv, TypeOK
  <2> QED  BY <2>1, <2>2, <2>3, <2>4, Zenon DEF TypeOK
<1>c. caller[r] \in {"leased", "answered"}
  <2>1. caller[r] \notin {"idle", "queued", "acquiring"}
    BY DEF EngineInv, LeasesHeld, Running
  <2>2. caller[r] \in {"idle", "queued", "acquiring", "leased", "answered"}
    BY DEF EngineInv, TypeOK
  <2> QED  BY <2>1, <2>2
<1>3. /\ engine'.leased = engine.leased \ gone
      /\ engine'.poisoned => engine'.leased # {}
      /\ engine'.available = <<>> \/ engine'.available = engine.available
      /\ engine'.initialization \in {None, engine.initialization}
  BY DEF Moves
<1>4. LeasesHeld'
  <2>1. ASSUME NEW q \in Requests, q \in engine'.leased, caller'[q] # "leased"
        PROVE  engine'.poisoned
    <3>1. CASE q = r
      <4>1. gone = {} /\ r \in engine.leased
        BY <1>3, <2>1, <3>1
      <4>2. CASE caller'[r] # caller[r]
        BY <4>1, <4>2
      <4>3. CASE caller'[r] = caller[r]
        <5>1. engine.poisoned
          BY <2>1, <3>1, <4>1, <4>3 DEF EngineInv, LeasesHeld
        <5> QED  BY <2>1, <5>1 DEF Moves
      <4> QED  BY <4>2, <4>3
    <3>2. CASE q # r
      <4>1. engine.poisoned
        BY <1>1, <1>3, <2>1, <3>2 DEF EngineInv, LeasesHeld
      <4> QED  BY <2>1, <4>1 DEF Moves
    <3> QED  BY <3>1, <3>2
  <2>2. ASSUME NEW q \in Requests, q \in engine'.leased  PROVE op'[q] \in Running
    <3>1. CASE q = r
      <4>1. gone = {}
        BY <1>3, <2>2, <3>1
      <4> QED  BY <1>1, <3>1, <4>1
    <3>2. CASE q # r
      BY <1>1, <1>3, <2>2, <3>2 DEF EngineInv, LeasesHeld
    <3> QED  BY <3>1, <3>2
  <2>3. ASSUME NEW q \in Requests, caller'[q] = "leased"  PROVE q \in engine'.leased
    BY <1>1, <1>3, <2>3 DEF EngineInv, LeasesHeld
  <2>4. ASSUME NEW q \in Requests
        PROVE  /\ caller'[q] \in {"idle", "queued", "acquiring"} => op'[q] = "none"
               /\ caller'[q] = "acquiring" => on'[q] \in Builds /\ builds'[on'[q]] # "none"
               /\ op'[q] \in Running => on'[q] \in Builds /\ builds'[on'[q]] = "ok"
    BY <1>1, <1>c DEF EngineInv, LeasesHeld, Running
  <2>5. engine'.initialization # None => builds'[engine'.initialization] # "none"
    BY <1>3 DEF EngineInv, LeasesHeld
  <2> QED  BY <1>3, <2>1, <2>2, <2>3, <2>4, <2>5 DEF LeasesHeld
<1>5. PoolIsFree'
  <2>1. CASE engine'.available = <<>>
    <3>1. Avail' = {}
      BY <2>1 DEF Avail, Elements
    <3> QED  BY <3>1 DEF PoolIsFree
  <2>2. CASE engine'.available # <<>>
    <3>1. engine'.available = engine.available /\ engine'.poisoned = engine.poisoned
          /\ Avail' = Avail /\ (gone \cap engine.leased # {} => engine.poisoned)
      BY <2>2 DEF Moves, Avail
    <3>2. ASSUME NEW q \in Requests, op'[q] \in Running, engine'.poisoned \/ caller'[q] # "leased"
          PROVE  on[q] \notin Avail
      <4>1. op[q] \in Running
        BY <1>1, <3>2
      <4>2. CASE engine'.poisoned
        BY <3>1, <4>1, <4>2 DEF EngineInv, PoolIsFree
      <4>3. CASE ~engine'.poisoned
        <5>1. caller'[q] = caller[q]
          <6>1. q = r => step # "settled"
            BY <1>1, <3>2 DEF Running
          <6> QED  BY <1>1, <4>3, <6>1
        <5> QED  BY <3>2, <4>1, <4>3, <5>1 DEF EngineInv, PoolIsFree
      <4> QED  BY <4>2, <4>3
    <3> QED  BY <3>1, <3>2 DEF EngineInv, PoolIsFree
  <2> QED  BY <2>1, <2>2
<1>6. OneOperationPerInstance'
  BY <1>1 DEF EngineInv, OneOperationPerInstance
<1>7. TopIsClean'
  <2>1. /\ \A b \in Builds : secrets'[b] # {} => builds'[b] = "ok"
        /\ \A q \in Requests : op'[q] \in Running => secrets'[on'[q]] \subseteq {q}
    <3>1. \A b \in Builds : secrets'[b] # {} => builds'[b] = "ok"
      BY <1>1 DEF EngineInv, TopIsClean
    <3>2. ASSUME NEW q \in Requests, op'[q] \in Running
          PROVE  secrets'[on'[q]] \subseteq {q}
      <4>1. op[q] \in Running /\ on[q] \in Builds /\ on'[q] = on[q]
        BY <1>1, <3>2 DEF EngineInv, LeasesHeld
      <4>2. secrets[on[q]] \subseteq {q}
        BY <4>1 DEF EngineInv, TopIsClean
      <4> QED  BY <1>1, <4>1, <4>2
    <3> QED  BY <3>1, <3>2
  <2>2. ASSUME ~engine'.poisoned, engine'.leased = {}, engine'.available # <<>>, Ready'
        PROVE  secrets'[Top'] = {}
    <3>1. /\ engine'.available = engine.available /\ ~engine.poisoned
          /\ engine'.initialization = engine.initialization
          /\ engine.leased = {} /\ Top' = Top
      BY <1>3, <2>2 DEF Moves, Top
    <3>2. Ready
      BY <1>1, <2>2, <3>1 DEF Ready
    <3>3. Top \in Builds
      BY <2>2, <3>1, LastTaken DEF EngineInv, TypeOK, EngineType, Top
    <3> QED  BY <1>1, <2>2, <3>1, <3>2, <3>3 DEF EngineInv, TopIsClean
  <2>3. ASSUME NEW q \in Requests, caller'[q] \in {"acquiring", "leased"}, ~engine'.poisoned,
               gen'[q] # engine'.generation
        PROVE  engine'.initialization = None
    <3>1. caller[q] \in {"acquiring", "leased"}
      BY <1>1, <2>3
    <3> QED  BY <2>3, <3>1 DEF Moves, EngineInv, TopIsClean
  <2> QED  BY <2>1, <2>2, <2>3 DEF TopIsClean
<1> QED  BY <1>2, <1>4, <1>5, <1>6, <1>7 DEF CoreInv

\* The statements that end an operation, and its timers.
LEMMA EndingCore ==
  ASSUME EngineInv, NEW r \in Requests, line' \in Seq(Requests),
         \/ \E ok \in BOOLEAN : Detach(r, ok) \/ DropSecret(r, ok)
         \/ Timeout(r) \/ Grace(r)
  PROVE  TypeOK' /\ CoreInv'
<1>0. /\ op \in [Requests -> Running \cup {"none", "settled"}]
      /\ secrets \in [Builds -> SUBSET Requests] /\ open \subseteq Builds
      /\ caller \in [Requests -> {"idle", "queued", "acquiring", "leased", "answered"}]
  BY DEF EngineInv, TypeOK
<1>o. Close => open' \subseteq Builds
  BY <1>0 DEF Close
<1>1. ASSUME NEW ok \in BOOLEAN, Detach(r, ok)  PROVE TypeOK' /\ CoreInv'
  <2>1. Moves({})
    BY <1>1, MovesCases DEF Detach
  <2>2. on[r] \in Builds /\ op[r] \in Running
    BY <1>1 DEF Detach, EngineInv, LeasesHeld, Running
  <2>3. /\ op' = [op EXCEPT ![r] = "drop"] /\ "drop" \in Running \cup {"settled"}
        /\ UNCHANGED <<caller, on, gen, line, builds, secrets>>
        /\ secrets' = [secrets EXCEPT ![on[r]] = secrets[on[r]]]
        /\ secrets[on[r]] \in SUBSET Requests /\ open' \subseteq Builds
    BY <1>0, <1>1, <1>o, <2>2 DEF Detach, Running
  <2>4. Leaves(r, {}, "drop", secrets[on[r]])
    BY <2>1, <2>2, <2>3 DEF Leaves
  <2> QED  BY <2>4, LeavesCore
<1>2. ASSUME Timeout(r)  PROVE TypeOK' /\ CoreInv'
  <2>1. Moves({}) /\ engine'.poisoned
    <3>1. r \in engine.leased
      BY <1>2 DEF Timeout, EngineInv, LeasesHeld
    <3>2. engine' = Invalidate(engine)
      BY <1>2 DEF Timeout
    <3>3. engine'.poisoned
      BY <3>1, <3>2, InvalidateFields DEF EngineInv, TypeOK
    <3> QED  BY <3>2, <3>3, MovesCases
  <2>2. on[r] \in Builds /\ op[r] \in Running
    BY <1>2 DEF Timeout, EngineInv, LeasesHeld, Running
  <2>3. /\ op' = [op EXCEPT ![r] = op[r]] /\ caller' = [caller EXCEPT ![r] = "answered"]
        /\ UNCHANGED <<on, gen, builds, secrets>>
        /\ secrets' = [secrets EXCEPT ![on[r]] = secrets[on[r]]]
        /\ secrets[on[r]] \in SUBSET Requests /\ open' \subseteq Builds
    BY <1>0, <1>2, <2>2 DEF Timeout, Release, Running
  <2>4. Leaves(r, {}, op[r], secrets[on[r]])
    BY <2>1, <2>2, <2>3 DEF Leaves, Running
  <2> QED  BY <2>4, LeavesCore
<1>3. ASSUME Grace(r)  PROVE TypeOK' /\ CoreInv'
  <2>1. Moves({r})
    <3>1. r \in engine.leased /\ engine.poisoned
      BY <1>3 DEF Grace, EngineInv, LeasesHeld
    <3> QED  BY <1>3, <3>1, MovesCases DEF Grace
  <2>2. on[r] \in Builds /\ op[r] \in Running /\ caller[r] = "answered"
    BY <1>3 DEF Grace, EngineInv, LeasesHeld, Running
  <2>3. /\ op' = [op EXCEPT ![r] = op[r]] /\ caller' = caller
        /\ UNCHANGED <<on, gen, builds, secrets>>
        /\ secrets' = [secrets EXCEPT ![on[r]] = secrets[on[r]]]
        /\ secrets[on[r]] \in SUBSET Requests /\ open' \subseteq Builds
    BY <1>0, <1>3, <1>o, <2>2 DEF Grace
  <2>4. Leaves(r, {r}, op[r], secrets[on[r]])
    BY <2>1, <2>2, <2>3 DEF Leaves
  <2> QED  BY <2>4, LeavesCore
<1>4. ASSUME NEW ok \in BOOLEAN, DropSecret(r, ok)  PROVE TypeOK' /\ CoreInv'
  <2> DEFINE kept == IF ok THEN secrets[on[r]] \ {r} ELSE secrets[on[r]]
  <2>1. on[r] \in Builds /\ op[r] \in Running /\ builds[on[r]] = "ok"
    BY <1>4 DEF DropSecret, EngineInv, LeasesHeld, Running
  <2>2. /\ op' = [op EXCEPT ![r] = "settled"]
        /\ secrets' = [secrets EXCEPT ![on[r]] = kept]
        /\ UNCHANGED <<on, gen, builds>> /\ open' \subseteq Builds
        /\ kept \in SUBSET Requests /\ kept \subseteq secrets[on[r]]
        /\ ok => r \notin kept
    BY <1>0, <1>4, <1>o, <2>1 DEF DropSecret
  <2>3. /\ caller' = caller \/ caller' = [caller EXCEPT ![r] = "answered"]
        /\ caller'[r] # "leased"
    BY <1>0, <1>4 DEF DropSecret, Release
  <2> HIDE DEF kept
  <2>4. CASE Moves({r})
    <3>1. Leaves(r, {r}, "settled", kept)
      BY <2>1, <2>2, <2>3, <2>4 DEF Leaves
    <3> QED  BY <3>1, LeavesCore
  <2>5. CASE Returns(r) /\ (ok \/ gen[r] # engine.generation)
    <3>1. caller[r] = "leased" /\ engine.leased = {r} /\ ~engine.poisoned
      <4>1. \A q \in engine.leased : caller[q] = "leased" /\ Head(line) = q
        BY <2>5 DEF Returns, EngineInv, LeasesHeld, LineInOrder, TypeOK, EngineType
      <4> QED  BY <2>5, <4>1 DEF Returns
    <3>2. /\ caller' = [caller EXCEPT ![r] = "answered"]
          /\ \A q \in Requests : caller'[q] \notin {"acquiring", "leased"}
      <4>1. caller' = [caller EXCEPT ![r] = "answered"]
        BY <1>4, <3>1 DEF DropSecret, Release
      <4>2. \A q \in Requests : caller[q] \in {"acquiring", "leased"} => q = r
        BY <3>1 DEF EngineInv, LineInOrder
      <4> QED  BY <1>0, <4>1, <4>2
    <3>3. /\ engine'.available \in Seq(Builds) /\ Avail' = Avail \cup {on[r]} /\ Top' = on[r]
      <4>1. engine.available \in Seq(Builds) /\ engine'.available = Append(engine.available, on[r])
        BY <2>5 DEF Returns, EngineInv, TypeOK, EngineType
      <4>2. /\ Append(engine.available, on[r]) \in Seq(Builds)
            /\ Elements(Append(engine.available, on[r])) = Avail \cup {on[r]}
        BY <2>1, <4>1, AppendElements DEF Avail
      <4>3. Top' = on[r]
        BY <4>1 DEF Top
      <4> QED  BY <4>1, <4>2, <4>3 DEF Avail
    <3>4. /\ \A q \in Requests : op'[q] = IF q = r THEN "settled" ELSE op[q]
          /\ \A b \in Builds : secrets'[b] \subseteq secrets[b]
          /\ secrets'[on[r]] = kept /\ engine'.leased = {} /\ ~engine'.poisoned
      BY <1>0, <2>1, <2>2, <2>5, <3>1 DEF Returns
    <3>5. TypeOK'
      BY <1>0, <2>2, <2>5, <3>2 DEF EngineInv, TypeOK, Returns
    <3>6. LeasesHeld'
      BY <1>0, <2>2, <2>5, <3>1, <3>2, <3>4 DEF EngineInv, LeasesHeld, Returns, Running
    <3>7. PoolIsFree'
      <4>1. ASSUME NEW q \in Requests, op'[q] \in Running  PROVE on[q] \notin Avail \cup {on[r]}
        <5>1. q # r /\ op[q] \in Running
          BY <3>4, <4>1 DEF Running
        <5>2. on[q] # on[r]
          BY <2>1, <5>1 DEF EngineInv, OneOperationPerInstance
        <5>3. caller[q] # "leased"
          BY <3>1, <5>1 DEF EngineInv, LeasesHeld
        <5> QED  BY <5>1, <5>2, <5>3 DEF EngineInv, PoolIsFree
      <4>2. \A b \in Avail \cup {on[r]} : builds'[b] = "ok"
        BY <2>1, <2>2 DEF EngineInv, PoolIsFree
      <4> QED  BY <2>2, <3>3, <4>1, <4>2 DEF PoolIsFree
    <3>8. OneOperationPerInstance'
      BY <2>2, <3>4 DEF EngineInv, OneOperationPerInstance, Running
    <3>9. TopIsClean'
      <4>1. secrets[on[r]] \subseteq {r}
        BY <2>1 DEF EngineInv, TopIsClean
      <4>2. CASE ok
        <5>1. secrets'[Top'] = {}
          BY <2>2, <3>3, <3>4, <4>1, <4>2
        <5> QED  BY <2>2, <3>2, <3>4, <5>1 DEF EngineInv, TopIsClean, Running
      <4>3. CASE ~ok
        <5>1. engine.initialization = None
          BY <2>5, <3>1, <4>3 DEF EngineInv, TopIsClean
        <5>2. ~Ready'
          BY <2>5, <3>2, <5>1 DEF Returns, Ready
        <5> QED  BY <2>2, <3>2, <3>4, <5>2 DEF EngineInv, TopIsClean, Running
      <4> QED  BY <4>2, <4>3
    <3> QED  BY <3>5, <3>6, <3>7, <3>8, <3>9 DEF CoreInv
  <2> QED  BY <1>4, <2>4, <2>5, DropMoves
<1> QED  BY <1>1, <1>2, <1>3, <1>4

LEMMA EngineStep ==
  ASSUME EngineInv, Next
  PROVE  EngineInv'
<1>1. LineInOrder' /\ line' \in Seq(Requests) /\ BuildsCounted'
  BY LineStep, BuildsStep DEF EngineInv
<1>2. TypeOK' /\ CoreInv'
  <2>1. ASSUME NEW r \in Requests, WaitTimeout(r)  PROVE TypeOK' /\ CoreInv'
    BY <1>1, <2>1, WaitCore DEF WaitTimeout
  <2>2. ASSUME NEW r \in Requests, Operation(r)  PROVE TypeOK' /\ CoreInv'
    BY <1>1, <2>2, StatementCore, EndingCore DEF Operation
  <2>3. ASSUME NEW r \in Requests, Timers(r)  PROVE TypeOK' /\ CoreInv'
    BY <1>1, <2>1, <2>3, EndingCore DEF Timers
  <2> QED  BY <1>1, <2>2, <2>3, CallCore, EnterCore, AcquireCore, BuildCore DEF Next
<1> QED  BY <1>1, <1>2 DEF EngineInv, CoreInv

LEMMA EngineInit == Init => EngineInv
<1> SUFFICES ASSUME Init  PROVE EngineInv
  OBVIOUS
<1>1. Started = {} /\ Entered = {} /\ Avail = {}
  BY DEF Init, Started, Entered, Avail, Elements
<1>2. BuildsCounted
  BY <1>1, FS_EmptySet DEF BuildsCounted
<1>3. TypeOK
  <2>1. engine \in EngineType /\ line \in Seq(Requests)
    BY DEF Init, EngineType
  <2> QED  BY <2>1 DEF Init, TypeOK
<1>4. LineInOrder
  BY DEF Init, LineInOrder, NoRepeats, Elements
<1>5. LeasesHeld /\ PoolIsFree /\ OneOperationPerInstance /\ TopIsClean
  BY <1>1 DEF Init, LeasesHeld, PoolIsFree, OneOperationPerInstance, TopIsClean, Running
<1> QED  BY <1>2, <1>3, <1>4, <1>5 DEF EngineInv

LEMMA EngineAlways == Spec => []EngineInv
<1>1. EngineInv /\ [Next]_vars => EngineInv'
  <2>1. EngineInv /\ UNCHANGED vars => EngineInv'
    BY DEF vars, EngineInv, TypeOK, BuildsCounted, Started, Entered, LineInOrder, LeasesHeld,
           PoolIsFree, Avail, OneOperationPerInstance, TopIsClean, Top, Ready
  <2> QED  BY <2>1, EngineStep
<1> QED  BY <1>1, EngineInit, PTL DEF Spec

(* Whatever hangs, is abandoned or fails to clean up, for any number of     *)
(* requests: the statements of a query run on an instance that holds no     *)
(* temporary secret but its own (withStorageSecret).                        *)
THEOREM QueriesMeetOwnSecret == Spec => []NoForeignSecret
<1>1. EngineInv => NoForeignSecret
  BY DEF EngineInv, TopIsClean, NoForeignSecret, Running
<1> QED  BY <1>1, EngineAlways, PTL

(* Two operations never run on one instance, one of them an orphan or not:  *)
(* the pool holds no connection of an instance an orphan may be running on. *)
THEOREM OperationsRunAlone == Spec => []OneOperationPerInstance
<1>1. EngineInv => OneOperationPerInstance
  BY DEF EngineInv
<1> QED  BY <1>1, EngineAlways, PTL

-----------------------------------------------------------------------------
(* Where DETACH does not fail.                                              *)

DetachWorks == "detach" \notin Faults

\* The installed instance, if the engine has one.
Installed == engine.initialization # None /\ builds[engine.initialization] = "ok"

\* Only the request whose turn it is can condemn the engine, and only one
\* instance is in the making or in use.
PoolInv ==
    /\ \A r \in Requests :
          /\ gen[r] <= engine.generation
          /\ caller[r] \in {"acquiring", "leased"} =>
                ~engine.poisoned /\ gen[r] = engine.generation
          /\ op[r] \in Running /\ caller[r] # "leased" => gen[r] < engine.generation
          /\ r \in engine.leased => on[r] = engine.current
          /\ caller[r] = "acquiring" /\ builds[on[r]] \in {"running", "ok"} =>
                engine.initialization = on[r]
    /\ \A b \in Builds : builds[b] = "running" => engine.initialization = b
    /\ Installed =>
          /\ engine.current = engine.initialization
          /\ ~engine.poisoned =>
                Len(engine.available) = IF engine.leased = {} THEN PoolSize ELSE PoolSize - 1
    /\ ~Installed =>
          /\ engine.current = None /\ engine.available = <<>> /\ engine.leased = {}
          /\ engine.initialization # None => builds[engine.initialization] = "running"
    /\ Avail \subseteq {engine.current}
    /\ open \subseteq {engine.current}

LEMMA PoolInit == Init => PoolInv
<1> SUFFICES ASSUME Init  PROVE PoolInv
  OBVIOUS
<1>1. Avail = {} /\ ~Installed
  BY DEF Init, Installed, Avail, Elements
<1> QED  BY <1>1 DEF Init, PoolInv, Running

LEMMA PoolBefore ==
  ASSUME EngineInv, PoolInv, NEW r \in Requests, Call(r) \/ WaitTimeout(r) \/ Enter(r)
  PROVE  PoolInv'
<1>t. /\ engine \in EngineType /\ gen \in [Requests -> Nat] /\ engine.generation \in Nat
      /\ caller \in [Requests -> {"idle", "queued", "acquiring", "leased", "answered"}]
  BY DEF EngineInv, TypeOK, EngineType
<1>0. \A q \in Requests : op[q] \in Running => caller[q] \in {"leased", "answered"}
  BY <1>t DEF EngineInv, LeasesHeld, Running
<1>1. CASE Call(r)
  <2>1. /\ UNCHANGED <<op, on, engine, builds, open>>
        /\ \A q \in Requests : q # r => caller'[q] = caller[q] /\ gen'[q] = gen[q]
        /\ caller'[r] \in {"queued", "answered"} /\ op[r] = "none"
        /\ gen'[r] = gen[r] \/ gen'[r] = engine.generation
    BY <1>1, <1>t DEF Call, Release, EngineInv, LeasesHeld
  <2>2. Avail' = Avail /\ (Installed' <=> Installed)
    BY <2>1 DEF Avail, Installed
  <2> QED  BY <1>t, <2>1, <2>2 DEF PoolInv, Running
<1>2. ASSUME Release(r), caller[r] \in {"queued", "acquiring"},
             UNCHANGED <<op, on, gen, engine, builds, open, secrets>>
      PROVE  PoolInv'
  <2>1. \A q \in Requests : caller'[q] = IF q = r THEN "answered" ELSE caller[q]
    BY <1>2, <1>t DEF Release
  <2>2. Avail' = Avail /\ (Installed' <=> Installed) /\ op[r] \notin Running
    BY <1>0, <1>2 DEF Avail, Installed
  <2> QED  BY <1>2, <2>1, <2>2 DEF PoolInv
<1>3. CASE Enter(r) /\ ~Outdated(r)
  <2>0. /\ caller[r] = "queued" /\ UNCHANGED <<op, gen, open, secrets>>
        /\ \A q \in Requests : caller'[q] = IF q = r THEN "acquiring" ELSE caller[q]
        /\ ~engine.poisoned /\ gen[r] = engine.generation /\ op[r] \notin Running
    BY <1>0, <1>3, <1>t DEF Enter, InTurn, Outdated
  <2>1. CASE engine.initialization # None
    <3>1. /\ \A q \in Requests : on'[q] = IF q = r THEN engine.initialization ELSE on[q]
          /\ UNCHANGED <<engine, builds>>
      BY <1>3, <2>1 DEF Enter, EngineInv, TypeOK
    <3>2. Avail' = Avail /\ (Installed' <=> Installed) /\ r \notin engine.leased
      BY <2>0, <3>1 DEF Avail, Installed, EngineInv, LeasesHeld
    <3> QED  BY <2>0, <3>1, <3>2 DEF PoolInv
  <2>2. CASE engine.initialization = None
    <3> DEFINE new == NextBuild
    <3>1. /\ on' = [on EXCEPT ![r] = new]
          /\ engine' = [engine EXCEPT !.initialization = new]
          /\ builds' = [builds EXCEPT ![new] = "running"]
      BY <1>3, <2>2 DEF Enter
    <3>2. new \in Builds /\ builds[new] = "none"
      <4>1. r \notin Entered
        BY <2>0 DEF Entered
      <4> QED  BY <4>1, NextBuildFits DEF EngineInv
    <3> HIDE DEF new
    <3>3. /\ \A q \in Requests : on'[q] = IF q = r THEN new ELSE on[q]
          /\ \A b \in Builds : builds'[b] = IF b = new THEN "running" ELSE builds[b]
          /\ engine'.initialization = new
          /\ engine'.poisoned = engine.poisoned /\ engine'.leased = engine.leased
          /\ engine'.available = engine.available /\ engine'.generation = engine.generation
          /\ engine'.current = engine.current /\ new # None
      BY <1>t, <3>1, <3>2 DEF EngineInv, TypeOK, EngineType, Builds, None
    <3>4. Avail' = Avail /\ ~Installed /\ ~Installed' /\ r \notin engine.leased
      BY <2>0, <2>2, <3>2, <3>3 DEF Avail, Installed, EngineInv, LeasesHeld
    <3>5. \A q \in Requests : caller'[q] \in {"acquiring", "leased"} => q = r
      BY <2>0, <1>3 DEF Enter, InTurn, EngineInv, LineInOrder
    <3>6. \A b \in Builds : builds[b] # "running"
      BY <2>2 DEF PoolInv, Builds, None
    <3> QED  BY <2>0, <3>2, <3>3, <3>4, <3>5, <3>6 DEF PoolInv
  <2> QED  BY <2>1, <2>2
<1>4. CASE Enter(r) /\ Outdated(r)
  BY <1>2, <1>4 DEF Enter, InTurn
<1>5. CASE WaitTimeout(r)
  BY <1>2, <1>5 DEF WaitTimeout
<1> QED  BY <1>1, <1>3, <1>4, <1>5

LEMMA PoolAcquire ==
  ASSUME EngineInv, PoolInv, NEW r \in Requests, Acquire(r)
  PROVE  PoolInv'
<1>t. /\ engine \in EngineType /\ engine.available \in Seq(Builds)
      /\ caller \in [Requests -> {"idle", "queued", "acquiring", "leased", "answered"}]
      /\ PoolSize \in Nat \ {0}
  BY PoolAssumption DEF EngineInv, TypeOK, EngineType
<1>0. /\ caller[r] = "acquiring" /\ builds[on[r]] # "running" /\ op[r] = "none"
      /\ UNCHANGED <<gen, builds, open, secrets>>
  BY DEF Acquire, EngineInv, LeasesHeld
<1>1. CASE builds[on[r]] = "failed" \/ engine.poisoned
  <2>1. Release(r) /\ UNCHANGED <<op, on, engine>>
    BY <1>1 DEF Acquire
  <2>2. WaitTimeout(r)
    BY <1>0, <2>1 DEF WaitTimeout
  <2> QED  BY <2>2, PoolBefore
<1>2. CASE ~(builds[on[r]] = "failed" \/ engine.poisoned)
  <2> DEFINE left == SubSeq(engine.available, 1, Len(engine.available) - 1)
  <2>1. /\ engine.available # <<>>
        /\ engine' = [engine EXCEPT !.leased = @ \cup {r}, !.available = left]
        /\ on' = [on EXCEPT ![r] = Top] /\ op' = [op EXCEPT ![r] = "create"]
        /\ caller' = [caller EXCEPT ![r] = "leased"]
    BY <1>2, Zenon DEF Acquire, Top
  <2>2. /\ left \in Seq(Builds) /\ Elements(left) \subseteq Avail /\ Top \in Avail
        /\ Len(left) = Len(engine.available) - 1
    BY <1>t, <2>1, LastTaken DEF Avail, Top
  <2> HIDE DEF left
  <2>3. /\ engine'.leased = engine.leased \cup {r} /\ engine'.available = left
        /\ engine'.poisoned = engine.poisoned /\ engine'.generation = engine.generation
        /\ engine'.current = engine.current
        /\ engine'.initialization = engine.initialization /\ Avail' \subseteq Avail
    BY <1>t, <2>1, <2>2 DEF EngineType, Avail
  <2>4. /\ \A q \in Requests : on'[q] = IF q = r THEN Top ELSE on[q]
        /\ \A q \in Requests : op'[q] = IF q = r THEN "create" ELSE op[q]
        /\ \A q \in Requests : caller'[q] = IF q = r THEN "leased" ELSE caller[q]
        /\ \A q \in Requests : q # r => caller[q] \notin {"acquiring", "leased"}
    BY <1>0, <2>1 DEF EngineInv, TypeOK, LineInOrder
  <2>5. engine.leased = {} /\ builds[on[r]] = "ok" /\ on[r] \in Builds
    <3>1. engine.leased = {}
      BY <1>0, <1>2, <2>4, <1>t DEF EngineInv, LeasesHeld, EngineType
    <3> QED  BY <1>0, <1>2, <3>1 DEF EngineInv, TypeOK, LeasesHeld
  <2>6. Installed /\ (Installed' <=> Installed) /\ Top = engine.current
        /\ Len(engine.available) = PoolSize
    BY <1>0, <1>2, <2>2, <2>3, <2>5 DEF PoolInv, Installed, Builds, None
  <2>7. ASSUME NEW q \in Requests
        PROVE  /\ gen'[q] <= engine'.generation
               /\ caller'[q] \in {"acquiring", "leased"} =>
                     ~engine'.poisoned /\ gen'[q] = engine'.generation
               /\ op'[q] \in Running /\ caller'[q] # "leased" => gen'[q] < engine'.generation
               /\ q \in engine'.leased => on'[q] = engine'.current
               /\ caller'[q] = "acquiring" /\ builds'[on'[q]] \in {"running", "ok"} =>
                     engine'.initialization = on'[q]
    BY <1>0, <2>3, <2>4, <2>5, <2>6 DEF PoolInv
  <2>8. Len(engine'.available) = PoolSize - 1 /\ engine'.leased # {}
    BY <2>2, <2>3, <2>6
  <2> QED  BY <1>0, <2>3, <2>6, <2>7, <2>8 DEF PoolInv
<1> QED  BY <1>1, <1>2

LEMMA PoolBuild ==
  ASSUME EngineInv, PoolInv, NEW b \in Builds, BuildSucceeds(b) \/ BuildFails(b)
  PROVE  PoolInv'
<1>t. /\ engine \in EngineType /\ engine.available \in Seq(Builds) /\ b # None
      /\ builds \in [Builds -> {"none", "running", "ok", "failed"}]
      /\ PoolSize \in Nat \ {0}
  BY PoolAssumption DEF EngineInv, TypeOK, EngineType, Builds, None
<1>0. /\ builds[b] = "running" /\ UNCHANGED <<caller, op, on, gen, line, secrets>>
      /\ engine.initialization = b /\ engine.available = <<>> /\ engine.leased = {}
      /\ engine.current = None /\ \A c \in Builds : builds[c] = "running" => c = b
  BY DEF BuildSucceeds, BuildFails, PoolInv, Installed
<1>o. open \subseteq {None} /\ open \subseteq Builds /\ None \notin Builds
  BY <1>0 DEF PoolInv, EngineInv, TypeOK, Builds, None
<1>1. CASE BuildSucceeds(b)
  <2> DEFINE pool == engine.available \o [n \in 1 .. PoolSize |-> b]
  <2>1. /\ pool \in Seq(Builds) /\ Elements(pool) = Avail \cup {b}
        /\ pool[Len(pool)] = b /\ Len(pool) = Len(engine.available) + PoolSize
    BY <1>t, CopiesAdded DEF Avail
  <2>a. Len(pool) = PoolSize /\ Elements(pool) = {b}
    BY <1>0, <1>t, <2>1 DEF Avail, Elements
  <2>2. /\ builds' = [builds EXCEPT ![b] = "ok"] /\ open' = open \cup {b}
        /\ engine' = [engine EXCEPT !.current = b, !.available = pool]
    BY <1>1 DEF BuildSucceeds
  <2> HIDE DEF pool
  <2>3. /\ \A c \in Builds : builds'[c] = IF c = b THEN "ok" ELSE builds[c]
        /\ engine'.initialization = engine.initialization
        /\ engine'.poisoned = engine.poisoned /\ engine'.leased = engine.leased
        /\ engine'.available = pool /\ engine'.generation = engine.generation
        /\ engine'.current = b /\ Avail' = {b}
    BY <1>t, <2>a, <2>2 DEF EngineType, Avail
  <2>4. Installed' /\ open' = {b}
    BY <1>0, <1>t, <1>o, <2>2, <2>3 DEF Installed
  <2>5. ASSUME NEW q \in Requests, caller[q] = "acquiring", builds'[on[q]] \in {"running", "ok"}
        PROVE  engine.initialization = on[q]
    <3>1. on[q] \in Builds
      BY <2>5 DEF EngineInv, LeasesHeld
    <3> QED  BY <1>0, <2>3, <2>5, <3>1 DEF PoolInv
  <2> QED  BY <1>0, <2>a, <2>3, <2>4, <2>5 DEF PoolInv
<1>2. CASE BuildFails(b)
  <2>2. /\ builds' = [builds EXCEPT ![b] = "failed"] /\ open' = open
        /\ engine' = [engine EXCEPT !.initialization = None]
    BY <1>2 DEF BuildFails
  <2>3. /\ \A c \in Builds : builds'[c] = IF c = b THEN "failed" ELSE builds[c]
        /\ engine'.initialization = None
        /\ engine'.poisoned = engine.poisoned /\ engine'.leased = engine.leased
        /\ engine'.available = engine.available /\ engine'.generation = engine.generation
        /\ engine'.current = engine.current /\ Avail' = Avail /\ ~Installed'
    BY <1>t, <2>2 DEF EngineType, Avail, Installed
  <2>5. ASSUME NEW q \in Requests, caller[q] = "acquiring"
        PROVE  builds'[on[q]] \notin {"running", "ok"}
    <3>1. on[q] \in Builds
      BY <2>5 DEF EngineInv, LeasesHeld
    <3> QED  BY <1>0, <2>3, <2>5, <3>1 DEF PoolInv
  <2> QED  BY <1>0, <2>2, <2>3, <2>5 DEF PoolInv
<1> QED  BY <1>1, <1>2

LEMMA PoolStatement ==
  ASSUME EngineInv, PoolInv, NEW r \in Requests,
         \/ \E ok, there \in BOOLEAN : CreateSecret(r, ok, there)
         \/ \E attached \in BOOLEAN : Operate(r, attached)
  PROVE  PoolInv'
<1>1. /\ op[r] \in Running /\ UNCHANGED <<caller, on, gen, line, engine, builds, open>>
      /\ \A q \in Requests : q # r => op'[q] = op[q]
  BY DEF CreateSecret, Operate, Running, EngineInv, TypeOK
<1>2. Avail' = Avail /\ (Installed' <=> Installed)
  BY <1>1 DEF Avail, Installed
<1> QED  BY <1>1, <1>2 DEF PoolInv

\* A leased caller is alone: its lease is the only one.
LEMMA LoneLease ==
  ASSUME EngineInv, PoolInv, NEW r \in Requests, caller[r] = "leased"
  PROVE  /\ engine.leased = {r} /\ ~engine.poisoned /\ Installed /\ op[r] \in Running
         /\ gen[r] = engine.generation /\ on[r] = engine.current
         /\ \A q \in Requests : q # r => caller[q] \notin {"acquiring", "leased"}
<1>1. r \in engine.leased /\ ~engine.poisoned /\ gen[r] = engine.generation
  BY DEF EngineInv, LeasesHeld, PoolInv
<1>2. \A q \in Requests : q # r => caller[q] \notin {"acquiring", "leased"}
  BY DEF EngineInv, LineInOrder
<1>3. engine.leased \subseteq {r}
  BY <1>1, <1>2 DEF EngineInv, TypeOK, EngineType, LeasesHeld
<1>4. Installed /\ on[r] = engine.current /\ op[r] \in Running
  BY <1>1 DEF PoolInv, EngineInv, LeasesHeld
<1> QED  BY <1>1, <1>2, <1>3, <1>4

\* Neither does a statement that ends change anything else.
Ends(r) ==
    /\ engine' \in EngineType /\ UNCHANGED <<on, gen, builds>>
    /\ op[r] \in Running
    /\ \A q \in Requests : op'[q] \in Running => op[q] \in Running
    /\ \A q \in Requests : caller'[q] = caller[q] \/ (q = r /\ caller'[q] = "answered")
    /\ caller'[r] # caller[r] =>
          op'[r] \notin Running \/ engine'.generation > engine.generation
    /\ engine'.generation >= engine.generation
    /\ open' \subseteq {engine'.current}

NobodyIn == \A q \in Requests : caller[q] \notin {"acquiring", "leased"}

LEMMA PoolKeeps ==
  ASSUME EngineInv, PoolInv, NEW r \in Requests, Ends(r), engine' = engine
  PROVE  PoolInv'
<1>1. Avail' = Avail /\ (Installed' <=> Installed)
  BY DEF Ends, Avail, Installed
<1>2. engine.generation \in Nat
  BY DEF EngineInv, TypeOK, EngineType
<1> QED  BY <1>1, <1>2 DEF Ends, PoolInv

LEMMA PoolEmptied ==
  ASSUME EngineInv, PoolInv, NEW r \in Requests, Ends(r), engine.leased # {},
         engine'.leased = {}, ~engine'.poisoned, engine'.available = <<>>,
         engine'.current = None, engine'.initialization = None, NobodyIn'
  PROVE  PoolInv'
<1>1. Avail' = {} /\ ~Installed'
  BY DEF Avail, Installed, Elements
<1>2. engine.generation \in Nat /\ engine'.generation \in Nat /\ gen \in [Requests -> Nat]
  BY DEF EngineInv, TypeOK, EngineType, Ends
<1>3. \A b \in Builds : builds[b] # "running"
  BY DEF PoolInv, Installed
<1>4. \A q \in Requests : gen'[q] <= engine'.generation
  BY <1>2 DEF Ends, PoolInv
<1>5. ASSUME NEW q \in Requests, op'[q] \in Running, caller'[q] # "leased"
      PROVE  gen'[q] < engine'.generation
  BY <1>2, <1>5 DEF Ends, PoolInv
<1> QED  BY <1>1, <1>3, <1>4, <1>5 DEF Ends, PoolInv, NobodyIn

LEMMA PoolCondemned ==
  ASSUME EngineInv, PoolInv, NEW r \in Requests, Ends(r),
         engine'.leased # {}, engine'.leased \subseteq engine.leased, engine'.poisoned,
         Avail' \subseteq Avail,
         engine'.current = engine.current, engine'.initialization = engine.initialization,
         NobodyIn'
  PROVE  PoolInv'
<1>1. Installed' /\ Installed
  BY DEF Installed, PoolInv, Ends
<1>2. engine.generation \in Nat /\ engine'.generation \in Nat /\ gen \in [Requests -> Nat]
  BY DEF EngineInv, TypeOK, EngineType, Ends
<1>4. \A q \in Requests : gen'[q] <= engine'.generation
  BY <1>2 DEF Ends, PoolInv
<1>5. ASSUME NEW q \in Requests, op'[q] \in Running, caller'[q] # "leased"
      PROVE  gen'[q] < engine'.generation
  BY <1>2, <1>5 DEF Ends, PoolInv
<1>6. \A q \in engine'.leased : on'[q] = engine'.current
  BY DEF Ends, PoolInv, EngineInv, TypeOK, EngineType
<1> QED  BY <1>1, <1>4, <1>5, <1>6 DEF Ends, PoolInv, NobodyIn

LEMMA PoolReturned ==
  ASSUME EngineInv, PoolInv, NEW r \in Requests, Ends(r), Returns(r), caller[r] = "leased",
         NobodyIn', caller'[r] = "answered"
  PROVE  PoolInv'
<1>1. /\ engine.leased = {r} /\ ~engine.poisoned /\ Installed
      /\ gen[r] = engine.generation /\ on[r] = engine.current
  BY LoneLease
<1>2. /\ engine.available \in Seq(Builds) /\ on[r] \in Builds /\ PoolSize \in Nat \ {0}
      /\ engine.generation \in Nat /\ gen \in [Requests -> Nat]
  BY PoolAssumption DEF EngineInv, TypeOK, EngineType, Ends, LeasesHeld
<1>3. /\ Avail' \subseteq {engine.current} /\ Len(engine'.available) = PoolSize
      /\ engine'.leased = {}
  <2>1. Elements(Append(engine.available, on[r])) = Avail \cup {on[r]}
    BY <1>2, AppendElements DEF Avail
  <2>2. Len(engine.available) = PoolSize - 1
    BY <1>1 DEF PoolInv
  <2>3. Len(engine'.available) = PoolSize
    BY <1>2, <2>2 DEF Returns
  <2> QED  BY <1>1, <2>1, <2>3 DEF Returns, PoolInv, Avail
<1>4. Installed'
  BY <1>1 DEF Installed, Returns, Ends
<1>5. ASSUME NEW q \in Requests, op'[q] \in Running, caller'[q] # "leased"
      PROVE  gen'[q] < engine'.generation
  BY <1>1, <1>2, <1>5 DEF Ends, PoolInv, Returns
<1> QED  BY <1>1, <1>3, <1>4, <1>5 DEF Ends, PoolInv, NobodyIn, Returns

LEMMA PoolAbandon ==
  ASSUME EngineInv, PoolInv, NEW r \in Requests, Ends(r), r \in engine.leased,
         engine.poisoned, engine' = LeaseAbandoned(engine, r)
  PROVE  PoolInv'
<1>1. /\ engine'.leased = engine.leased \ {r} /\ engine'.generation = engine.generation
      /\ IF engine.leased \ {r} = {}
         THEN /\ ~engine'.poisoned /\ engine'.available = <<>>
              /\ engine'.current = None /\ engine'.initialization = None
         ELSE /\ engine'.poisoned = engine.poisoned /\ engine'.available = engine.available
              /\ engine'.current = engine.current
              /\ engine'.initialization = engine.initialization
  BY AbandonFields DEF EngineInv, TypeOK
<1>2. NobodyIn'
  BY DEF NobodyIn, PoolInv, Ends
<1>3. CASE engine.leased \ {r} = {}
  BY <1>1, <1>2, <1>3, PoolEmptied
<1>4. CASE engine.leased \ {r} # {}
  <2>1. Avail' \subseteq Avail
    BY <1>1, <1>4 DEF Avail
  <2> QED  BY <1>1, <1>2, <1>4, <2>1, PoolCondemned
<1> QED  BY <1>3, <1>4

\* Closing the instance when the step drops it leaves none but the current.
LEMMA CloseLeavesCurrent ==
  ASSUME EngineInv, PoolInv, Close, engine'.current \in {None, engine.current}
  PROVE  open' \subseteq {engine'.current}
BY DEF PoolInv, Close

LEMMA PoolDrop ==
  ASSUME EngineInv, PoolInv, NEW r \in Requests, NEW ok \in BOOLEAN, DropSecret(r, ok)
  PROVE  PoolInv'
<1> DEFINE e == IF ~ok /\ Condemns(r, engine) THEN Invalidate(engine) ELSE engine
<1>0. /\ engine \in EngineType /\ on[r] \in Builds /\ op[r] = "drop" /\ op[r] \in Running
      /\ UNCHANGED <<on, gen, builds>> /\ Close
      /\ \A q \in Requests : op'[q] = IF q = r THEN "settled" ELSE op[q]
      /\ caller \in [Requests -> {"idle", "queued", "acquiring", "leased", "answered"}]
      /\ engine.generation \in Nat
  BY DEF DropSecret, EngineInv, TypeOK, LeasesHeld, Running, EngineType
<1>1. engine' = FinishLease(e, r, on[r])
  BY Zenon DEF DropSecret
<1>2. \A q \in Requests : caller'[q] = IF q = r /\ caller[r] = "leased" THEN "answered"
                                       ELSE caller[q]
  BY <1>0 DEF DropSecret, Release
<1>e. ASSUME engine' \in EngineType, engine'.generation >= engine.generation,
             engine'.current \in {None, engine.current}
      PROVE  Ends(r)
  <2>1. open' \subseteq {engine'.current}
    BY <1>0, <1>e, CloseLeavesCurrent
  <2>2. op'[r] \notin Running
    BY <1>0 DEF Running
  <2> QED  BY <1>0, <1>2, <1>e, <2>1, <2>2 DEF Ends
<1>3. CASE caller[r] = "leased"
  <2>1. /\ engine.leased = {r} /\ ~engine.poisoned /\ gen[r] = engine.generation
        /\ \A q \in Requests : q # r => caller[q] \notin {"acquiring", "leased"}
    BY <1>3, LoneLease
  <2>2. NobodyIn' /\ caller'[r] = "answered"
    BY <1>2, <1>3, <2>1 DEF NobodyIn
  <2>3. CASE ok
    <3>1. e = engine
      BY <2>3, Zenon
    <3> HIDE DEF e
    <3>2. Returns(r)
      BY <1>0, <1>1, <2>1, <3>1, FinishFields DEF Returns
    <3>3. Ends(r)
      BY <1>0, <1>e, <3>2 DEF Returns
    <3> QED  BY <1>3, <2>2, <3>2, <3>3, PoolReturned
  <2>4. CASE ~ok
    <3>1. e = Invalidate(engine)
      BY <2>1, <2>4 DEF Condemns
    <3> HIDE DEF e
    <3>2. /\ e \in EngineType /\ e.leased = {r} /\ e.poisoned
          /\ e.generation = engine.generation + 1
      BY <1>0, <2>1, <3>1, InvalidateFields
    <3>3. engine' = LeaseAbandoned(e, r)
      BY <1>0, <1>1, <3>2, FinishFields
    <3>4. /\ engine' \in EngineType /\ engine'.leased = {}
          /\ engine'.generation = engine.generation + 1
          /\ ~engine'.poisoned /\ engine'.available = <<>>
          /\ engine'.current = None /\ engine'.initialization = None
      BY <3>2, <3>3, AbandonFields
    <3>5. Ends(r)
      BY <1>0, <1>e, <3>4
    <3> QED  BY <2>1, <2>2, <3>4, <3>5, PoolEmptied
  <2> QED  BY <2>3, <2>4
<1>4. CASE caller[r] # "leased"
  <2>1. gen[r] < engine.generation
    BY <1>0, <1>4 DEF PoolInv
  <2>2. e = engine
    BY <1>0, <2>1 DEF Condemns
  <2> HIDE DEF e
  <2>3. CASE r \notin engine.leased
    <3>1. engine' = engine
      BY <1>0, <1>1, <2>2, <2>3, FinishFields
    <3>2. Ends(r)
      BY <1>0, <1>e, <3>1
    <3> QED  BY <3>1, <3>2, PoolKeeps
  <2>4. CASE r \in engine.leased
    <3>1. engine.poisoned
      BY <1>4, <2>4 DEF EngineInv, LeasesHeld
    <3>2. engine' = LeaseAbandoned(engine, r)
      BY <1>0, <1>1, <2>2, <2>4, <3>1, FinishFields
    <3>3. /\ engine' \in EngineType /\ engine'.generation = engine.generation
          /\ engine'.current \in {None, engine.current}
      BY <1>0, <3>2, AbandonFields
    <3>4. Ends(r)
      BY <1>0, <1>e, <3>3
    <3> QED  BY <2>4, <3>1, <3>2, <3>4, PoolAbandon
  <2> QED  BY <2>3, <2>4
<1> QED  BY <1>3, <1>4

LEMMA PoolEnd ==
  ASSUME DetachWorks, EngineInv, PoolInv, NEW r \in Requests,
         \/ \E ok \in BOOLEAN : Detach(r, ok) \/ DropSecret(r, ok)
         \/ Timeout(r) \/ Grace(r)
  PROVE  PoolInv'
<1>0. /\ engine \in EngineType /\ engine.generation \in Nat
      /\ caller \in [Requests -> {"idle", "queued", "acquiring", "leased", "answered"}]
      /\ op \in [Requests -> Running \cup {"none", "settled"}]
  BY DEF EngineInv, TypeOK, EngineType
<1>1. ASSUME NEW ok \in BOOLEAN, Detach(r, ok)  PROVE PoolInv'
  <2>1. /\ op[r] = "detach" /\ UNCHANGED <<caller, on, gen, builds>> /\ Close
        /\ \A q \in Requests : q # r => op'[q] = op[q]
    BY <1>0, <1>1 DEF Detach
  <2>2. engine' = engine
    BY <1>1 DEF Detach, DetachWorks
  <2>3. open' \subseteq {engine'.current}
    BY <2>1, <2>2, CloseLeavesCurrent
  <2>4. Ends(r)
    BY <1>0, <2>1, <2>2, <2>3 DEF Ends, Running
  <2> QED  BY <2>2, <2>4, PoolKeeps
<1>2. ASSUME Timeout(r)  PROVE PoolInv'
  <2>1. /\ caller[r] = "leased" /\ engine' = Invalidate(engine)
        /\ UNCHANGED <<op, on, gen, builds, open, secrets>>
        /\ \A q \in Requests : caller'[q] = IF q = r THEN "answered" ELSE caller[q]
    BY <1>0, <1>2 DEF Timeout, Release
  <2>2. /\ engine.leased = {r} /\ ~engine.poisoned /\ op[r] \in Running
        /\ \A q \in Requests : q # r => caller[q] \notin {"acquiring", "leased"}
    BY <2>1, LoneLease
  <2>3. /\ engine' \in EngineType /\ engine'.leased = {r} /\ engine'.poisoned
        /\ engine'.generation = engine.generation + 1 /\ engine'.available = <<>>
        /\ engine'.current = engine.current /\ engine'.initialization = engine.initialization
    BY <1>0, <2>1, <2>2, InvalidateFields
  <2>4. Ends(r)
    BY <1>0, <2>1, <2>2, <2>3 DEF Ends, PoolInv
  <2>5. NobodyIn' /\ Avail' = {}
    BY <2>1, <2>2, <2>3 DEF NobodyIn, Avail, Elements
  <2> QED  BY <2>2, <2>3, <2>4, <2>5, PoolCondemned
<1>3. ASSUME Grace(r)  PROVE PoolInv'
  <2>1. /\ caller[r] = "answered" /\ op[r] \in Running /\ r \in engine.leased /\ Close
        /\ engine' = LeaseAbandoned(engine, r) /\ UNCHANGED <<caller, op, on, gen, builds>>
    BY <1>3 DEF Grace
  <2>2. engine.poisoned
    BY <2>1 DEF EngineInv, LeasesHeld
  <2>3. /\ engine' \in EngineType /\ engine'.generation = engine.generation
        /\ engine'.current \in {None, engine.current}
    BY <1>0, <2>1, AbandonFields
  <2>4. Ends(r)
    BY <1>0, <2>1, <2>3, CloseLeavesCurrent DEF Ends
  <2> QED  BY <2>1, <2>2, <2>4, PoolAbandon
<1> QED  BY <1>1, <1>2, <1>3, PoolDrop

LEMMA PoolStep ==
  ASSUME DetachWorks, EngineInv, PoolInv, Next
  PROVE  PoolInv'
<1>1. ASSUME NEW r \in Requests, Operation(r) \/ Timers(r)  PROVE PoolInv'
  BY <1>1, PoolStatement, PoolEnd, PoolBefore DEF Operation, Timers
<1> QED  BY <1>1, PoolBefore, PoolAcquire, PoolBuild DEF Next

LEMMA PoolAlways ==
  ASSUME DetachWorks
  PROVE  Spec => [](EngineInv /\ PoolInv)
<1>1. EngineInv /\ PoolInv /\ [Next]_vars => PoolInv'
  <2>1. PoolInv /\ UNCHANGED vars => PoolInv'
    BY DEF vars, PoolInv, Avail, Installed
  <2> QED  BY <2>1, PoolStep
<1> QED  BY <1>1, EngineAlways, PoolInit, PTL DEF Spec

(* If DETACH does not fail, every instance is accounted for: none is open   *)
(* but the current one, and the request whose turn it is finds a connection *)
(* in the pool, however many were abandoned before (releaseWhenSettled,     *)
(* resetPoisonedInstance).                                                  *)
THEOREM InstancesAccountedFor ==
  ASSUME DetachWorks
  PROVE  Spec => []EngineIsWhole
<1>1. EngineInv /\ PoolInv => EngineIsWhole
  <2>1. EngineInv /\ PoolInv => NoInstanceLeak
    BY DEF PoolInv, NoInstanceLeak
  <2>2. ASSUME EngineInv, PoolInv, NEW r \in Requests, caller[r] = "acquiring",
               builds[on[r]] = "ok", ~engine.poisoned
        PROVE  engine.available # <<>>
    <3>1. engine.leased = {}
      <4>1. \A q \in Requests : q # r => caller[q] # "leased"
        BY <2>2 DEF EngineInv, LineInOrder
      <4> QED  BY <2>2, <4>1 DEF EngineInv, LeasesHeld, TypeOK, EngineType
    <3>2. Installed
      BY <2>2 DEF EngineInv, LeasesHeld, PoolInv, Installed, Builds, None
    <3>3. Len(engine.available) = PoolSize /\ PoolSize \in Nat \ {0}
      BY <2>2, <3>1, <3>2, PoolAssumption DEF PoolInv
    <3> QED  BY <3>3
  <2>3. EngineInv /\ PoolInv => PoolNeverDry
    BY <2>2 DEF PoolNeverDry
  <2> QED  BY <2>1, <2>3 DEF EngineIsWhole, EngineInv
<1> QED  BY <1>1, PoolAlways, PTL

(* And only a request that runs on the current instance can condemn it: the *)
(* one abandoned on an earlier instance, whatever its clean-up does later,  *)
(* never reaches the replacement.                                           *)
THEOREM ReplacementIsSafe ==
  ASSUME DetachWorks
  PROVE  Spec => OnlyOwnInstanceCondemned
<1> DEFINE Own == engine'.generation # engine.generation =>
                    \E r \in Requests : /\ on[r] = engine.current
                                        /\ op'[r] # op[r] \/ caller'[r] # caller[r]
<1>1. ASSUME EngineInv, PoolInv, Next  PROVE Own
  <2>0. engine \in EngineType /\ DetachWorks
    BY <1>1 DEF EngineInv, TypeOK
  <2>1. ASSUME NEW r \in Requests, caller[r] = "leased", Timeout(r)  PROVE Own
    <3>1. on[r] = engine.current
      BY <1>1, <2>1, LoneLease
    <3>2. caller'[r] # caller[r]
      BY <1>1, <2>1 DEF Timeout, Release, EngineInv, TypeOK
    <3> QED  BY <3>1, <3>2
  <2>2. ASSUME NEW r \in Requests, NEW ok \in BOOLEAN, DropSecret(r, ok)  PROVE Own
    <3>1. CASE caller[r] = "leased"
      <4>1. on[r] = engine.current
        BY <1>1, <3>1, LoneLease
      <4>2. op'[r] # op[r]
        BY <1>1, <2>2 DEF DropSecret, EngineInv, TypeOK
      <4> QED  BY <4>1, <4>2
    <3>2. CASE caller[r] # "leased"
      <4>1. op[r] \in Running /\ on[r] \in Builds
        BY <1>1, <2>2 DEF DropSecret, Running, EngineInv, LeasesHeld
      <4>2. gen[r] < engine.generation /\ engine.generation \in Nat /\ gen[r] \in Nat
        BY <1>1, <3>2, <4>1 DEF PoolInv, EngineInv, TypeOK, EngineType
      <4>3. ~Condemns(r, engine)
        BY <4>2 DEF Condemns
      <4>4. engine' = FinishLease(engine, r, on[r])
        BY <2>2, <4>3 DEF DropSecret
      <4> QED  BY <2>0, <4>1, <4>4, FinishFields
    <3> QED  BY <3>1, <3>2
  <2>3. ASSUME NEW r \in Requests, Grace(r)  PROVE Own
    BY <2>0, <2>3, AbandonFields DEF Grace
  <2>4. ASSUME NEW r \in Requests, NEW ok \in BOOLEAN, Detach(r, ok)  PROVE Own
    BY <2>0, <2>4 DEF Detach, DetachWorks
  <2>5. ASSUME NEW r \in Requests, Enter(r) \/ Acquire(r)  PROVE Own
    BY <2>0, <2>5 DEF Enter, Acquire, EngineType
  <2>6. ASSUME NEW r \in Requests,
               \/ Call(r) \/ WaitTimeout(r)
               \/ \E ok, there \in BOOLEAN : CreateSecret(r, ok, there)
               \/ \E attached \in BOOLEAN : Operate(r, attached)
        PROVE  Own
    BY <2>6 DEF Call, WaitTimeout, CreateSecret, Operate
  <2>7. ASSUME NEW b \in Builds, BuildSucceeds(b) \/ BuildFails(b)  PROVE Own
    BY <2>0, <2>7 DEF BuildSucceeds, BuildFails, EngineType
  <2>8. ASSUME NEW r \in Requests, Timeout(r)  PROVE Own
    BY <2>1, <2>8 DEF Timeout
  <2>9. ASSUME NEW r \in Requests, Operation(r)  PROVE Own
    BY <2>2, <2>4, <2>6, <2>9 DEF Operation
  <2> HIDE DEF Own
  <2> QED  BY <1>1, <2>3, <2>5, <2>6, <2>7, <2>8, <2>9 DEF Next, Timers
<1>2. UNCHANGED vars => Own
  BY DEF vars
<1>3. EngineInv /\ PoolInv /\ [Next]_vars => [Own]_vars
  BY <1>1, <1>2
<1> QED  BY <1>3, PoolAlways, PTL DEF Spec, OnlyOwnInstanceCondemned
=============================================================================
