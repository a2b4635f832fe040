-------------------------- MODULE MlxProxy_proofs --------------------------
(***************************************************************************)
(* Proofs about MlxProxy, for every set of connections and every bound.    *)
(***************************************************************************)
EXTENDS MlxProxy, FiniteSetTheorems, TLAPS

\* A stop of the idle timer leaves value RUNNING until it is over, and only a
\* shutdown stops the backend next to it.
Stops ==
  /\ stop["timer"] # "none" => value = "RUNNING"
  /\ stop["signal"] # "none" => exiting

\* A promise is pending only while its start runs, and everyone who joined
\* waits for that one.
NobodyLeftBehind ==
  /\ promise # NoReq => start[promise] # "none"
  /\ \A r \in Reqs : pc[r] = "joined" => promise # NoReq /\ waits[r] = promise

IInv == TypeOK /\ OneStart /\ Stops /\ NobodyLeftBehind /\ CountIsExact

LEMMA BusyIsFinite == IsFiniteSet(Busy) /\ Cardinality(Busy) \in Nat
<1>1. IsFiniteSet(Reqs) /\ Busy \subseteq Reqs
  BY ConstantsAssumption DEF Busy
<1> QED BY <1>1, FS_Subset, FS_CardinalityType

LEMMA InitIInv == Init => IInv
<1> SUFFICES ASSUME Init PROVE IInv
  OBVIOUS
<1>1. Busy = {}
  BY DEF Init, Busy
<1>2. Cardinality(Busy) = 0
  BY <1>1, FS_EmptySet
<1> QED
  BY <1>2, ConstantsAssumption
  DEF Init, IInv, TypeOK, OneStart, Starting, Stops, Stoppers, NobodyLeftBehind, CountIsExact

-----------------------------------------------------------------------------
(* How many handlers each step begins and ends.                            *)

\* A request that arrives is one more handler at work.
LEMMA OneMore ==
  ASSUME IInv, NEW r \in Reqs, pc[r] = "none",
         NEW l \in {"body"}, pc' = [pc EXCEPT ![r] = l], active' = active + 1
  PROVE  CountIsExact' /\ active' \in Nat
<1>1. Busy' = Busy \cup {r} /\ r \notin Busy
  BY DEF IInv, TypeOK, Busy
<1>2. Cardinality(Busy') = Cardinality(Busy) + 1
  BY <1>1, BusyIsFinite, FS_AddElement
<1> QED BY <1>2, BusyIsFinite DEF IInv, CountIsExact

\* A set of handlers that end together is taken off the counter as a whole.
LEMMA SoManyFewer ==
  ASSUME IInv, NEW W \in SUBSET Busy,
         pc' = [q \in Reqs |-> IF q \in W THEN "none" ELSE pc[q]],
         active' = active - Cardinality(W)
  PROVE  CountIsExact' /\ active' \in Nat
<1>1. Busy' = Busy \ W
  BY DEF Busy
<1>2. Busy \cap W = W
  OBVIOUS
<1>3. /\ IsFiniteSet(Busy \ W)
      /\ Cardinality(Busy \ W) = Cardinality(Busy) - Cardinality(Busy \cap W)
  BY BusyIsFinite, FS_Difference
<1>4. Cardinality(Busy \ W) \in Nat
  BY <1>3, FS_CardinalityType
<1> QED BY <1>1, <1>2, <1>3, <1>4 DEF IInv, CountIsExact

\* A step that only moves handlers leaves the counter exact.
LEMMA SameMany ==
  ASSUME IInv, active' = active,
         \A q \in Reqs : pc'[q] = "none" <=> pc[q] = "none"
  PROVE  CountIsExact' /\ active' \in Nat
<1>1. Busy' = Busy
  BY DEF Busy
<1> QED BY <1>1 DEF IInv, CountIsExact, TypeOK

\* A reply ends one handler.
LEMMA OneFewer ==
  ASSUME IInv, NEW r \in Reqs, pc[r] # "none",
         pc' = [pc EXCEPT ![r] = "none"], active' = active - 1
  PROVE  CountIsExact' /\ active' \in Nat
<1>1. {r} \in SUBSET Busy /\ Cardinality({r}) = 1
  BY FS_Singleton DEF Busy
<1>2. pc' = [q \in Reqs |-> IF q \in {r} THEN "none" ELSE pc[q]]
  BY DEF IInv, TypeOK
<1> QED BY <1>1, <1>2, SoManyFewer

\* A new process has no handlers.
LEMMA FreshCount == Fresh => CountIsExact' /\ active' \in Nat
<1> SUFFICES ASSUME Fresh PROVE CountIsExact' /\ active' \in Nat
  OBVIOUS
<1>1. Busy' = {}
  BY DEF Busy, Fresh
<1> QED BY <1>1, FS_EmptySet DEF Fresh, CountIsExact

-----------------------------------------------------------------------------
(* The inductive step.                                                     *)

\* The counter is right after every step.
LEMMA CountStep == IInv /\ [Next]_vars => CountIsExact' /\ active' \in Nat
<1> SUFFICES ASSUME IInv, [Next]_vars PROVE CountIsExact' /\ active' \in Nat
  OBVIOUS
<1> DEFINE Goal == CountIsExact' /\ active' \in Nat
<1>0. IInv => TypeOK
  BY DEF IInv
<1>r. ASSUME NEW r \in Reqs, Refuse(r) PROVE Goal
  <2>1. Waiters(r) \in SUBSET Busy
    BY DEF Waiters, Busy
  <2> QED BY <1>r, <2>1, SoManyFewer DEF Refuse
<1>1. ASSUME NEW r \in Reqs, Arrive(r) PROVE Goal
  BY <1>1, OneMore DEF Arrive
<1>2. ASSUME NEW r \in Reqs, Handler(r) PROVE Goal
  <2>1. CASE BodyRead(r)
    <3>1. active' = active /\ \A q \in Reqs : pc'[q] = "none" <=> pc[q] = "none"
      BY <2>1, <1>0 DEF BodyRead, TypeOK
    <3> QED BY <3>1, SameMany
  <2>2. CASE Reply(r) BY <2>2, OneFewer DEF Reply
  <2>3. CASE Headers(r) \/ BreaksOff(r)
    <3>1. active' = active /\ \A q \in Reqs : pc'[q] = "none" <=> pc[q] = "none"
      BY <2>3, <1>0 DEF Headers, BreaksOff, TypeOK
    <3> QED BY <3>1, SameMany
  <2>4. CASE Gate(r) BY <2>4, <1>r, SameMany DEF Gate, Goto
  <2>5. CASE Enable(r) BY <2>5, SameMany DEF Enable, Goto
  <2>6. CASE Bootstrap(r) BY <2>6, <1>r, SameMany DEF Bootstrap, Goto
  <2>7. CASE Healthy(r)
    <3>1. active' = active /\ \A q \in Reqs : pc'[q] = "none" <=> pc[q] = "none"
      BY <2>7, <1>0 DEF Healthy, Waiters, TypeOK
    <3> QED BY <3>1, SameMany
  <2>8. CASE WarmupTimeout(r) BY <2>8, <1>r DEF WarmupTimeout
  <2> QED BY <1>2, <2>1, <2>2, <2>3, <2>4, <2>5, <2>6, <2>7, <2>8 DEF Handler
<1>3. CASE IdleTime \/ IdleCheck \/ Shutdown BY <1>3, SameMany DEF IdleTime, IdleCheck, Shutdown
<1>4. ASSUME NEW s \in Stoppers, Bootout(s) PROVE Goal
  BY <1>4, SameMany DEF Bootout
<1>5. ASSUME NEW s \in Stoppers, Disable(s) PROVE Goal
  BY <1>5, SameMany, FreshCount DEF Disable, Stopped
<1>6. CASE Exit BY <1>6, FreshCount DEF Exit
<1>7. CASE BackendUp \/ BackendDown \/ DogUnloads \/ DogLoads
  BY <1>7, SameMany DEF BackendUp, BackendDown, DogUnloads, DogLoads, proxy
<1>8. CASE UNCHANGED vars BY <1>8, SameMany DEF vars, proxy
<1> QED BY <1>1, <1>2, <1>3, <1>4, <1>5, <1>6, <1>7, <1>8 DEF Next

\* The rest of the invariant is preserved by a refusal, which ends the only
\* start there is.
LEMMA RefuseStep ==
  ASSUME IInv, NEW r \in Reqs, start[r] # "none", Refuse(r), active' \in Nat,
         UNCHANGED <<idle, stop, exiting, dog, crashes>>,
         loaded' \in BOOLEAN, enabled' = enabled, up' = up, failures' \in Nat
  PROVE  TypeOK' /\ OneStart' /\ Stops' /\ NobodyLeftBehind'
<1> USE ConstantsAssumption DEF IInv, TypeOK, Stoppers
<1>1. value = "STARTING" /\ promise = r
  BY DEF OneStart, Starting
<1>2. TypeOK'
  BY DEF Refuse, Waiters
<1>3. OneStart'
  BY DEF OneStart, Starting, Refuse
<1>4. Stops'
  BY <1>1 DEF Stops, Refuse
<1>5. NobodyLeftBehind'
  BY <1>1 DEF NobodyLeftBehind, Refuse, Waiters
<1> QED BY <1>2, <1>3, <1>4, <1>5

\* A new process starts from nothing.
LEMMA FreshStep ==
  ASSUME IInv, Fresh, dog' = dog, crashes' \in Nat, failures' \in Nat,
         loaded' \in BOOLEAN, enabled' \in BOOLEAN, up' \in BOOLEAN
  PROVE  TypeOK' /\ OneStart' /\ Stops' /\ NobodyLeftBehind'
BY ConstantsAssumption
DEF IInv, TypeOK, OneStart, Starting, Stops, Stoppers, NobodyLeftBehind, Fresh

\* A step that leaves the proxy's variables alone.
LEMMA OutsideStep ==
  ASSUME IInv, UNCHANGED proxy, dog' \in {"watching", "reloading"}, crashes' \in Nat,
         failures' \in Nat, loaded' \in BOOLEAN, enabled' \in BOOLEAN, up' \in BOOLEAN
  PROVE  TypeOK' /\ OneStart' /\ Stops' /\ NobodyLeftBehind'
BY ConstantsAssumption
DEF IInv, TypeOK, OneStart, Starting, Stops, Stoppers, NobodyLeftBehind, proxy

\* A start that goes on to its next command.
LEMMA GotoStep ==
  ASSUME IInv, NEW r \in Reqs, start[r] # "none",
         NEW l \in {"enable", "bootstrap", "poll"}, Goto(r, l),
         UNCHANGED <<idle, stop, exiting, dog, crashes>>, failures' \in Nat,
         loaded' \in BOOLEAN, enabled' \in BOOLEAN, up' \in BOOLEAN
  PROVE  TypeOK' /\ OneStart' /\ Stops' /\ NobodyLeftBehind'
BY ConstantsAssumption
DEF IInv, TypeOK, OneStart, Starting, Stops, Stoppers, NobodyLeftBehind, Goto

\* Every step keeps the shape of the state, at most one start, which everyone
\* who joined waits for, and stops apart from starts.
LEMMA ProxyStep ==
  IInv /\ [Next]_vars => TypeOK' /\ OneStart' /\ Stops' /\ NobodyLeftBehind'
<1> SUFFICES ASSUME IInv, [Next]_vars
             PROVE  TypeOK' /\ OneStart' /\ Stops' /\ NobodyLeftBehind'
  OBVIOUS
<1> DEFINE Goal == TypeOK' /\ OneStart' /\ Stops' /\ NobodyLeftBehind'
<1>0. TypeOK /\ active' \in Nat
  BY CountStep DEF IInv
<1>1. ASSUME NEW r \in Reqs, Arrive(r) PROVE Goal
  BY <1>0, <1>1, ConstantsAssumption
  DEF Arrive, IInv, TypeOK, OneStart, Starting, Stops, Stoppers, NobodyLeftBehind, service
<1>2. ASSUME NEW r \in Reqs, Handler(r) PROVE Goal
  <2>1. CASE BodyRead(r)
    <3> USE <1>0, <2>1, ConstantsAssumption DEF IInv, TypeOK, Stoppers, BodyRead, Claim, service
    <3>1. TypeOK'
      OBVIOUS
    <3>2. OneStart'
      BY DEF OneStart, Starting
    <3>3. Stops'
      BY DEF Stops
    <3>4. NobodyLeftBehind'
      BY DEF NobodyLeftBehind
    <3> QED BY <3>1, <3>2, <3>3, <3>4
  <2>2. CASE Reply(r) \/ Headers(r) \/ BreaksOff(r)
    BY <1>0, <2>2, ConstantsAssumption
    DEF Reply, Headers, BreaksOff, IInv, TypeOK, OneStart, Starting, Stops, Stoppers,
        NobodyLeftBehind, service
  <2>3. CASE Gate(r)
    BY <1>0, <2>3, GotoStep, RefuseStep DEF Gate, TypeOK, service
  <2>4. CASE Enable(r)
    <3>1. /\ start[r] # "none" /\ Goto(r, "bootstrap")
          /\ UNCHANGED <<idle, stop, exiting, loaded, up, dog, crashes>>
      BY <2>4 DEF Enable
    <3>2. failures' \in Nat
      BY <1>0, <2>4 DEF Enable, Fails, TypeOK
    <3>3. enabled' \in BOOLEAN /\ loaded' \in BOOLEAN /\ up' \in BOOLEAN
      BY <1>0, <2>4, <3>1 DEF Enable, TypeOK
    <3> QED BY <3>1, <3>2, <3>3, GotoStep
  <2>5. CASE Bootstrap(r)
    <3>1. /\ start[r] # "none"
          /\ Goto(r, "poll") \/ Refuse(r)
      BY <2>5 DEF Bootstrap
    <3>2. /\ UNCHANGED <<idle, stop, exiting, dog, crashes>>
          /\ enabled' = enabled
          /\ up' = up
      BY <2>5 DEF Bootstrap
    <3>3. failures' \in Nat
      BY <1>0, <2>5 DEF Bootstrap, Fails, TypeOK
    <3>4. enabled' \in BOOLEAN /\ loaded' \in BOOLEAN /\ up' \in BOOLEAN
      BY <1>0, <2>5 DEF Bootstrap, TypeOK
    <3>5. CASE Goto(r, "poll") BY <3>1, <3>2, <3>3, <3>4, <3>5, GotoStep
    <3>6. CASE Refuse(r)       BY <1>0, <3>1, <3>2, <3>3, <3>4, <3>6, RefuseStep
    <3> QED BY <3>1, <3>5, <3>6
  <2>6. CASE Healthy(r)
    <3> USE <1>0, <2>6, ConstantsAssumption DEF IInv, TypeOK, Stoppers, Healthy, Waiters, service
    <3>1. value = "STARTING" /\ promise = r
      BY DEF OneStart, Starting
    <3>2. TypeOK'
      OBVIOUS
    <3>3. OneStart' /\ Stops'
      BY DEF OneStart, Starting, Stops
    <3>4. NobodyLeftBehind'
      BY <3>1 DEF NobodyLeftBehind
    <3> QED BY <3>2, <3>3, <3>4
  <2>7. CASE WarmupTimeout(r)
    BY <1>0, <2>7, RefuseStep DEF WarmupTimeout, TypeOK, service
  <2> QED BY <1>2, <2>1, <2>2, <2>3, <2>4, <2>5, <2>6, <2>7 DEF Handler
<1>3. CASE IdleTime \/ IdleCheck \/ Shutdown
  <2> USE <1>0, <1>3, ConstantsAssumption
      DEF IdleTime, IdleCheck, Shutdown, IInv, TypeOK, Stoppers, service
  <2>1. /\ stop' \in [Stoppers -> {"none", "bootout", "disable"}]
        /\ UNCHANGED <<value, promise, active, pc, waits, start, service, dog, crashes, failures>>
    OBVIOUS
  <2>2. idle' \in BOOLEAN /\ exiting' \in BOOLEAN
    OBVIOUS
  <2>3. TypeOK'
    BY <2>1, <2>2
  <2>4. OneStart' /\ NobodyLeftBehind'
    BY <2>1 DEF OneStart, Starting, NobodyLeftBehind
  <2>5. Stops'
    BY DEF Stops
  <2> QED BY <2>3, <2>4, <2>5
<1>4. ASSUME NEW s \in Stoppers, Bootout(s) PROVE Goal
  <2>0. failures' \in Nat
    BY <1>0, <1>4 DEF Bootout, Fails, TypeOK
  <2>1. loaded' \in BOOLEAN /\ up' \in BOOLEAN
    BY <1>0, <1>4 DEF Bootout, TypeOK
  <2>2. /\ stop[s] # "none"
        /\ stop' = [stop EXCEPT ![s] = "disable"]
        /\ UNCHANGED <<value, promise, active, idle, pc, waits, start, exiting, enabled, dog, crashes>>
    BY <1>4 DEF Bootout
  <2>3. TypeOK'
    BY <1>0, <2>0, <2>1, <2>2 DEF TypeOK, Stoppers
  <2>4. OneStart' /\ NobodyLeftBehind'
    BY <2>2 DEF IInv, OneStart, Starting, NobodyLeftBehind
  <2>5. Stops'
    BY <1>0, <2>2 DEF IInv, TypeOK, Stops, Stoppers
  <2> QED BY <2>3, <2>4, <2>5
<1>5. ASSUME NEW s \in Stoppers, Disable(s) PROVE Goal
  <2>1. CASE s = "signal"
    <3>1. Fresh /\ crashes' = crashes + 1
      BY <1>5, <2>1 DEF Disable, Stopped
    <3>2. /\ failures' \in Nat
          /\ crashes' \in Nat
      BY <1>0, <1>5, <3>1 DEF Disable, Fails, TypeOK
    <3>3. /\ dog' = dog
          /\ enabled' \in BOOLEAN /\ loaded' \in BOOLEAN /\ up' \in BOOLEAN
      BY <1>0, <1>5 DEF Disable, TypeOK
    <3> QED BY <3>1, <3>2, <3>3, FreshStep
  <2>2. CASE s = "timer"
    <3>0. failures' \in Nat
      BY <1>0, <1>5 DEF Disable, Fails, TypeOK
    <3>1. enabled' \in BOOLEAN
      BY <1>0, <1>5 DEF Disable, TypeOK
    <3>2. /\ stop[s] # "none"
          /\ value' = "STOPPED"
          /\ stop' = [stop EXCEPT ![s] = "none"]
          /\ UNCHANGED <<promise, active, idle, pc, waits, start, exiting, crashes, loaded, up, dog>>
      BY <1>5, <2>2 DEF Disable, Stopped
    <3>3. value = "RUNNING" /\ promise = NoReq
      BY <1>0, <2>2, <3>2 DEF IInv, TypeOK, Stops
    <3>4. TypeOK'
      BY <1>0, <3>0, <3>1, <3>2, <3>3 DEF TypeOK, Stoppers
    <3>5. OneStart' /\ NobodyLeftBehind'
      BY <1>0, <3>2, <3>3 DEF IInv, OneStart, Starting, NobodyLeftBehind, TypeOK
    <3>6. Stops'
      BY <1>0, <2>2, <3>2 DEF IInv, TypeOK, Stops, Stoppers
    <3> QED BY <3>4, <3>5, <3>6
  <2> QED BY <2>1, <2>2 DEF Stoppers
<1>6. CASE Exit
  <2>1. Fresh /\ crashes' \in Nat /\ UNCHANGED <<dog, failures>>
    BY <1>0, <1>6 DEF Exit, TypeOK
  <2>2. enabled' \in BOOLEAN /\ loaded' \in BOOLEAN /\ up' \in BOOLEAN
    BY <1>0, <1>6 DEF Exit, TypeOK, service
  <2> QED BY <1>0, <2>1, <2>2, FreshStep DEF TypeOK
<1>7. CASE BackendUp \/ BackendDown \/ DogUnloads \/ DogLoads
  <2> USE <1>0, <1>7 DEF BackendUp, BackendDown, DogUnloads, DogLoads, TypeOK
  <2>1. failures' \in Nat /\ crashes' \in Nat
    BY DEF Fails
  <2>2. enabled' \in BOOLEAN /\ loaded' \in BOOLEAN /\ up' \in BOOLEAN
    OBVIOUS
  <2>3. UNCHANGED proxy /\ dog' \in {"watching", "reloading"}
    OBVIOUS
  <2> QED BY <2>1, <2>2, <2>3, OutsideStep
<1>8. CASE UNCHANGED vars
  BY <1>0, <1>8, OutsideStep DEF vars, service, TypeOK
<1> QED BY <1>1, <1>2, <1>3, <1>4, <1>5, <1>6, <1>7, <1>8 DEF Next

\* The invariant of the proxy.
THEOREM Invariant == Spec => []IInv
<1>1. Init => IInv
  BY InitIInv
<1>2. IInv /\ [Next]_vars => IInv'
  BY CountStep, ProxyStep DEF IInv
<1> QED BY <1>1, <1>2, PTL DEF Spec

-----------------------------------------------------------------------------
(* What it gives.                                                          *)

\* startMlx: however requests arrive while one of them starts the backend, at
\* most one start is under way, and new requests join it.
THEOREM OneStartAlways == Spec => []OneStart
<1>1. IInv => OneStart
  BY DEF IInv
<1> QED BY <1>1, Invariant, PTL

\* startMlx and stopMlx: before a signal no start overlaps a stop.
THEOREM StopsAloneAlways == Spec => []StopsAlone
<1>1. IInv => StopsAlone
  BY DEF IInv, TypeOK, OneStart, Starting, Stops, Stopping, Stoppers, StopsAlone
<1> QED BY <1>1, Invariant, PTL

\* handleRequest: the counter the idle timer trusts is the number of handlers
\* at work, after every reply, refusal and error.
THEOREM CountAlways == Spec => []CountIsExact
<1>1. IInv => CountIsExact
  BY DEF IInv
<1> QED BY <1>1, Invariant, PTL

\* startMlx: a request that joined waits for the start under way, so the step
\* that settles it wakes everyone; nobody awaits a promise of the past.
THEOREM WaitersAlways == Spec => []NobodyLeftBehind
<1>1. IInv => NobodyLeftBehind
  BY DEF IInv
<1> QED BY <1>1, Invariant, PTL
=============================================================================
