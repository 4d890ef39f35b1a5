-------------------------- MODULE HeartbeatProofs ---------------------------
(***************************************************************************)
(* Proofs about Heartbeat for every finite set of user threads.            *)
(***************************************************************************)
EXTENDS Heartbeat, FiniteSetTheorems, TLAPS

-----------------------------------------------------------------------------
(* The inductive invariant *)

\* The list holds the headers of the open handles and of nothing else.
ListInv == g_heartbeat_headers = {t \in Threads : pc[t] = "open"}

\* The global thread runs and has not been told to stop; it is there while a
\* header is listed.
GlobalInv ==
    /\ g_heartbeat_thread # 0 => worker[g_heartbeat_thread] = "running" /\ ~g_heartbeat_stop
    /\ g_heartbeat_headers # {} => g_heartbeat_thread # 0

\* Threads that wait in join wait for workers of their own; a worker is the
\* global one or has somebody waiting for it.
JoinInv ==
    /\ \A t \in Threads : to_join[t] # 0 =>
          /\ worker[to_join[t]] # "none" /\ to_join[t] # g_heartbeat_thread
          /\ \A u \in Threads \ {t} : to_join[u] # to_join[t]
    /\ \A w \in Workers : worker[w] # "none" =>
          w = g_heartbeat_thread \/ \E t \in Threads : to_join[t] = w

Inv == TypeOK /\ ListInv /\ GlobalInv /\ JoinInv

-----------------------------------------------------------------------------
(* Every step preserves it *)

\* Workers are positive, so that 0 stands for none.
LEMMA WorkersPositive == Workers \subseteq Nat \ {0}
  BY FS_CardinalityType, HeartbeatAssumption DEF Workers

\* No handle is open and no worker runs at the start.
LEMMA InitInv == Init => Inv
  BY DEF Init, Inv, TypeOK, ListInv, GlobalInv, JoinInv

\* A thread lists its header and starts a worker when there is none: a worker
\* that nobody waits for.
LEMMA RegisterInv ==
    ASSUME Inv, NEW t \in Threads, Register(t)
    PROVE  Inv'
<1> USE WorkersPositive DEF Inv, Register, Goto
<1>1. TypeOK'
  BY DEF TypeOK
<1>2. ListInv'
  BY DEF TypeOK, ListInv
<1>3. CASE g_heartbeat_thread = 0
  <2>1. PICK w \in Workers : worker[w] = "none" /\ worker' = [worker EXCEPT ![w] = "running"]
                             /\ g_heartbeat_thread' = w /\ g_heartbeat_stop' = FALSE
    BY <1>3
  <2>2. GlobalInv'
    BY <2>1 DEF TypeOK, GlobalInv
  <2>3. JoinInv'
    BY <1>3, <2>1 DEF TypeOK, JoinInv
  <2> QED BY <1>1, <1>2, <2>2, <2>3
<1>4. CASE g_heartbeat_thread # 0
  BY <1>1, <1>2, <1>4 DEF TypeOK, GlobalInv, JoinInv
<1> QED BY <1>3, <1>4

\* With the last header the worker is handed from the global to the thread.
LEMMA UnregisterInv ==
    ASSUME Inv, NEW t \in Threads, Unregister(t)
    PROVE  Inv'
<1> USE WorkersPositive DEF Inv, Unregister, Goto
<1>1. TypeOK'
  BY DEF TypeOK
<1>2. ListInv'
  BY DEF TypeOK, ListInv
<1>3. GlobalInv'
  BY DEF TypeOK, GlobalInv
<1>4. JoinInv'
  BY DEF TypeOK, GlobalInv, JoinInv
<1> QED BY <1>1, <1>2, <1>3, <1>4

\* A worker that is joined is nobody's any more.
LEMMA JoinStepInv ==
    ASSUME Inv, NEW t \in Threads, Join(t)
    PROVE  Inv'
<1> USE WorkersPositive DEF Inv, Join, Goto
<1>1. TypeOK'
  BY DEF TypeOK
<1>2. ListInv'
  BY DEF TypeOK, ListInv
<1>3. GlobalInv'
  BY DEF TypeOK, GlobalInv, JoinInv
<1>4. JoinInv'
  BY DEF TypeOK, JoinInv
<1> QED BY <1>1, <1>2, <1>3, <1>4

\* A worker returns only when it was told to, which the global one is not.
LEMMA WorkerInv ==
    ASSUME Inv, NEW w \in Workers, heartbeat_worker(w)
    PROVE  Inv'
<1> USE WorkersPositive DEF Inv, heartbeat_worker
<1>1. TypeOK' /\ ListInv'
  BY DEF TypeOK, ListInv
<1>2. GlobalInv'
  BY DEF TypeOK, GlobalInv
<1>3. \A v \in Workers : worker'[v] # "none" <=> worker[v] # "none"
  BY DEF TypeOK
<1>4. JoinInv'
  BY <1>3 DEF TypeOK, JoinInv
<1> QED BY <1>1, <1>2, <1>4

LEMMA NextInv == Inv /\ [Next]_vars => Inv'
<1> SUFFICES ASSUME Inv, [Next]_vars PROVE Inv'
  OBVIOUS
<1>1. ASSUME NEW t \in Threads, BeginRegister(t) \/ Unmap(t) \/ Age(t)
      PROVE  Inv'
  BY <1>1 DEF Inv, TypeOK, ListInv, GlobalInv, JoinInv, BeginRegister, Unmap, Age, Goto
<1>2. CASE UNCHANGED vars
  BY <1>2 DEF Inv, TypeOK, ListInv, GlobalInv, JoinInv, vars
<1> QED
  BY <1>1, <1>2, RegisterInv, UnregisterInv, JoinStepInv, WorkerInv DEF Next

LEMMA Invariance == FairSpec => []Inv
<1> QED BY InitInv, NextInv, PTL DEF FairSpec

-----------------------------------------------------------------------------
(* Theorems *)

\* Types hold, and to_join is set exactly while its thread waits in join.
THEOREM TypeCorrect == FairSpec => []TypeOK
<1>1. Inv => TypeOK
  BY DEF Inv
<1> QED BY <1>1, Invariance, PTL

\* No header is ticked after unregister_heartbeat_owner has returned.
THEOREM TicksMapped == FairSpec => []TickMapped
<1>1. Inv => TickMapped
  BY DEF Inv, ListInv, TickMapped
<1> QED BY <1>1, Invariance, PTL

\* Every worker that exists is joined once: std::thread is never destroyed
\* joinable, nor joined from two threads.
THEOREM WorkersOwned == FairSpec => []WorkerOwned
<1>1. ASSUME Inv PROVE WorkerOwned
  <2> SUFFICES ASSUME NEW w \in Workers, worker[w] # "none"
               PROVE  IF g_heartbeat_thread = w THEN \A t \in Threads : to_join[t] # w
                      ELSE Cardinality({t \in Threads : to_join[t] = w}) = 1
    BY DEF WorkerOwned
  <2>1. CASE g_heartbeat_thread = w
    BY <1>1, <2>1, WorkersPositive DEF Inv, JoinInv
  <2>2. CASE g_heartbeat_thread # w
    <3>1. PICK t \in Threads : to_join[t] = w
      BY <1>1, <2>2 DEF Inv, JoinInv
    <3>2. {u \in Threads : to_join[u] = w} = {t}
      BY <1>1, <3>1, WorkersPositive DEF Inv, JoinInv
    <3> QED BY <2>2, <3>2, FS_Singleton
  <2> QED BY <2>1, <2>2
<1> QED BY <1>1, Invariance, PTL

\* While an owner handle is open there is a worker that ticks its header and
\* has not been told to stop, whichever handles were reset meanwhile.
THEOREM HeadersServed ==
    FairSpec => [](g_heartbeat_headers # {} =>
                      g_heartbeat_thread # 0 /\ worker[g_heartbeat_thread] = "running"
                      /\ ~g_heartbeat_stop)
<1>1. Inv => (g_heartbeat_headers # {} =>
                 g_heartbeat_thread # 0 /\ worker[g_heartbeat_thread] = "running"
                 /\ ~g_heartbeat_stop)
  BY DEF Inv, GlobalInv
<1> QED BY <1>1, Invariance, PTL

\* Workers is large enough: a thread that has to start a worker finds one, so
\* the bound never keeps the model from a step of the code.
THEOREM WorkerSpare ==
    FairSpec => [](g_heartbeat_thread = 0 => \E w \in Workers : worker[w] = "none")
<1>1. ASSUME Inv, g_heartbeat_thread = 0, \A w \in Workers : worker[w] # "none"
      PROVE  FALSE
  <2> DEFINE f == [w \in Workers |-> CHOOSE t \in Threads : to_join[t] = w]
             n == Cardinality(Threads)
  <2>1. \A w \in Workers : \E t \in Threads : to_join[t] = w
    BY <1>1, WorkersPositive DEF Inv, JoinInv
  <2>2. f \in [Workers -> Threads] /\ \A w \in Workers : to_join[f[w]] = w
    BY <2>1
  <2> HIDE DEF f
  <2>3. n \in Nat /\ IsFiniteSet(Workers) /\ Cardinality(Workers) = n + 1
    <3>1. n \in Nat
      BY FS_CardinalityType, HeartbeatAssumption
    <3> HIDE DEF n
    <3>2. IsFiniteSet(1 .. n + 1) /\ Cardinality(1 .. n + 1) = n + 1
      BY <3>1, FS_Interval
    <3> QED BY <3>1, <3>2 DEF Workers, n
  <2> HIDE DEF n
  <2>4. PICK v, w \in Workers : v # w /\ f[v] = f[w]
    BY <2>2, <2>3, FS_PigeonHole, HeartbeatAssumption DEF n
  <2> QED BY <2>2, <2>4
<1>2. Inv => (g_heartbeat_thread = 0 => \E w \in Workers : worker[w] = "none")
  BY <1>1
<1> QED BY <1>2, Invariance, PTL
=============================================================================
