----------------------------- MODULE Heartbeat ------------------------------
(***************************************************************************)
(* The heartbeat worker of one process, src/src/shm_lifecycle.cpp: user    *)
(* threads create and reset owner handles, a background thread ticks the   *)
(* headers of all of them, started with the first handle and joined with   *)
(* the last.                                                               *)
(*                                                                         *)
(* Everything is touched under g_heartbeat_mutex, so that a critical       *)
(* section is one step; what interleaves is what lies between them: the    *)
(* sleep, the join and the munmap after the unlock.                        *)
(***************************************************************************)
EXTENDS Integers, FiniteSets

CONSTANT Threads  \* user threads

ASSUME HeartbeatAssumption == IsFiniteSet(Threads)

VARIABLES
    g_heartbeat_headers, \* a thread stands for the header of its owner handle
    g_heartbeat_thread,  \* the worker the std::thread stands for, 0: not joinable
    g_heartbeat_stop,
    fresh,               \* headers whose heartbeat_last_ns is recent
    worker,              \* state of each worker thread
    pc,                  \* where each user thread is
    to_join              \* the worker its unregister waits for

vars == <<g_heartbeat_headers, g_heartbeat_thread, g_heartbeat_stop, fresh, worker, pc, to_join>>

\* Each user thread joins one worker at a time and one more may be running.
Workers == 1 .. Cardinality(Threads) + 1

Init ==
    /\ g_heartbeat_headers = {} /\ g_heartbeat_thread = 0 /\ g_heartbeat_stop = FALSE
    /\ fresh = {}
    /\ worker = [w \in Workers |-> "none"]
    /\ pc = [t \in Threads |-> "closed"]
    /\ to_join = [t \in Threads |-> 0]

Goto(t, l) == pc' = [pc EXCEPT ![t] = l]

\* register_heartbeat_owner, before the lock: the first tick.
BeginRegister(t) ==
    /\ pc[t] = "closed"
    /\ fresh' = fresh \cup {t}
    /\ Goto(t, "register")
    /\ UNCHANGED <<g_heartbeat_headers, g_heartbeat_thread, g_heartbeat_stop, worker, to_join>>

\* Mutant: the stop flag of the previous worker is not reset.
RegisterNoReset(t) ==
    /\ pc[t] = "register"
    /\ g_heartbeat_headers' = g_heartbeat_headers \cup {t}
    /\ IF g_heartbeat_thread = 0
       THEN \E w \in Workers :
               /\ worker[w] = "none"
               /\ worker' = [worker EXCEPT ![w] = "running"]
               /\ g_heartbeat_thread' = w
       ELSE UNCHANGED <<g_heartbeat_thread, worker>>
    /\ Goto(t, "open")
    /\ UNCHANGED <<g_heartbeat_stop, fresh, to_join>>

\* Under the lock: list the header, start a worker unless there is one.
Register(t) ==
    /\ pc[t] = "register"
    /\ g_heartbeat_headers' = g_heartbeat_headers \cup {t}
    /\ IF g_heartbeat_thread = 0
       THEN \E w \in Workers :
               /\ worker[w] = "none"
               /\ worker' = [worker EXCEPT ![w] = "running"]
               /\ g_heartbeat_thread' = w
               /\ g_heartbeat_stop' = FALSE
       ELSE UNCHANGED <<g_heartbeat_thread, g_heartbeat_stop, worker>>
    /\ Goto(t, "open")
    /\ UNCHANGED <<fresh, to_join>>

\* Mutant: the last header stays in the list.
UnregisterKeepLast(t) ==
    /\ pc[t] = "open"
    /\ LET rest == g_heartbeat_headers \ {t}
       IN  IF rest = {} /\ g_heartbeat_thread # 0
           THEN /\ g_heartbeat_stop' = TRUE
                /\ to_join' = [to_join EXCEPT ![t] = g_heartbeat_thread]
                /\ g_heartbeat_thread' = 0
                /\ Goto(t, "join")
                /\ UNCHANGED g_heartbeat_headers
           ELSE /\ g_heartbeat_headers' = rest
                /\ Goto(t, "unmap")
                /\ UNCHANGED <<g_heartbeat_thread, g_heartbeat_stop, to_join>>
    /\ UNCHANGED <<fresh, worker>>

\* Mutant: the worker is not told to stop.
UnregisterNoStop(t) ==
    /\ pc[t] = "open"
    /\ g_heartbeat_headers' = g_heartbeat_headers \ {t}
    /\ IF g_heartbeat_headers' = {} /\ g_heartbeat_thread # 0
       THEN /\ to_join' = [to_join EXCEPT ![t] = g_heartbeat_thread]
            /\ g_heartbeat_thread' = 0
            /\ Goto(t, "join")
       ELSE /\ Goto(t, "unmap")
            /\ UNCHANGED <<g_heartbeat_thread, to_join>>
    /\ UNCHANGED <<g_heartbeat_stop, fresh, worker>>

\* Mutant: the worker is joined by the thread and stays in the global.
UnregisterNoMove(t) ==
    /\ pc[t] = "open"
    /\ g_heartbeat_headers' = g_heartbeat_headers \ {t}
    /\ IF g_heartbeat_headers' = {} /\ g_heartbeat_thread # 0
       THEN /\ g_heartbeat_stop' = TRUE
            /\ to_join' = [to_join EXCEPT ![t] = g_heartbeat_thread]
            /\ Goto(t, "join")
       ELSE /\ Goto(t, "unmap")
            /\ UNCHANGED <<g_heartbeat_stop, to_join>>
    /\ UNCHANGED <<g_heartbeat_thread, fresh, worker>>

\* Mutant: the worker is moved out of the global and never joined.
UnregisterNoJoin(t) ==
    /\ pc[t] = "open"
    /\ g_heartbeat_headers' = g_heartbeat_headers \ {t}
    /\ IF g_heartbeat_headers' = {} /\ g_heartbeat_thread # 0
       THEN /\ g_heartbeat_stop' = TRUE
            /\ to_join' = [to_join EXCEPT ![t] = g_heartbeat_thread]
            /\ g_heartbeat_thread' = 0
       ELSE UNCHANGED <<g_heartbeat_thread, g_heartbeat_stop, to_join>>
    /\ Goto(t, "unmap")
    /\ UNCHANGED <<fresh, worker>>

\* unregister_heartbeat_owner, under the lock: with the last header the
\* worker is told to stop and taken out of the global.
Unregister(t) ==
    /\ pc[t] = "open"
    /\ g_heartbeat_headers' = g_heartbeat_headers \ {t}
    /\ IF g_heartbeat_headers' = {} /\ g_heartbeat_thread # 0
       THEN /\ g_heartbeat_stop' = TRUE
            /\ to_join' = [to_join EXCEPT ![t] = g_heartbeat_thread]
            /\ g_heartbeat_thread' = 0
            /\ Goto(t, "join")
       ELSE /\ Goto(t, "unmap")
            /\ UNCHANGED <<g_heartbeat_thread, g_heartbeat_stop, to_join>>
    /\ UNCHANGED <<fresh, worker>>

\* After the unlock: to_join.join() returns when the worker has returned.
Join(t) ==
    /\ pc[t] = "join" /\ worker[to_join[t]] = "returned"
    /\ worker' = [worker EXCEPT ![to_join[t]] = "none"]
    /\ to_join' = [to_join EXCEPT ![t] = 0]
    /\ Goto(t, "unmap")
    /\ UNCHANGED <<g_heartbeat_headers, g_heartbeat_thread, g_heartbeat_stop, fresh>>

\* ShmHandle::reset goes on to munmap the header.
Unmap(t) ==
    /\ pc[t] = "unmap"
    /\ Goto(t, "closed")
    /\ UNCHANGED <<g_heartbeat_headers, g_heartbeat_thread, g_heartbeat_stop, fresh, worker, to_join>>

\* heartbeat_worker, one turn of the loop: return if told to stop, else
\* heartbeat_tick_locked.  (The sleep is the time until the next turn.)
heartbeat_worker(w) ==
    /\ worker[w] = "running"
    /\ IF g_heartbeat_stop
       THEN worker' = [worker EXCEPT ![w] = "returned"] /\ UNCHANGED fresh
       ELSE fresh' = fresh \cup g_heartbeat_headers /\ UNCHANGED worker
    /\ UNCHANGED <<g_heartbeat_headers, g_heartbeat_thread, g_heartbeat_stop, pc, to_join>>

\* HEARTBEAT_DEAD_NS pass without a tick of t's header.
Age(t) ==
    /\ t \in fresh
    /\ fresh' = fresh \ {t}
    /\ UNCHANGED <<g_heartbeat_headers, g_heartbeat_thread, g_heartbeat_stop, worker, pc, to_join>>

Next ==
    \/ \E t \in Threads :
          BeginRegister(t) \/ Register(t) \/ Unregister(t) \/ Join(t) \/ Unmap(t) \/ Age(t)
    \/ \E w \in Workers : heartbeat_worker(w)

\* Every worker turns again after its sleep, and a thread inside a call goes
\* on; whether a handle is ever opened or reset is the application's choice.
FairSpec ==
    /\ Init /\ [][Next]_vars
    /\ \A w \in Workers : WF_vars(heartbeat_worker(w))
    /\ \A t \in Threads : WF_vars(Register(t) \/ Join(t) \/ Unmap(t))

-----------------------------------------------------------------------------
(* Properties *)

Running == {w \in Workers : worker[w] = "running"}

\* Types of the globals and the threads' locals; to_join is a joinable thread
\* exactly while its thread waits.
TypeOK ==
    /\ g_heartbeat_headers \subseteq Threads /\ fresh \subseteq Threads
    /\ g_heartbeat_thread \in {0} \cup Workers
    /\ g_heartbeat_stop \in BOOLEAN
    /\ worker \in [Workers -> {"none", "running", "returned"}]
    /\ pc \in [Threads -> {"closed", "register", "open", "join", "unmap"}]
    /\ to_join \in [Threads -> {0} \cup Workers]
    /\ \A t \in Threads : to_join[t] # 0 <=> pc[t] = "join"

\* The worker never writes a heartbeat into a header that is unmapped: only
\* open handles are in the list, whatever handles come and go meanwhile.
TickMapped == \A t \in g_heartbeat_headers : pc[t] = "open"

\* A worker is joined by exactly one thread or is the global one: none is
\* lost (std::thread would terminate the process) or joined twice.
WorkerOwned ==
    \A w \in Workers : worker[w] # "none" =>
        IF g_heartbeat_thread = w
        THEN \A t \in Threads : to_join[t] # w
        ELSE Cardinality({t \in Threads : to_join[t] = w}) = 1

\* The owner of an open handle does not look dead for good: its header is
\* ticked again, even while other handles stop and start workers.
KeepsTicking ==
    \A t \in Threads :
        t \in g_heartbeat_headers \ fresh ~> (t \in fresh \/ t \notin g_heartbeat_headers)

\* When no handle is opened any more and all are reset, every worker ends
\* and every reset returns.
Quiesces == <>[](\A t \in Threads : pc[t] \notin {"register", "open"}) =>
                <>[](Running = {} /\ \A t \in Threads : pc[t] # "join")

\* One shared thread ticks all headers of the process; another one is at
\* most on its way out.
OneSharedThread == g_heartbeat_stop \/ Cardinality(Running) <= 1
=============================================================================
