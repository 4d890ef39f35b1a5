------------------------------ MODULE Directory -----------------------------
(***************************************************************************)
(* What the registry promises to those that register and unregister,       *)
(* without slots, bitmap, mutex or repair: a directory with a limited      *)
(* number of entries.  An operation takes effect at once, one time between *)
(* its call and its return.  A process that dies may cost the entry it was *)
(* about to write, and no other.  Registry is shown to implement this.     *)
(***************************************************************************)
EXTENDS Naturals, Functions

CONSTANTS
    Procs, Names,
    Values,    \* what can be registered for a name
    Capacity   \* entries there is room for

VARIABLES
    entry,   \* what is registered for each name, NoEntry when nothing
    lost,    \* names that a dying process may have left with any entry or none
    stage,   \* of each process: "idle", "called", "done"
    req      \* the name and the value it was called with, NoEntry to unregister

dirVars == <<entry, lost, stage, req>>

NoEntry == 0

NoRequest == [name |-> "none", value |-> NoEntry]

Requests == [name : Names, value : Values \cup {NoEntry}]

Init ==
    /\ entry = [n \in Names |-> NoEntry] /\ lost = {}
    /\ stage = [p \in Procs |-> "idle"] /\ req = [p \in Procs |-> NoRequest]

Present == {n \in Names : entry[n] # NoEntry}

\* Each name that is present has a place of its own.
Places == 1 .. Capacity

Call(p) ==
    /\ stage[p] = "idle"
    /\ stage' = [stage EXCEPT ![p] = "called"]
    /\ \E r \in Requests : req' = [req EXCEPT ![p] = r]
    /\ UNCHANGED <<entry, lost>>

\* The operation takes effect; there is room.
Apply(p) ==
    /\ stage[p] = "called"
    /\ stage' = [stage EXCEPT ![p] = "done"]
    /\ entry' = [entry EXCEPT ![req[p].name] = req[p].value]
    /\ lost' = lost \ {req[p].name}
    /\ ExistsInjection(Present', Places)
    /\ UNCHANGED req

\* A name that is not there is refused, for want of room: other names take
\* all the entries.
Refuse(p) ==
    /\ stage[p] = "called" /\ req[p].value # NoEntry
    /\ req[p].name \notin Present
    /\ ExistsInjection(Places, (Present \cup lost) \ {req[p].name})
    /\ stage' = [stage EXCEPT ![p] = "done"]
    /\ UNCHANGED <<entry, lost, req>>

End(p) == stage' = [stage EXCEPT ![p] = "idle"] /\ req' = [req EXCEPT ![p] = NoRequest]

Return(p) ==
    /\ stage[p] = "done"
    /\ End(p)
    /\ UNCHANGED <<entry, lost>>

\* The process dies, and nothing is harmed.
Die(p) ==
    /\ stage[p] # "idle"
    /\ End(p)
    /\ UNCHANGED <<entry, lost>>

\* The process dies and its entry is lost; one that was registered is safe.
DieWriting(p) ==
    /\ stage[p] = "called" \/ (stage[p] = "done" /\ req[p].value = NoEntry)
    /\ End(p)
    /\ entry' = [entry EXCEPT ![req[p].name] = NoEntry]
    /\ lost' = lost \cup {req[p].name}

Next ==
    \E p \in Procs : Call(p) \/ Apply(p) \/ Refuse(p) \/ Return(p) \/ Die(p) \/ DieWriting(p)

Spec == Init /\ [][Next]_dirVars
=============================================================================
