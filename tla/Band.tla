-------------------------------- MODULE Band --------------------------------
(***************************************************************************)
(* What a callback band promises: an entry that was accepted is taken by   *)
(* one worker and run by it once, at most Capacity ring entries wait at a  *)
(* time, and until it is told to stop every accepted entry runs.          *)
(***************************************************************************)
EXTENDS Naturals, FiniteSets

CONSTANTS Entries, RingEntries, Workers, Capacity, None

VARIABLES
    queued,     \* accepted and not yet taken
    running,    \* the entry each worker has taken, or None
    done,       \* the entries that have run
    stopped     \* it was told to stop

vars == <<queued, running, done, stopped>>

Init == queued = {} /\ running = [w \in Workers |-> None] /\ done = {} /\ ~stopped

Held == {running[w] : w \in Workers}

Accept(e) ==
    /\ e \notin queued \cup Held \cup done
    /\ e \in RingEntries => Cardinality(queued \cap RingEntries) < Capacity
    /\ queued' = queued \cup {e}
    /\ UNCHANGED <<running, done, stopped>>

Take(w) ==
    /\ running[w] = None
    /\ \E e \in queued : /\ queued' = queued \ {e}
                         /\ running' = [running EXCEPT ![w] = e]
    /\ UNCHANGED <<done, stopped>>

Run(w) ==
    /\ running[w] # None
    /\ running' = [running EXCEPT ![w] = None]
    /\ done' = done \cup {running[w]}
    /\ UNCHANGED <<queued, stopped>>

Stop == stopped' = TRUE /\ UNCHANGED <<queued, running, done>>

Next == \/ \E e \in Entries : Accept(e)
        \/ \E w \in Workers : Take(w) \/ Run(w)
        \/ Stop

Fairness == WF_vars(~stopped /\ \E w \in Workers : Take(w)) /\ \A w \in Workers : WF_vars(Run(w))

Spec == Init /\ [][Next]_vars /\ Fairness
=============================================================================
