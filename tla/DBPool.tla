------------------------------- MODULE DBPool -------------------------------
(***************************************************************************)
(* What the per-connection database manager promises: a connection has at  *)
(* most one DuckDB instance in its whole life, taken from MaxDB slots      *)
(* while the connection is up and given back after it went down.           *)
(***************************************************************************)
EXTENDS Naturals, FiniteSets

CONSTANTS Conns, MaxDB

VARIABLES
    link,     \* the TCP connection: "new", "up" or "down"
    session   \* its instance: "none", "held", "draining" or "gone"

poolVars == <<link, session>>

Init ==
    /\ link = [c \in Conns |-> "new"]
    /\ session = [c \in Conns |-> "none"]

HeldSlots == {c \in Conns : session[c] = "held"}

Connect(c) ==
    /\ link[c] = "new"
    /\ link' = [link EXCEPT ![c] = "up"]
    /\ UNCHANGED session

Acquire(c) ==
    /\ link[c] = "up"
    /\ session[c] = "none"
    /\ Cardinality(HeldSlots) < MaxDB
    /\ session' = [session EXCEPT ![c] = "held"]
    /\ UNCHANGED link

Disconnect(c) ==
    /\ link[c] = "up"
    /\ link' = [link EXCEPT ![c] = "down"]
    /\ UNCHANGED session

\* The slot is free again; the instance is still being closed.
Release(c) ==
    /\ link[c] = "down"
    /\ session[c] = "held"
    /\ session' = [session EXCEPT ![c] = "draining"]
    /\ UNCHANGED link

Finish(c) ==
    /\ session[c] = "draining"
    /\ session' = [session EXCEPT ![c] = "gone"]
    /\ UNCHANGED link

Next ==
    \E c \in Conns :
        Connect(c) \/ Acquire(c) \/ Disconnect(c) \/ Release(c) \/ Finish(c)

Spec == Init /\ [][Next]_poolVars

\* A dead connection keeps neither its slot nor its instance.
Fairness == \A c \in Conns : WF_poolVars(Release(c)) /\ WF_poolVars(Finish(c))

FairSpec == Spec /\ Fairness

=============================================================================
