-------------------------------- MODULE Turns --------------------------------
(***************************************************************************)
(* What the lock around Script.configure() promises the processes of a     *)
(* host: they configure one at a time (LockedConfigureMeta in script.py).  *)
(***************************************************************************)
CONSTANT Processes

VARIABLE inside   \* the processes inside configure()

Init == inside = {}

Enter(p) == inside = {} /\ inside' = {p}

(* configure() returns, raises, or its process is killed.                  *)
Leave(p) == p \in inside /\ inside' = inside \ {p}

Next == \E p \in Processes : Enter(p) \/ Leave(p)

Spec == Init /\ [][Next]_inside
=============================================================================
