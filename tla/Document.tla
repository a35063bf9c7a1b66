------------------------------ MODULE Document ------------------------------
(***************************************************************************)
(* What the rest of the relay assumes of state.json: one document that is  *)
(* there whole or not at all, that changes in one step, keeps its identity *)
(* for as long as it exists, and may be found again after a power cut as   *)
(* any version since the last one that reached the disk.                   *)
(***************************************************************************)
EXTENDS Naturals

VARIABLES
    value,  \* the document a reader would find
    maybe   \* the versions one of which a power cut leaves

Absent == [v |-> 0, agent |-> 0, tls |-> 0, token |-> 0, n |-> 0, roles |-> FALSE]

Whole(d) == d = Absent \/ d.v \in {1, 2}

Init == Whole(value) /\ maybe = {value}

\* The next version: the same identity, and the same key once it has one.
Change ==
    /\ value # Absent
    /\ value'.v = 2 /\ value'.agent = value.agent
    /\ value.tls # 0 => value'.tls = value.tls
    /\ maybe' = maybe \cup {value'}

\* A first document has an identity of its own and belongs to no household.
Create ==
    /\ value = Absent
    /\ value'.v = 2 /\ value'.token = 0
    /\ maybe' = maybe \cup {value'}

Erase == value' = Absent /\ maybe' = maybe \cup {Absent}

Reach == value' = value /\ maybe' = {value}

PowerLoss == value' \in maybe /\ maybe' = {value'}

Next == Change \/ Create \/ Erase \/ Reach \/ PowerLoss

Spec == Init /\ [][Next]_<<value, maybe>>
=============================================================================
