--------------------------- MODULE StateRegister ---------------------------
(* What write_run_state promises ("Atomically publish one complete JSON     *)
(* document"): each name is a register that one write changes in one step,  *)
(* and that nothing else changes, whatever happens to the writers.          *)
CONSTANTS Names, Documents, Absent
VARIABLE value

Init == value = [n \in Names |-> Absent]

Write(n, d) == value' = [value EXCEPT ![n] = d]

Next == \E n \in Names, d \in Documents: Write(n, d)

Spec == Init /\ [][Next]_value
=============================================================================
