----------------------------- MODULE SocketCall -----------------------------
(***************************************************************************)
(* What a hooked socket call promises its caller: the call is executed on  *)
(* the SmartNIC at most once, as the operation that was asked for, while   *)
(* the caller waits; then its value is returned.  Calls do not overlap.    *)
(***************************************************************************)
EXTENDS Integers

CONSTANTS
  Op,        \* the operations
  Promised,  \* the operations whose value reaches the caller unchanged
  Value      \* return values, 0 while there is none

VARIABLES phase, op, value

vars == <<phase, op, value>>

Init ==
  /\ phase = "idle"
  /\ op \in Op
  /\ value = 0

Call ==
  /\ phase = "idle"
  /\ phase' = "called"
  /\ op' \in Op
  /\ value' = 0

Execute ==
  /\ phase = "called"
  /\ phase' = "executed"
  /\ value' \in Value
  /\ UNCHANGED op

(* For an operation outside Promised the caller may see another value. *)
Return ==
  /\ phase = "executed"
  /\ phase' = "idle"
  /\ value' \in (IF op \in Promised THEN {value} ELSE Value)
  /\ UNCHANGED op

(* A call that could not be handed to the SmartNIC returns -1, unexecuted. *)
Fail ==
  /\ phase = "called"
  /\ phase' = "idle"
  /\ value' = -1
  /\ UNCHANGED op

Next == Call \/ Execute \/ Return \/ Fail

SafeSpec == Init /\ [][Next]_vars

Spec == SafeSpec /\ WF_vars(Execute \/ Return \/ Fail)

=============================================================================
