------------------------------- MODULE FdTable ------------------------------
(***************************************************************************)
(* What fd_ht of host/hook.c promises the hooked calls.  It is a row of    *)
(* entries for each bucket.  A call that opens, connects or closes a       *)
(* descriptor changes one row, in a single step between the moment the     *)
(* SmartNIC has answered and the moment the call returns.  The promise     *)
(* ends when two threads are at it with one bucket.                        *)
(***************************************************************************)
EXTENDS Integers, Sequences

CONSTANTS
  Thread,   \* threads of the application
  Fd,       \* descriptor numbers
  Hash,     \* the bucket of a descriptor
  NULL,     \* no descriptor
  ByIndex   \* the calls for which a descriptor in bucket 0 is not found

VARIABLES
  rows,       \* the entries of each bucket, the oldest first
  op,         \* the update that a thread has under way
  key,        \* its descriptor
  overlapped  \* two updates of one row have overlapped

vars == <<rows, op, key, overlapped>>

Bucket == {Hash[d] : d \in Fd}

Init ==
  /\ rows = [b \in Bucket |-> <<>>]
  /\ op = [t \in Thread |-> "none"]
  /\ key = [t \in Thread |-> NULL]
  /\ overlapped = FALSE

(* A search sees the oldest entry of the row only. *)
Found(call, d) ==
  LET row == rows[Hash[d]]
  IN  /\ row # <<>>
      /\ row[1].key = d
      /\ IF call \in ByIndex THEN Hash[d] # 0 ELSE row[1].value # 0

Begin(t, update, d) ==
  /\ op[t] = "none"
  /\ op' = [op EXCEPT ![t] = update]
  /\ key' = [key EXCEPT ![t] = d]
  /\ UNCHANGED <<rows, overlapped>>

Open(t) == \E d \in Fd : Begin(t, "open", d)
Connect(t) == \E d \in Fd : Found("connect", d) /\ Begin(t, "connect", d)
Close(t) == \E d \in Fd : Found("close", d) /\ Begin(t, "close", d)

Ends(t) ==
  /\ op' = [op EXCEPT ![t] = "none"]
  /\ key' = [key EXCEPT ![t] = NULL]
  /\ UNCHANGED overlapped

(* The entry of an open descriptor has the thread, a second one by connect   *)
(* the bucket.                                                               *)
Insert(t) ==
  /\ op[t] \in {"open", "connect"}
  /\ LET b == Hash[key[t]]
         entry == [key |-> key[t], value |-> IF op[t] = "open" THEN t ELSE b]
     IN  rows' = [rows EXCEPT ![b] = Append(@, entry)]
  /\ Ends(t)

Without(row, i) == [j \in 1 .. Len(row) - 1 |-> IF j < i THEN row[j] ELSE row[j + 1]]

(* The oldest entry of the descriptor goes, if there is one. *)
Delete(t) ==
  /\ op[t] = "close"
  /\ LET b == Hash[key[t]]
         row == rows[b]
     IN  \/ \E i \in 1 .. Len(row) :
              /\ row[i].key = key[t] /\ \A j \in 1 .. i - 1 : row[j].key # key[t]
              /\ rows' = [rows EXCEPT ![b] = Without(row, i)]
         \/ /\ \A i \in 1 .. Len(row) : row[i].key # key[t]
            /\ UNCHANGED rows
  /\ Ends(t)

(* Two threads have an update of one bucket under way; from then on the      *)
(* table may do anything.                                                    *)
Overlap ==
  /\ overlapped \/ \E t, u \in Thread :
       t # u /\ op[t] # "none" /\ op[u] # "none" /\ Hash[key[t]] = Hash[key[u]]
  /\ overlapped' = TRUE

Next ==
  \/ \E t \in Thread : Open(t) \/ Connect(t) \/ Close(t) \/ Insert(t) \/ Delete(t)
  \/ Overlap

Spec == Init /\ [][Next]_vars

=============================================================================
