----------------------------- MODULE ConnService ----------------------------
(***************************************************************************)
(* What get_r_info, set_req_sock and pthread_exit of the host promise the  *)
(* threads of the application.  One thread at a time is on its way to a    *)
(* connection.  It gets one that no other thread has and that carries      *)
(* nothing.  A request is executed at most once, while its caller waits.   *)
(* A connection may fail: the request it carried is then in doubt or lost, *)
(* and it never carries another; a request in doubt may be executed after  *)
(* its caller came back with an error.  A thread is gone for good after    *)
(* its last call.                                                          *)
(***************************************************************************)
CONSTANTS
  Thread,   \* threads of the application
  Starter,  \* the thread that makes the global connection
  Conn,     \* connections
  NoConn    \* no connection

VARIABLES
  stage,  \* how far a thread is
  mine,   \* the connection it has
  work    \* what a connection carries: a request, its reply or nothing;
          \* once it failed, a request in doubt, or it is dead

vars == <<stage, mine, work>>

Failed == {"doubt", "dead"}

Init ==
  /\ stage = [t \in Thread |-> IF t = Starter THEN "entering" ELSE "away"]
  /\ mine = [t \in Thread |-> NoConn]
  /\ work = [c \in Conn |-> "none"]

Moves(t, s, c) ==
  /\ stage' = [stage EXCEPT ![t] = s]
  /\ mine' = [mine EXCEPT ![t] = c]

Enter(t) ==
  /\ stage[t] = "away" /\ \A u \in Thread : stage[u] # "entering"
  /\ Moves(t, "entering", NoConn)
  /\ UNCHANGED work

(* The connection could not be made, or it is the global one. *)
Withdraw(t) ==
  /\ stage[t] = "entering"
  /\ Moves(t, "away", NoConn)
  /\ UNCHANGED work

Obtain(t) ==
  /\ stage[t] = "entering"
  /\ \E c \in Conn :
       /\ work[c] = "none" /\ \A u \in Thread : mine[u] # c
       /\ Moves(t, "held", c)
  /\ UNCHANGED work

(* A call, or the one that gives the connection back.  The request of a      *)
(* connection that has failed does not go out.                               *)
Call(t) ==
  /\ stage[t] = "held"
  /\ \E s \in {"called", "deleting"} : Moves(t, s, mine[t])
  /\ \/ /\ work[mine[t]] = "none"
        /\ work' = [work EXCEPT ![mine[t]] = "request"]
     \/ /\ work[mine[t]] \in Failed
        /\ UNCHANGED work

Execute(c) ==
  /\ work[c] = "request"
  /\ \E t \in Thread : mine[t] = c /\ stage[t] \in {"called", "deleting"}
  /\ work' = [work EXCEPT ![c] = "reply"]
  /\ UNCHANGED <<stage, mine>>

(* The connection fails: one that carries something, or that nobody has. *)
Fail(c) ==
  /\ \/ /\ work[c] = "request"
        /\ \E w \in Failed : work' = [work EXCEPT ![c] = w]
     \/ /\ work[c] = "reply" \/ (work[c] = "none" /\ \A t \in Thread : mine[t] # c)
        /\ work' = [work EXCEPT ![c] = "dead"]
  /\ UNCHANGED <<stage, mine>>

ExecuteLate(c) ==
  /\ work[c] = "doubt"
  /\ work' = [work EXCEPT ![c] = "dead"]
  /\ UNCHANGED <<stage, mine>>

(* The call returns: with its reply, or because the connection has failed. *)
Return(t) ==
  /\ stage[t] \in {"called", "deleting"}
  /\ \/ /\ work[mine[t]] = "reply"
        /\ work' = [work EXCEPT ![mine[t]] = "none"]
     \/ /\ work[mine[t]] \in Failed
        /\ UNCHANGED work
  /\ IF stage[t] = "called" THEN Moves(t, "held", mine[t]) ELSE Moves(t, "gone", NoConn)

(* A thread function returns. *)
Abandon(t) ==
  /\ stage[t] = "away" \/ (stage[t] = "held" /\ work[mine[t]] \in Failed \cup {"none"})
  /\ Moves(t, "gone", NoConn)
  /\ UNCHANGED work

Next ==
  \/ \E t \in Thread : \/ Enter(t) \/ Withdraw(t) \/ Obtain(t)
                       \/ Call(t) \/ Return(t) \/ Abandon(t)
  \/ \E c \in Conn : Execute(c) \/ Fail(c) \/ ExecuteLate(c)

Spec == Init /\ [][Next]_vars

=============================================================================
