----------------------------- MODULE MCRdmaConn -----------------------------
(* Small instances of RdmaConn for TLC. *)
EXTENDS RdmaConn

\* a failed call, a call that returns 0, and one that returns a count or an fd
MCResult == {-1, 0, 2}
\* for the runs in which only failure and success must differ
MCResult2 == {-1, 2}

\* every call succeeds
MCResult1 == {2}

=============================================================================
