----------------------------- MODULE MCHostHook ----------------------------
(* Small instances of HostHook for TLC, with what hashFunction returns: of   *)
(* the descriptors below 64 only 19 and 45 share a bucket, and no descriptor *)
(* below 1024 hashes to 0.                                                   *)
EXTENDS HostHook, TLC

MurmurHash3 == 19 :> 783 @@ 45 :> 783
OneHash == 19 :> 783

(* The promises end when two updates of a chain overlap: behaviours are       *)
(* followed until the second one has been written.                            *)
UntilRaced ==
  raced => \E t \in Thread : /\ pc[t] \in {"link", "link_again", "unlink"}
                                /\ \A u \in Thread \ {t} : pc[u] = "idle"

Symmetry == Permutations(Thread) \cup Permutations(Node)
=============================================================================
