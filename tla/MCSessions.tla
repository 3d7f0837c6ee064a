----------------------------- MODULE MCSessions -----------------------------
(* Instances of Sessions for TLC: two clients and the host, two passwords.    *)
EXTENDS Sessions, TLC

Symmetric == Permutations(Clients) \cup Permutations(Passwords)
=============================================================================
