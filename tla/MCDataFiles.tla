---------------------------- MODULE MCDataFiles ----------------------------
(* Instances of DataFiles for TLC: two clients, two Refreshes.                *)
EXTENDS DataFiles, TLC

Nothing == [mode |-> "absent", host |-> "absent", password |-> "absent"]

Few == {[Nothing EXCEPT !.mode = "socks5"],  \* valid when a host is set
        [Nothing EXCEPT !.mode = "null"],
        [Nothing EXCEPT !.host = "proxy", !.password = "secret"],
        [mode |-> "host", host |-> "null", password |-> "***"]}

Symmetric == Permutations(Clients) \cup Permutations(Refreshers)
=============================================================================
