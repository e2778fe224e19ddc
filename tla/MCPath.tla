------------------------------- MODULE MCPath -------------------------------
(***************************************************************************)
(* An instance of Path for TLC.  Its clock has one second, which a restart *)
(* of relay or gateway, a new key of a host, or the refill of a bucket     *)
(* takes: a behaviour has one of them, anywhere among its other steps.     *)
(***************************************************************************)
EXTENDS Path, TLC

\* The paths of the client library as the deployment lists them, and a prefix that
\* ends in a slash.
MCPrefixes == {[segs |-> <<"v1", "exec">>, under |-> FALSE],
               [segs |-> <<"v1", "key-config">>, under |-> FALSE],
               [segs |-> <<"v1", "snapshot">>, under |-> FALSE],
               [segs |-> <<"v1", "issue">>, under |-> TRUE]}

\* Beneath the slash and at it, a listed path the parser makes of another one, a way
\* out of the list, and a name that only begins like a listed one.
MCPaths == {<<"v1", "issue", "new">>,
            <<"v1", "issue">>,
            <<"v1", "exec", "%2e%2e", "snapshot">>,
            <<"v1", "exec", "..", "admin">>,
            <<"v1", "execx">>}

\* A bound: a capsule is repeated only where the calls made are one client's, so that
\* its repeat meets a retry of the same token.  Without a repeat two clients are free.
RepeatsOfRetries ==
    (\E f \in Repeats : flight[f].at # "none") =>
        \A c, d \in Calls : None \in {call[c].by, call[d].by} \/ call[c].by = call[d].by

MCSymmetry == Permutations(Clients) \cup Permutations(Calls) \cup Permutations(Hosts)
=============================================================================
