------------------------------ MODULE Gateway -------------------------------
(***************************************************************************)
(* The gateway (crates/lluma-gateway): the key that opens capsules, kept   *)
(* in a file or made anew on every start, and the list of paths it will    *)
(* forward.                                                                *)
(*                                                                         *)
(* A path is the sequence of its segments.  The segments that matter are   *)
(* names, the empty one, ".", ".." and "%2e%2e", which the URL parser of   *)
(* the HTTP client reads as ".." when the request is sent.                 *)
(***************************************************************************)
EXTENDS Naturals, Sequences, SequencesExt

CONSTANTS allowed_prefixes,     \* allowed_path_prefixes: [segs, under], under for "/v1/"
          KeyPersisted, \* whether LLUMA_GATEWAY_KC_SK_FILE is set
          MaxKeys       \* bound on the keys made

ASSUME GatewayAssumption ==
    /\ KeyPersisted \in BOOLEAN
    /\ MaxKeys \in Nat \ {0}

VARIABLES
    secret,     \* GwState.secret, numbered
    key_file,   \* the persisted secret, 0 for none
    made        \* keys made so far

gatewayVars == <<secret, key_file, made>>

GatewayTypeOK ==
    /\ secret \in 1..MaxKeys
    /\ key_file \in 0..MaxKeys
    /\ made \in 1..MaxKeys

GatewayInit ==
    /\ secret = 1
    /\ key_file = IF KeyPersisted THEN 1 ELSE 0
    /\ made = 1

\* main: load the key, or make one and keep it if there is a place for it.
GatewayStarts ==
    /\ key_file = 0 => made < MaxKeys
    /\ secret' = IF key_file # 0 THEN key_file ELSE made + 1
    /\ made' = IF key_file # 0 THEN made ELSE made + 1
    /\ UNCHANGED key_file

\* Segments a URL parser would rewrite, and segments that are no names.
Rewritten == {"%2e%2e"}
Dots == {"", ".", ".."}

\* The prefix covers the path, at a segment boundary.
Covers(prefix, path) ==
    IF prefix.under THEN IsStrictPrefix(prefix.segs, path) ELSE IsPrefix(prefix.segs, path)

\* Mutant of PathAllowed: bytes the parser rewrites are let through.
PathAllowedRewritten(path) ==
    /\ Range(path) \cap Dots = {}
    /\ \E prefix \in allowed_prefixes : Covers(prefix, path)

\* path_allowed
PathAllowed(path) ==
    /\ Range(path) \cap (Rewritten \cup Dots) = {}
    /\ \E prefix \in allowed_prefixes : Covers(prefix, path)

\* One more segment, after the parser made acc of those before it.
Resolved(acc, seg) ==
    CASE seg = "." -> acc
      [] seg \in {"..", "%2e%2e"} -> IF acc = <<>> THEN acc ELSE Front(acc)
      [] OTHER -> Append(acc, seg)

\* What the URL parser makes of a path.
Normalized(path) ==
    LET upTo[i \in 0..Len(path)] ==
            IF i = 0 THEN <<>> ELSE Resolved(upTo[i - 1], path[i])
    IN  upTo[Len(path)]

\* process forwards a request iff its path passes as written and as parsed.
Forwardable(path) == PathAllowed(path) /\ PathAllowed(Normalized(path))
=============================================================================
