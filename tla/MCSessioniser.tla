---------------------------- MODULE MCSessioniser ----------------------------
(***************************************************************************)
(* Instances of Sessioniser for TLC, with the shape of the shipped rules   *)
(* (config/rules) and of config/scoring.yaml, at smaller numbers: a rule   *)
(* on counts over the session whose severity alone is below the alert      *)
(* minimum, and one on a single payload that is above it.                  *)
(***************************************************************************)
EXTENDS Sessioniser

CONSTANT k1, k2

MCKeys == {k1}
TwoKeys == {k1, k2}

Clause(op, field, value) == [op |-> op, field |-> field, value |-> value]

Bruteforce ==
    [severity |-> 60, enabled |-> TRUE, any |-> {},
     all |-> {Clause("gte", "credential_attempts", 2),
              Clause("gte", "distinct_passwords", 2)}]

SqliProbe ==
    [severity |-> 70, enabled |-> TRUE, all |-> {},
     any |-> {Clause("regex", "q", "sqli"), Clause("regex", "username", "sqli")}]

MCRules == <<Bruteforce, SqliProbe>>

Login(user, password) ==
    [action |-> "login_attempt",
     payload |-> [username |-> {user}, password |-> {password}]]

Fetch == [action |-> "request", payload |-> <<>>]

(* Any two different ones make a brute force; the second alone a probe. *)
MCKinds == {Login("root", "a"), Login("sqli", "b")}
PlainKinds == {Fetch}

NoFaults == {}
KillsAndRedis == {"kill", "redis"}
LostConnections == {"connection"}
=============================================================================
