---------------------------- MODULE MCAttackSim ----------------------------
(***************************************************************************)
(* Instances of AttackSim for TLC: one class of each kind, with the shape  *)
(* of the generators at smaller numbers.                                   *)
(***************************************************************************)
EXTENDS AttackSim

Class(label, transport, kind, draws) ==
    [label |-> label, transport |-> transport, kind |-> kind, draws |-> draws]

Drawing(items, attempts, commands) ==
    [items |-> items, attempts |-> attempts, commands |-> commands]

(* More items than attempts, and fewer; guesses to spare. *)
MCRegistry ==
    [recon_scan |-> Class("recon_scan", "http", "requests", {Drawing(1, 0, 0)}),
     ssh_bruteforce |-> Class("credential_bruteforce", "ssh", "brute",
                              {Drawing(2, 3, 0), Drawing(3, 2, 0)}),
     malware_dropper |-> Class("malware_dropper", "ssh", "dropper", {Drawing(3, 0, 1)})]

Mix(n, m, k) == [recon_scan |-> n, ssh_bruteforce |-> m, malware_dropper |-> k]

(* The second has more campaigns than there are sources. *)
MCMixes == {Mix(1, 1, 1), Mix(4, 0, 0)}
MCOnlys == {{}, {"ssh_bruteforce"}, {"telnet"}}

MCTrain == {"198.51.100.2", "198.51.100.3"}
MCHeldOut == {"203.0.113.2"}
MCGrants == {1, 2}
=============================================================================
