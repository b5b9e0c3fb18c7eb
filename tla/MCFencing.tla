----------------------------- MODULE MCFencing ------------------------------
(***************************************************************************)
(* Instances of Fencing for TLC.                                           *)
(***************************************************************************)
EXTENDS Fencing

\* A tick is 15 s.  The second configuration detects sooner; its safe time is
\* chosen for nodes that still run with the first.
Patient == [MaxApiErrorThreshold |-> 3, ApiCheckInterval |-> 1,
            ApiServerTimeout |-> 0, PeerDialTimeout |-> 1,
            PeerRequestTimeout |-> 0, safeTime |-> 0]
Quick == [Patient EXCEPT !.MaxApiErrorThreshold = 1, !.safeTime = 7]

MCConfigs == {Patient, Quick}

\* A tick is 5 s: the defaults of the configuration.
Defaults == [MaxApiErrorThreshold |-> 3, ApiCheckInterval |-> 3,
             ApiServerTimeout |-> 1, PeerDialTimeout |-> 1,
             PeerRequestTimeout |-> 1, safeTime |-> 0]

MCDefaults == {Defaults}

ByName(n) == [name |-> n, annotation |-> None, owners |-> {"NodeHealthCheck"},
              machine |-> "m2", nodeRef |-> None]
OfMachine(m, n) == [name |-> "snr", annotation |-> None, owners |-> {"Machine"},
                    machine |-> m, nodeRef |-> n]
OfBoth(m, n) == [name |-> "snr", annotation |-> n,
                 owners |-> {"NodeHealthCheck", "Machine"}, machine |-> m,
                 nodeRef |-> n]

MCIdentity == {ByName("n1")}
MCIdentities == {OfBoth("m1", "n1"), OfMachine("m2", "n2")}

============================================================================
