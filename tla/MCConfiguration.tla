-------------------------- MODULE MCConfiguration ---------------------------
(***************************************************************************)
(* Instance of Configuration for TLC.                                      *)
(***************************************************************************)
EXTENDS Configuration

MCDefault == [times |-> [minDuration EXCEPT !.ApiCheckInterval = 15000],
              tolerations |-> {}]
Shortest == [times |-> minDuration,
             tolerations |-> {[operator |-> "Exists", hasValue |-> FALSE,
                               effect |-> ""]}]
TooShort == [MCDefault EXCEPT !.times.PeerUpdateInterval = 9999]
BadToleration ==
    [MCDefault EXCEPT !.tolerations = {[operator |-> "Exists",
                                        hasValue |-> TRUE, effect |-> ""]}]

MCSpecs == {MCDefault, Shortest, TooShort, BadToleration}

============================================================================
