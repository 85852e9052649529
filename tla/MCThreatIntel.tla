--------------------------- MODULE MCThreatIntel ---------------------------
(* Instances of ThreatIntel for TLC.  The unit of time is 15 minutes.      *)
EXTENDS ThreatIntel

CONSTANT a

MCAuto34 == [auto |-> TRUE, soft |-> 3, hard |-> 4]
MCAuto14 == [auto |-> TRUE, soft |-> 1, hard |-> 4]
MCAuto12 == [auto |-> TRUE, soft |-> 1, hard |-> 2]

MCOneConfig == {MCAuto34}
MCTwoConfigs == {MCAuto14, MCAuto12}  \* one setting apart: stored by one statement

MCScan == [delta |-> 66, boost |-> FALSE]
MCKnown == [delta |-> 26, boost |-> TRUE]
MCScans == {MCScan}
MCBoth == {MCScan, MCKnown}

(* a soft ban lapses, a level decays, a block passes its retention *)
MCInstants == {1, 2, 290, 6100}
MCDecay == {1, 290, 6100}
MCShort == {1, 2}
=============================================================================
