--------------------------- MODULE MCThreatScore ---------------------------
(* Rows and events for ThreatScoreLoops, in units of 15 minutes: both      *)
(* sides of every threshold, fresh, idle, banned and hard-blocked rows.    *)
EXTENDS ThreatScoreLoops

MCRow(x, l, ban, p) == [xp |-> x, level |-> l, risk |-> "monitoring",
                        banUntil |-> ban, perm |-> p, lastSeen |-> 1]

MCRows ==
    {FreshState}
    \union {MCRow(x, l, 0, FALSE) : x \in {0, 1, 9, 25, 40, 66, 105}, l \in 0..4}
    \union {MCRow(x, 3, 4, FALSE) : x \in {0, 30}}
    \union {MCRow(x, 4, 0, TRUE) : x \in {0, 66}}

MCSigs == [delta: {1, 4, 10, 26, 42, 93}, boost: BOOLEAN]

(* no idle time, one XP period, several, one level, more than all levels *)
MCTimes == {1, 3, 12, 289, 1500}
=============================================================================
