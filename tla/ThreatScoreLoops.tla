-------------------------- MODULE ThreatScoreLoops --------------------------
(***************************************************************************)
(* The two loops of ApplyThreatIntelEvent, one iteration per step: the     *)
(* decay loop of decayThreatState and the level-up loop, with what follows *)
(* them.  ThreatScore states what they compute; this module shows that the *)
(* loops compute it, and that they end.                                    *)
(***************************************************************************)
EXTENDS ThreatScore

CONSTANTS
    Rows,    \* rows the event may find
    Sigs,    \* signals of the event
    Hards,   \* hard levels
    Times    \* when the event arrives

ASSUME LoopAssumption ==
    /\ Rows \subseteq IPState
    /\ Sigs \subseteq [delta: Nat \ {0}, boost: BOOLEAN]
    /\ Hards \subseteq 2..MaxLevel
    /\ Times \subseteq Nat

VARIABLE call  \* where the call is, what it was given (row, sig, hard, t), st.XP,
               \* st.Level and the decay iterations left

CallInit ==
    \E row \in Rows, sig \in Sigs, hard \in Hards, t \in Times :
        /\ t >= row.lastSeen
        /\ call = [pc |-> "start", row |-> row, sig |-> sig, hard |-> hard, t |-> t,
                   xp |-> row.xp, level |-> row.level, steps |-> 0]

Frozen == call.row.lastSeen = 0 \/ call.row.perm \/ SoftBanned(call.row, call.t)
Idle == call.t - call.row.lastSeen

DecayStart ==
    /\ call.pc = "start"
    /\ call' = IF Frozen THEN [call EXCEPT !.pc = "award"]
               ELSE [call EXCEPT !.pc = "decay", !.steps = Idle \div XPDecayIdle]

(* Mutated form: an iteration that does not count down. *)
DecayForever ==
    /\ call.pc = "decay" /\ call.steps > 0
    /\ call' = [call EXCEPT !.xp = (@ * 93) \div 100]

DecayStep ==
    /\ call.pc = "decay" /\ call.steps > 0
    /\ call' = [call EXCEPT !.xp = (@ * 93) \div 100, !.steps = @ - 1]

LevelDecay ==
    /\ call.pc = "decay" /\ call.steps = 0
    /\ LET down == Idle \div LevelDecayIdle IN
       call' = [call EXCEPT !.pc = "award", !.level = IF down > @ THEN 0 ELSE @ - down]

Award ==
    /\ call.pc = "award"
    /\ call' = [call EXCEPT !.pc = "loop", !.xp = @ + call.sig.delta]

LevelUp ==
    /\ call.pc = "loop"
    /\ call.level < call.hard /\ call.xp >= threatLevelThreshold(call.level)
    /\ call' = [call EXCEPT !.xp = @ - threatLevelThreshold(call.level), !.level = @ + 1]

(* The loop is left; a source at the hard level has its XP capped. *)
CapAt(bound) ==
    /\ call.pc = "loop"
    /\ call.level >= call.hard \/ call.xp < threatLevelThreshold(call.level)
    /\ call' = [call EXCEPT !.pc = "boost",
                            !.xp = IF call.level >= call.hard THEN atMost(@, bound) ELSE @]

(* Mutated form: the XP is capped below the threshold. *)
CapBelow == CapAt(threatLevelThreshold(call.hard) - 1)

Cap == CapAt(threatLevelThreshold(call.hard))

WatchBoost ==
    /\ call.pc = "boost"
    /\ call' = IF call.sig.boost /\ call.level < WatchLevel
               THEN [call EXCEPT !.pc = "done", !.level = WatchLevel,
                                 !.xp = atMost(@, threatLevelThreshold(WatchLevel) - 1)]
               ELSE [call EXCEPT !.pc = "done"]

CallNext == DecayStart \/ DecayStep \/ LevelDecay \/ Award \/ LevelUp \/ Cap \/ WatchBoost

CallSpec == CallInit /\ [][CallNext]_call /\ WF_call(CallNext)

-----------------------------------------------------------------------------
(* Properties. *)

(* The loops compute what decayThreatState and escalate say, for every row *)
(* and event: the closed form ThreatIntel uses is the code's loop.         *)
LoopsComputeScore ==
    call.pc = "done" =>
        LET up == escalate(decayThreatState(call.row, call.t), call.sig, call.hard)
        IN  call.level = up.level /\ call.xp = up.xp

(* Every call ends: the decay loop counts down, the level-up loop stops at *)
(* the hard level at the latest.                                           *)
CallEnds == <>(call.pc = "done")
=============================================================================
