---------------------------- MODULE ThreatScore ----------------------------
(***************************************************************************)
(* The scoring of threat-intel sources (internal/app/service.go): XP,      *)
(* levels, decay while idle, and the decision taken on one event.  Pure    *)
(* operators over the row of threat_intel_ip_state; ThreatIntel interleaves *)
(* them over the shared tables.                                            *)
(*                                                                         *)
(* Time is an integer; 0 is Go's zero time.Time.  A row that does not      *)
(* exist is FreshState: GetThreatIntelIPState's ErrNoRows branch builds    *)
(* exactly that record, and a stored row never has a zero last_seen_at.    *)
(* TopSignal, SignalCounts and TempBlockCount feed no decision: left out.  *)
(***************************************************************************)
EXTENDS Integers

CONSTANTS
    MaxLevel,        \* bound on levels (hard levels and the watch level lie below it)
    XPDecayIdle,     \* 30 minutes
    LevelDecayIdle,  \* 72 hours
    SoftBlock        \* SoftBlockMinutes

WatchLevel == 3      \* defaultTIWatchLevel

ASSUME ScoreAssumption ==
    /\ MaxLevel \in Nat /\ MaxLevel >= WatchLevel
    /\ XPDecayIdle \in Nat \ {0} /\ LevelDecayIdle \in Nat /\ LevelDecayIdle >= 8 * XPDecayIdle
    /\ SoftBlock \in Nat

Levels == 0..MaxLevel
Risks == {"monitoring", "watch", "softblock", "hardblock"}
Config == [auto: BOOLEAN, soft: Levels, hard: Levels]

IPState == [xp: Nat, level: Levels, risk: Risks, banUntil: Nat,
            perm: BOOLEAN, lastSeen: Nat]

FreshState == [xp |-> 0, level |-> 0, risk |-> "monitoring", banUntil |-> 0,
               perm |-> FALSE, lastSeen |-> 0]

eightTo[n \in Nat] == IF n = 0 THEN 1 ELSE 8 * eightTo[n - 1]
fiveTo[n \in Nat] == IF n = 0 THEN 1 ELSE 5 * fiveTo[n - 1]

(* XP needed to leave a level: 10 * (8/5)^level, rounded to the nearest.   *)
threatLevelThreshold(level) == (20 * eightTo[level] + fiveTo[level]) \div (2 * fiveTo[level])

(* XP spent on the way from level 0 to level l by the level-up loop.       *)
spentXP[l \in Nat] ==
    IF l = 0 THEN 0 ELSE spentXP[l - 1] + threatLevelThreshold(l - 1)

(* n decay periods: XP is multiplied by 0.93 and floored n times.          *)
decayedXP[n \in Nat] ==
    [x \in Nat |-> IF n = 0 \/ x = 0 THEN x ELSE decayedXP[n - 1][(x * 93) \div 100]]

SoftBanned(st, t) == st.banUntil > t

(* Prison mode: nothing decays while the source is blocked.                *)
decayThreatState(st, t) ==
    LET idle == t - st.lastSeen
        down == idle \div LevelDecayIdle
    IN  IF st.lastSeen = 0 \/ st.perm \/ SoftBanned(st, t) THEN st
        ELSE [st EXCEPT
                !.xp = IF idle >= XPDecayIdle THEN decayedXP[idle \div XPDecayIdle][@] ELSE @,
                !.level = IF idle < LevelDecayIdle THEN @
                          ELSE IF down > @ THEN 0 ELSE @ - down]

(* The level at which the level-up loop breaks: the first one that is hard *)
(* or whose threshold the remaining XP does not reach.                     *)
reachedLevel(xp, level, hard) ==
    LET stops(l) == \/ l >= hard
                    \/ xp - (spentXP[l] - spentXP[level]) < threatLevelThreshold(l)
    IN  CHOOSE l \in level..MaxLevel :
            stops(l) /\ \A k \in level..(l - 1) : ~stops(k)

atMost(x, bound) == IF x > bound THEN bound ELSE x

(* Mutated form: the XP of a source at the hard level is not capped. *)
escalateUncapped(st, sig, hard) ==
    LET level == reachedLevel(st.xp + sig.delta, st.level, hard)
    IN  [level |-> level, xp |-> st.xp + sig.delta - (spentXP[level] - spentXP[st.level])]

(* Award XP, level up, cap the XP of a source that reached the hard level, *)
(* and lift a source with a feed or signature hit into the watched band.   *)
escalate(st, sig, hard) ==
    LET level == reachedLevel(st.xp + sig.delta, st.level, hard)
        rest  == st.xp + sig.delta - (spentXP[level] - spentXP[st.level])
        xp    == IF level >= hard THEN atMost(rest, threatLevelThreshold(hard)) ELSE rest
    IN  IF sig.boost /\ level < WatchLevel
        THEN [level |-> WatchLevel, xp |-> atMost(xp, threatLevelThreshold(WatchLevel) - 1)]
        ELSE [level |-> level, xp |-> xp]

threatRiskState(level, soft, hard) ==
    IF level >= hard THEN "hardblock" ELSE IF level >= soft THEN "softblock" ELSE "monitoring"

(* Mutated form: a source that reaches the hard level keeps its soft ban. *)
decideKeepsBan(st, up, ev, cfg, t) ==
    LET perm == st.perm \/ (ev.auto /\ up.level >= cfg.hard)
    IN  [st |-> [xp |-> up.xp, level |-> up.level, perm |-> perm, lastSeen |-> t,
                 risk |-> threatRiskState(up.level, cfg.soft, cfg.hard),
                 banUntil |-> IF ev.auto /\ up.level >= cfg.soft THEN t + SoftBlock ELSE st.banUntil],
         decision |-> IF perm THEN "hard_block_permanent" ELSE "soft_block_set"]

(* ApplyThreatIntelEvent between its read and its writes, from the decayed *)
(* row st and the score up that escalate gives it: the row to store and    *)
(* the decision.  ev.auto is the event's own mode (auto_mode).             *)
decide(st, up, ev, cfg, t) ==
    LET perm == st.perm \/ (ev.auto /\ up.level >= cfg.hard)
        newPerm == ev.auto /\ up.level >= cfg.hard
        active  == ~newPerm /\ SoftBanned(st, t)
        setSoft == ~perm /\ ~active /\ ev.auto /\ ~ev.sig.boost /\ up.level >= cfg.soft
        risk == IF newPerm THEN "hardblock"
                ELSE IF ev.sig.boost /\ ~st.perm /\ ~SoftBanned(st, t) THEN "watch"
                ELSE threatRiskState(up.level, cfg.soft, cfg.hard)
    IN  [st |-> [xp |-> up.xp, level |-> up.level, risk |-> risk, perm |-> perm,
                 lastSeen |-> t,
                 banUntil |-> IF newPerm THEN 0
                              ELSE IF setSoft THEN t + SoftBlock ELSE st.banUntil],
         decision |-> IF perm THEN "hard_block_permanent"
                      ELSE IF active THEN "soft_block_active"
                      ELSE IF setSoft THEN "soft_block_set"
                      ELSE IF ev.auto /\ ev.sig.boost THEN "watch_boost"
                      ELSE "monitor_observe"]

(* The row PromoteThreatIntelHardBlocks writes.                            *)
hardBlockedState(st) ==
    [xp |-> st.xp, level |-> st.level, risk |-> "hardblock", banUntil |-> 0, perm |-> TRUE,
     lastSeen |-> st.lastSeen]

(* ReconcileThreatIntelDecay, one row: a hard block past its retention     *)
(* returns to the watched band, then the row decays like any other.        *)
releasedState(t) ==
    [xp |-> threatLevelThreshold(WatchLevel), level |-> WatchLevel, risk |-> "watch",
     banUntil |-> 0, perm |-> FALSE, lastSeen |-> t]

banLapsed(st, t) == st.banUntil # 0 /\ ~SoftBanned(st, t)

reconcileState(st, cfg, t) ==
    LET d == decayThreatState(st, t)
    IN  [d EXCEPT
            !.banUntil = IF banLapsed(d, t) THEN 0 ELSE @,
            !.risk = IF @ # "watch" THEN threatRiskState(d.level, cfg.soft, cfg.hard)
                     ELSE IF d.level = 0 /\ d.xp = 0 THEN "monitoring" ELSE @]

(* Cooled down for good: nothing left to forget, idle for 72 hours.        *)
cooledDown(st, t) ==
    /\ st.xp = 0 /\ st.level = 0
    /\ t - st.lastSeen >= LevelDecayIdle
    /\ ~st.perm /\ st.banUntil = 0
=============================================================================
