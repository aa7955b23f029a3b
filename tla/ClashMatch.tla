----------------------------- MODULE ClashMatch -----------------------------
(***************************************************************************)
(* One Aexion Clash match after another, and the War Score (WS) they pay.  *)
(* AexionClash counts kills, lane pressure and dead COREs and settles the  *)
(* match; ClashLocalMatch mirrors the result; WarScoreTracker mirrors the  *)
(* daily total of SoftSession, which is the ledger of record and lives in  *)
(* user://soft_session.json.  Matches, midnight, saves by other parts of   *)
(* the game, restarts and crashes interleave.                              *)
(*                                                                         *)
(* A handler is a chain of calls that each change several of these nodes,  *)
(* so calls are operators from the state record w to the state after the   *)
(* call, and an action hands the last one to Becomes.                      *)
(***************************************************************************)
EXTENDS Naturals

CONSTANTS
  Lanes, MID,            \* TOP, MID, BOT
  Player, Enemy,         \* the factions
  PRESSURE_MAX, TARGET_KILLS,
  KillPressure, MinionPressure, CampPressure, PrimePressure, CorePressure,
  BeaconPressure, HoldDecay,
  StructurePressure,     \* what an OUTER, MID or INHIB adds
  PresencePressure,      \* what one objective tick adds
  DAILY_CAP, WIN_WS, LOSS_WS, KILL_WS, OBJECTIVE_WS, CAMP_WS, PRIME_WS,
  NoFile,                \* soft_session.json is absent or does not parse
  MaxDay,                \* bound: calendar days
  MaxLost                \* bound: how often the day's record is lost

ASSUME ClashAssumption ==
  /\ MID \in Lanes
  /\ Player # Enemy
  /\ {PRESSURE_MAX, TARGET_KILLS, DAILY_CAP, WIN_WS, LOSS_WS, KILL_WS,
      OBJECTIVE_WS, CAMP_WS, PRIME_WS, MaxDay} \subseteq Nat \ {0}
  /\ {KillPressure, MinionPressure, CampPressure, PrimePressure, CorePressure,
      BeaconPressure, HoldDecay} \subseteq Nat
  /\ StructurePressure \subseteq Nat
  /\ PresencePressure \subseteq Nat
  /\ MaxLost \in Nat

Factions == {Player, Enemy}
Day      == 0..MaxDay              \* 0: the empty day key
WS       == 0..DAILY_CAP
Result   == {"", "WIN", "LOSS"}

Session == [day : Day, daily : WS, result : Result, cosmetic : BOOLEAN]
Tracker == [day : Day, daily : WS]
Match   == [kills : 0..TARGET_KILLS, pressure : [Lanes -> 0..PRESSURE_MAX],
            claimed : [Lanes -> BOOLEAN], ended : BOOLEAN, result : Result,
            cosmetic : BOOLEAN]
Local   == [over : BOOLEAN, result : Result, title : BOOLEAN]

ASSUME NoFileAssumption == NoFile \notin Session

VARIABLES
  today,    \* the system date
  scene,    \* "space", "arena" (TestArena) or "probe" (isolated local match)
  cores,    \* [Factions -> is the CORE turret alive]
  session,  \* SoftSession in memory
  file,     \* user://soft_session.json
  war,      \* WarScoreTracker of the arena
  clash,    \* AexionClash of the arena
  local,    \* ClashLocalMatch
  paid,     \* history: WS paid out since midnight
  settled,  \* history: results recorded since the scene was entered
  behind,   \* the last save did not reach the file
  lost      \* history: how often the record was cut off, not read or behind

clashVars ==
  <<today, scene, cores, session, file, war, clash, local, paid, settled,
  behind, lost>>

FreshSession == [day |-> 0, daily |-> 0, result |-> "", cosmetic |-> FALSE]
FreshTracker == [day |-> 0, daily |-> 0]
FreshMatch   == [kills |-> 0, pressure |-> [l \in Lanes |-> 0],
                 claimed |-> [l \in Lanes |-> FALSE], ended |-> FALSE,
                 result |-> "", cosmetic |-> FALSE]
FreshLocal   == [over |-> FALSE, result |-> "", title |-> FALSE]

ClashTypeOK ==
  /\ today \in 1..MaxDay
  /\ scene \in {"space", "arena", "probe"}
  /\ cores \in [Factions -> BOOLEAN]
  /\ session \in Session
  /\ file \in Session \cup {NoFile}
  /\ war \in Tracker
  /\ clash \in Match
  /\ local \in Local
  /\ paid \in Nat
  /\ settled \in Nat
  /\ behind \in BOOLEAN
  /\ lost \in 0..MaxLost

ClashInit ==
  /\ today = 1
  /\ scene = "space"
  /\ cores = [f \in Factions |-> TRUE]
  /\ session = FreshSession
  /\ file = NoFile
  /\ war = FreshTracker
  /\ clash = FreshMatch
  /\ local = FreshLocal
  /\ paid = 0
  /\ settled = 0
  /\ behind = FALSE
  /\ lost = 0

-----------------------------------------------------------------------------
(* Calls.                                                                  *)

\* The state before a handler.  The disk takes its first n saves: one that
\* fails before one that reaches the file leaves no trace, for a save writes
\* the whole session.
At(n) == [session |-> session, file |-> file, war |-> war, clash |-> clash,
          local |-> local, paid |-> paid, settled |-> settled,
          behind |-> behind, room |-> n]

\* No handler saves more often than a kill that fills the last lane: KILL_WS,
\* OBJECTIVE_WS, the result's WS and the result.
Room == 0..4

Becomes(w) ==
  /\ session' = w.session
  /\ file' = w.file
  /\ war' = w.war
  /\ clash' = w.clash
  /\ local' = w.local
  /\ paid' = w.paid
  /\ settled' = w.settled
  /\ behind' = w.behind

Least(a, b) == IF a <= b THEN a ELSE b

\* save_session: returns without a word when the file does not open.
Save(w) ==
  IF w.room = 0 THEN [w EXCEPT !.behind = TRUE]
  ELSE [w EXCEPT !.file = w.session, !.behind = FALSE, !.room = @ - 1]

\* _roll_ws_day
Rolled(s) == IF s.day = today THEN s ELSE [s EXCEPT !.day = today, !.daily = 0]

\* Mutated: what is granted is not saved.
GrantWarScoreUnsaved(w, amount) ==
  LET s   == Rolled(w.session)
      got == Least(amount, DAILY_CAP - s.daily)
  IN  [w EXCEPT !.session = [s EXCEPT !.daily = @ + got], !.paid = @ + got]

\* SoftSession.grant_war_score: saves only when something is granted.
GrantWarScore(w, amount) ==
  LET s   == Rolled(w.session)
      got == Least(amount, DAILY_CAP - s.daily)
      v   == [w EXCEPT !.session = [s EXCEPT !.daily = @ + got], !.paid = @ + got]
  IN  IF got > 0 THEN Save(v) ELSE v

\* What grant_war_score returns.
Granted(w, amount) == Least(amount, DAILY_CAP - Rolled(w.session).daily)

\* Mutated: the tracker takes the day and keeps a count of its own.
AddMatchPointsOwnCount(w, amount) ==
  LET v == GrantWarScore(w, amount)
  IN  [v EXCEPT !.war = [day   |-> v.session.day,
                         daily |-> Least(@.daily + Granted(w, amount), DAILY_CAP)]]

\* WarScoreTracker.add_match_points: the tracker adopts the session's day and
\* total.
AddMatchPoints(w, amount) ==
  LET v == GrantWarScore(w, amount)
  IN  [v EXCEPT !.war = [day |-> v.session.day, daily |-> v.session.daily]]

\* SoftSession.remember_clash_result
RememberResult(w, won, cosmetic) ==
  LET s == [w.session EXCEPT !.result = IF won THEN "WIN" ELSE "LOSS",
                             !.cosmetic = cosmetic]
  IN  Save([w EXCEPT !.session = s, !.settled = @ + 1])

\* Mutated: settles a match that has already ended.
EndMatchAgain(w, won) ==
  LET ws       == IF won THEN WIN_WS ELSE LOSS_WS
      cosmetic == won /\ Granted(w, ws) = 0
      v        == RememberResult(AddMatchPoints(w, ws), won, cosmetic)
  IN  [v EXCEPT !.clash.ended = TRUE,
                !.clash.result = IF won THEN "WIN" ELSE "LOSS",
                !.clash.cosmetic = cosmetic,
                !.local.title = cosmetic]

\* AexionClash._end_match: pays the result, records it, and tells the local
\* match which reward label to show.
EndMatch(w, won) ==
  LET ws       == IF won THEN WIN_WS ELSE LOSS_WS
      cosmetic == won /\ Granted(w, ws) = 0
      v        == RememberResult(AddMatchPoints(w, ws), won, cosmetic)
  IN  IF w.clash.ended THEN w
      ELSE [v EXCEPT !.clash.ended = TRUE,
                     !.clash.result = IF won THEN "WIN" ELSE "LOSS",
                     !.clash.cosmetic = cosmetic,
                     !.local.title = cosmetic]

\* AexionClash._add_pressure: a full lane pays once; the third ends the match.
AddPressure(w, lane, amount) ==
  LET next    == Least(w.clash.pressure[lane] + amount, PRESSURE_MAX)
      pressed == [w EXCEPT !.clash.pressure[lane] = next]
      claimed == AddMatchPoints([pressed EXCEPT !.clash.claimed[lane] = TRUE],
                                OBJECTIVE_WS)
  IN  IF next < PRESSURE_MAX \/ w.clash.claimed[lane] THEN pressed
      ELSE IF \A l \in Lanes : claimed.clash.claimed[l] THEN EndMatch(claimed, TRUE)
      ELSE claimed

\* The handlers that return early once the match has ended.
RegisterKill(w, lane) ==
  LET v == AddPressure(AddMatchPoints([w EXCEPT !.clash.kills = @ + 1], KILL_WS),
                       lane, KillPressure)
  IN  IF v.clash.kills >= TARGET_KILLS THEN EndMatch(v, TRUE) ELSE v

\* The camp's own WS follows even when its pressure has just ended the match.
RegisterCampDown(w, pressure, ws) ==
  AddMatchPoints(AddPressure(w, MID, pressure), ws)

\* register_structure_down("CORE", MID, fac): pressure first, then the result.
RegisterCoreDown(w, fac) ==
  IF w.clash.ended THEN w
  ELSE EndMatch(AddPressure(w, MID, CorePressure), fac # Player)

\* ClashLocalMatch._sync_from_clash
SyncFromClash(w) ==
  [w EXCEPT !.local = [over |-> TRUE, result |-> w.clash.result,
                       title |-> w.clash.cosmetic /\ w.clash.result = "WIN"]]

\* ClashLocalMatch._resolve_local: no AexionClash, the local match settles.
ResolveLocal(w, fac) ==
  LET won      == fac # Player
      ws       == IF won THEN WIN_WS ELSE LOSS_WS
      cosmetic == won /\ Granted(w, ws) = 0
      v        == RememberResult(GrantWarScore(w, ws), won, cosmetic)
  IN  [v EXCEPT !.local = [over |-> TRUE, result |-> IF won THEN "WIN" ELSE "LOSS",
                           title |-> cosmetic]]

-----------------------------------------------------------------------------
(* The arena.                                                              *)

Playing == scene = "arena" /\ ~clash.ended

\* Scene change to TestArena; WarScoreTracker._ready rolls and reads SoftSession.
EnterArena ==
  LET s == Rolled(session) IN
  /\ scene = "space"
  /\ scene' = "arena"
  /\ cores' = [f \in Factions |-> TRUE]
  /\ session' = s
  /\ war' = [day |-> s.day, daily |-> s.daily]
  /\ clash' = FreshMatch
  /\ local' = FreshLocal
  /\ settled' = 0
  /\ UNCHANGED <<today, file, paid, behind, lost>>

Kill ==
  /\ Playing
  /\ \E lane \in Lanes, n \in Room : Becomes(RegisterKill(At(n), lane))
  /\ UNCHANGED <<today, scene, cores, lost>>

MinionDown ==
  /\ Playing
  /\ \E lane \in Lanes, n \in Room : Becomes(AddPressure(At(n), lane, MinionPressure))
  /\ UNCHANGED <<today, scene, cores, lost>>

CampDown ==
  /\ Playing
  /\ \E n \in Room : \/ Becomes(RegisterCampDown(At(n), CampPressure, CAMP_WS))
                    \/ Becomes(RegisterCampDown(At(n), PrimePressure, PRIME_WS))
  /\ UNCHANGED <<today, scene, cores, lost>>

\* An enemy OUTER, MID or INHIB; own ones are not registered.  Which towers
\* still stand is not tracked: minions and presence, without limit, reach the
\* same pressures.
StructureDown ==
  /\ Playing
  /\ \E lane \in Lanes, amount \in StructurePressure, n \in Room :
       Becomes(AddPressure(At(n), lane, amount))
  /\ UNCHANGED <<today, scene, cores, lost>>

\* _tick_objectives near the enemy nexus or forward of z = -10.
Advance ==
  /\ Playing
  /\ \E lane \in Lanes, amount \in PresencePressure, n \in Room :
       Becomes(AddPressure(At(n), lane, amount))
  /\ UNCHANGED <<today, scene, cores, lost>>

\* Mutated: the decay does not stop at zero.
HoldHomeBelowZero ==
  /\ Playing
  /\ clash' = [clash EXCEPT !.pressure = [l \in Lanes |-> @[l] - HoldDecay]]
  /\ UNCHANGED <<today, scene, cores, session, file, war, local, paid, settled, behind, lost>>

\* _tick_objectives at the home nexus: every lane decays, claims stay.
HoldHome ==
  /\ Playing
  /\ clash' = [clash EXCEPT !.pressure = [l \in Lanes |->
                 IF @[l] >= HoldDecay THEN @[l] - HoldDecay ELSE 0]]
  /\ UNCHANGED <<today, scene, cores, session, file, war, local, paid, settled, behind, lost>>

\* TestArena._on_beacon_claimed calls _add_pressure itself, ended or not.
BeaconClaimed ==
  /\ scene = "arena"
  /\ \E lane \in Lanes, n \in Room : Becomes(AddPressure(At(n), lane, BeaconPressure))
  /\ UNCHANGED <<today, scene, cores, lost>>

\* The CORE turret dies: ClashLanes tells the clash, then the local match.
CoreDies(fac) ==
  /\ scene = "arena"
  /\ cores[fac]
  /\ cores' = [cores EXCEPT ![fac] = FALSE]
  /\ \E n \in Room :
       LET w == RegisterCoreDown(At(n), fac)
       IN  Becomes(IF w.local.over THEN w ELSE SyncFromClash(w))
  /\ UNCHANGED <<today, scene, lost>>

LeaveArena ==
  /\ scene = "arena"
  /\ scene' = "space"
  /\ war' = FreshTracker /\ clash' = FreshMatch /\ local' = FreshLocal
  /\ settled' = 0
  /\ UNCHANGED <<today, cores, session, file, paid, behind, lost>>

-----------------------------------------------------------------------------
(* The isolated local match (start_isolated .. shutdown).                  *)

StartIsolated ==
  /\ scene = "space"
  /\ scene' = "probe"
  /\ cores' = [f \in Factions |-> TRUE]
  /\ UNCHANGED <<today, session, file, war, clash, local, paid, settled,
                 behind, lost>>

IsolatedCoreDies(fac) ==
  /\ scene = "probe"
  /\ cores[fac]
  /\ cores' = [cores EXCEPT ![fac] = FALSE]
  /\ \E n \in Room :
       Becomes(IF local.over THEN At(n) ELSE ResolveLocal(At(n), fac))
  /\ UNCHANGED <<today, scene, lost>>

ShutdownIsolated ==
  /\ scene = "probe"
  /\ scene' = "space"
  /\ local' = FreshLocal
  /\ settled' = 0
  /\ UNCHANGED <<today, cores, session, file, war, clash, paid, behind, lost>>

-----------------------------------------------------------------------------
(* Time, persistence, and the process.                                     *)

Midnight ==
  /\ today < MaxDay
  /\ today' = today + 1
  /\ paid' = 0
  /\ UNCHANGED <<scene, cores, session, file, war, clash, local, settled, behind, lost>>

\* Any other remember_* call.
SaveElsewhere ==
  /\ \E n \in Room : Becomes(Save(At(n)))
  /\ UNCHANGED <<today, scene, cores, lost>>

\* load_session: without a readable file the defaults stay, unrolled.
Loaded(f) == IF f = NoFile THEN FreshSession ELSE Rolled(f)

\* The process starts again and reads f.
StartAgain(f) ==
  /\ scene' = "space"
  /\ session' = Loaded(f)
  /\ behind' = FALSE
  /\ war' = FreshTracker /\ clash' = FreshMatch /\ local' = FreshLocal
  /\ settled' = 0
  /\ UNCHANGED <<today, cores, paid>>

LoseRecord == lost < MaxLost /\ lost' = lost + 1

\* The process ends between two saves, by quitting or crashing: what it did
\* not manage to save is gone.
Restart ==
  /\ IF behind THEN LoseRecord ELSE UNCHANGED lost
  /\ StartAgain(file) /\ UNCHANGED file

\* FileAccess.WRITE has truncated the file and store_string has not run, or
\* failed: nothing but a restart reads the file.
CrashWhileSaving == LoseRecord /\ StartAgain(NoFile) /\ file' = NoFile

\* The file is there and does not open for load_session.
RestartUnread == LoseRecord /\ StartAgain(NoFile) /\ UNCHANGED file

ClashNext ==
  \/ EnterArena \/ LeaveArena
  \/ Kill \/ MinionDown \/ CampDown \/ StructureDown \/ Advance \/ HoldHome
  \/ BeaconClaimed
  \/ \E fac \in Factions : CoreDies(fac)
  \/ StartIsolated \/ ShutdownIsolated
  \/ \E fac \in Factions : IsolatedCoreDies(fac)
  \/ Midnight \/ SaveElsewhere \/ Restart \/ CrashWhileSaving
  \/ RestartUnread

ClashSpec == ClashInit /\ [][ClashNext]_clashVars

-----------------------------------------------------------------------------
(* Correctness.                                                            *)

\* SoftSession.grant_war_score, "Daily cap 60": over all matches, probes and
\* restarts of one calendar day the player is paid at most DAILY_CAP, and once
\* more at most for each time that the day's record was lost: in a save that was
\* cut off, in a load that failed, or in a restart after a save that failed
\* and before one that succeeded.
DailyCap == paid <= DAILY_CAP * (lost + 1)

\* What SoftSession counts as earned today.
EarnedToday == IF session.day = today THEN session.daily ELSE 0

\* The ledger implements the allowance: a restart, a scene change or a save
\* neither returns nor repeats what was earned; only midnight does, or the loss
\* of the record.
Allowance == INSTANCE DailyAllowance WITH
               CAP <- DAILY_CAP, day <- today, earned <- EarnedToday, lost <- lost
KeepsAllowance == Allowance!Spec

\* The HUD total (WarScoreTracker) and the session of record never disagree
\* about the same day while an arena is open, over midnight too.
LedgersAgree ==
  scene = "arena" /\ war.day = session.day => war.daily = session.daily

\* A match pays its result once, whichever of kills, lanes, camps, beacons and
\* the two CORE callbacks end it and however many do; every view of it then
\* shows the same result and the same title, and a dead CORE means it ended.
MatchSettledOnce ==
  /\ scene = "arena" =>
       /\ settled = IF clash.ended THEN 1 ELSE 0
       /\ clash.ended => /\ session.result = clash.result
                         /\ session.cosmetic = clash.cosmetic
                         /\ local.title = clash.cosmetic
       /\ local.over => clash.ended /\ local.result = clash.result
       /\ (\E f \in Factions : ~cores[f]) => clash.ended /\ local.over
  /\ scene = "probe" =>
       /\ settled = IF local.over THEN 1 ELSE 0
       /\ local.over => /\ session.result = local.result
                        /\ session.cosmetic = local.title
=============================================================================
