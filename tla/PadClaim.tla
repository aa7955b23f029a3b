------------------------------ MODULE PadClaim ------------------------------
(***************************************************************************)
(* The ownership of one pad base (PadBaseController with its               *)
(* OwnershipData): players who stand in the ring, C pulses, hacks, the     *)
(* operations console, the seed claim of _ready, a contest guard that may  *)
(* be shot or hacked, and the per-frame tick that occupies, decays,        *)
(* respawns the guard, harvests and recharges.  They interleave freely;    *)
(* the pad keeps _status beside current_faction, and the tick acts on      *)
(* either.                                                                 *)
(*                                                                         *)
(* A handler is a chain of calls on the same fields, so a call is an       *)
(* operator from the pad record p to the record after the call.  A tick    *)
(* is one _process; amounts and times count in ticks.                      *)
(***************************************************************************)
EXTENDS Integers

CONSTANTS
  CLAIM_NEED, SOFT_NEED,          \* meter that locks a contest, a neutral pad
  OCCUPY_RATE, GUARD_RATE, DECAY_RATE,   \* per tick
  PULSE_STR, SEED_STR, CONSOLE_STR, ADVANCE_STR,
  HackAmounts,                    \* HACK_STR and 4 % of (half) the damage
  OPEN_MIN, DO_A_MIN,             \* least meter of a contest that opens
  SPENT,                          \* a meter of at most this much is empty
  OCCUPY_DELAY, PULSE_CD, RESPAWN, TRANSITION,   \* ticks
  INFLUENCE_MAX, INFLUENCE_DECAY, InfluenceAmounts,  \* percent
  MAX_RESERVES, EXTRACT, REGEN,   \* of the crystal, per tick
  default_faction,
  ST_F_OWNERSHIP, DO_A_OWNERSHIP  \* P0Slice: the owner may be handed over

Cybernex == "Cybernex"
gROT == "gROT"
NEUTRAL == "Neutral"
CONTESTED == "Contested"
NoSide == ""
Sides == {Cybernex, gROT}
Other(s) == IF s = Cybernex THEN gROT ELSE Cybernex

ClaimAmounts ==
  HackAmounts \cup {PULSE_STR, SEED_STR, CONSOLE_STR, ADVANCE_STR,
                   OCCUPY_RATE, GUARD_RATE}

(* An amount raised by the influence of the arena, in percent.             *)
Boosted(amount, influence) == amount + (amount * influence) \div 100

(* No single claim fills the meter of a contest, nor does the guard in     *)
(* one tick.                                                               *)
ASSUME PadAssumption ==
  /\ ClaimAmounts \subseteq Nat \ {0}
  /\ InfluenceAmounts \subseteq Nat \ {0}
  /\ {CLAIM_NEED, SOFT_NEED, DECAY_RATE, OPEN_MIN, DO_A_MIN, OCCUPY_DELAY,
      PULSE_CD, RESPAWN, TRANSITION, MAX_RESERVES, EXTRACT, REGEN}
        \subseteq Nat \ {0}
  /\ {SPENT, INFLUENCE_MAX, INFLUENCE_DECAY} \subseteq Nat
  /\ \A a \in ClaimAmounts \cup {OPEN_MIN, DO_A_MIN} : a < CLAIM_NEED
  /\ \A i \in 0..INFLUENCE_MAX : Boosted(GUARD_RATE, i) < CLAIM_NEED
  /\ default_faction \in Sides
  /\ ST_F_OWNERSHIP \in BOOLEAN
  /\ DO_A_OWNERSHIP \in BOOLEAN

VARIABLES
  pad,        \* the fields of the controller, its OwnershipData and its guard
  occupant,   \* side of the actor nearest to the pad in its ring, or NoSide
  ship        \* side of a landed ship in the ring, or NoSide

padVars == <<pad, occupant, ship>>

Smaller(a, b) == IF a <= b THEN a ELSE b
Larger(a, b) == IF a >= b THEN a ELSE b

PadStates ==
  [current   : Sides \cup {NEUTRAL, CONTESTED},
   previous  : Sides \cup {NEUTRAL, CONTESTED},
   progress  : 0..TRANSITION,
   strength  : Nat,
   side      : Sides \cup {NoSide},                  \* _contest_side
   status    : {"unclaimed", "claiming", "contested", "owned",
                "extracting", "depleted"},           \* _status
   guard     : Sides \cup {NoSide},                  \* the faction it fights for
   guard_up  : BOOLEAN,
   respawn   : 0..RESPAWN,                           \* _guard_respawn_t
   occupy_in : 0..OCCUPY_DELAY,                      \* _occupy_in_t
   claim_cd  : 0..PULSE_CD,
   influence : 0..INFLUENCE_MAX,                     \* _arena_influence
   reserves  : 0..MAX_RESERVES,
   seeded    : BOOLEAN,                              \* _ready is through
   paid      : Sides \cup {NoSide}]    \* whom the last tick's harvest was paid

FullyOwned(p) == p.current \in Sides /\ p.progress = TRANSITION

PadInit ==
  /\ pad = [current |-> NEUTRAL, previous |-> NEUTRAL, progress |-> TRANSITION,
            strength |-> 0, side |-> NoSide, status |-> "unclaimed",
            guard |-> NoSide, guard_up |-> FALSE, respawn |-> 0,
            occupy_in |-> 0, claim_cd |-> 0, influence |-> 0,
            reserves |-> MAX_RESERVES, seeded |-> FALSE, paid |-> NoSide]
  /\ occupant = NoSide
  /\ ship = NoSide

(***************************************************************************)
(* OwnershipData.                                                          *)
(***************************************************************************)
StartTransition(p, f) ==
  IF f = p.current THEN p
  ELSE [p EXCEPT !.previous = p.current, !.current = f, !.progress = 0]

AdvanceTransition(p) ==
  [p EXCEPT !.progress = Smaller(TRANSITION, @ + 1)]

(***************************************************************************)
(* The guard.                                                              *)
(***************************************************************************)
GuardAlive(p) == p.guard # NoSide /\ p.guard_up

ClearGuard(p) == [p EXCEPT !.guard = NoSide, !.guard_up = FALSE]

DefenderSide(p) ==
  IF FullyOwned(p) THEN p.current
  ELSE IF p.previous \in Sides THEN p.previous ELSE default_faction

EnsureGuard(p) ==
  IF GuardAlive(p) \/ p.respawn > 0 THEN p
  ELSE [p EXCEPT !.guard = DefenderSide(p), !.guard_up = TRUE]

TickGuardRespawn(p) ==
  IF p.status # "contested" THEN [p EXCEPT !.respawn = 0]
  ELSE IF GuardAlive(p) \/ p.respawn = 0 THEN p
  ELSE IF p.respawn > 1 THEN [p EXCEPT !.respawn = @ - 1]
  ELSE EnsureGuard(ClearGuard([p EXCEPT !.respawn = 0]))

(***************************************************************************)
(* The claim meter.                                                        *)
(***************************************************************************)
(* Mutated: the overshoot of the losing side keeps its sign. *)
MeterTowardSigned(p, f, amount) ==
  IF p.side \in {NoSide, f}
  THEN [p EXCEPT !.side = f, !.strength = @ + amount]
  ELSE IF p.strength > amount
  THEN [p EXCEPT !.strength = @ - amount]
  ELSE [p EXCEPT !.side = f, !.strength = @ - amount]

MeterToward(p, f, amount) ==
  IF p.side \in {NoSide, f}
  THEN [p EXCEPT !.side = f, !.strength = @ + amount]
  ELSE IF p.strength > amount
  THEN [p EXCEPT !.strength = @ - amount]
  ELSE [p EXCEPT !.side = f, !.strength = amount - @]

(* Mutated: the guard is left on the pad. *)
LockToKeepsGuard(p, f) ==
  [StartTransition(p, f) EXCEPT !.strength = 0, !.side = NoSide,
                                !.status = "claiming"]

(* Mutated: the new owner holds the pad at once. *)
LockToAtOnce(p, f) ==
  ClearGuard([StartTransition(p, f) EXCEPT !.strength = 0, !.side = NoSide,
                                           !.progress = TRANSITION,
                                           !.status = "owned"])

LockTo(p, f) ==
  ClearGuard([StartTransition(p, f) EXCEPT !.strength = 0, !.side = NoSide,
                                           !.status = "claiming"])

(* Mutated: _status is left to the branch that meters the contest. *)
OpenContestSilently(p, f, amount) ==
  EnsureGuard([p EXCEPT !.previous = p.current, !.current = CONTESTED,
                        !.progress = TRANSITION, !.side = f,
                        !.strength = Larger(amount, OPEN_MIN)])

OpenContest(p, f, amount) ==
  EnsureGuard([p EXCEPT !.previous = p.current, !.current = CONTESTED,
                        !.progress = TRANSITION, !.side = f,
                        !.strength = Larger(amount, OPEN_MIN),
                        !.status = "contested"])

(* Mutated: a claim on a pad that the other side holds takes it at once.   *)
NudgeClaimTakes(p, f, amount) ==
  LET m == MeterToward(p, f, Boosted(amount, p.influence))
  IN IF p.current = NEUTRAL
     THEN IF m.strength >= SOFT_NEED THEN LockTo(m, f) ELSE m
     ELSE IF p.current = CONTESTED
     THEN IF m.strength >= CLAIM_NEED THEN LockTo(m, f)
          ELSE [m EXCEPT !.status = "contested"]
     ELSE IF p.current # f THEN LockTo(p, f)
     ELSE p

NudgeClaim(p, f, amount) ==
  LET m == MeterToward(p, f, Boosted(amount, p.influence))
  IN IF p.current = NEUTRAL
     THEN IF m.strength >= SOFT_NEED THEN LockTo(m, f) ELSE m
     ELSE IF p.current = CONTESTED
     THEN IF m.strength >= CLAIM_NEED THEN LockTo(m, f)
          ELSE [m EXCEPT !.status = "contested"]
     ELSE IF p.current # f THEN OpenContest(p, f, amount)
     ELSE p

DecayContest(p) ==
  LET d == [p EXCEPT !.strength = Larger(0, @ - DECAY_RATE)]
      over == ClearGuard([d EXCEPT !.side = NoSide, !.strength = 0])
  IN IF p.current # CONTESTED THEN p
     ELSE IF d.strength > SPENT THEN d
     ELSE IF p.previous \in Sides
     THEN [over EXCEPT !.current = p.previous, !.progress = TRANSITION,
                       !.status = "owned"]
     ELSE [over EXCEPT !.current = NEUTRAL, !.status = "unclaimed"]

(***************************************************************************)
(* The parts of _process.                                                  *)
(***************************************************************************)
(* Mutated: a contest under way counts as a transition as well. *)
TickTransitionAny(p) ==
  IF p.progress = TRANSITION THEN p
  ELSE IF p.progress + 1 < TRANSITION THEN AdvanceTransition(p)
  ELSE [AdvanceTransition(p) EXCEPT !.status = "owned"]

TickTransition(p) ==
  IF p.progress = TRANSITION \/ p.current = CONTESTED THEN p
  ELSE IF p.progress + 1 < TRANSITION THEN AdvanceTransition(p)
  ELSE [AdvanceTransition(p) EXCEPT !.status = "owned"]

OccupantNudges(p) ==
  LET q == [p EXCEPT !.occupy_in = Smaller(OCCUPY_DELAY, @ + 1)]
      same_hold == FullyOwned(p) /\ p.current = occupant
  IN IF q.occupy_in < OCCUPY_DELAY \/ same_hold THEN q
     ELSE NudgeClaim(q, occupant, OCCUPY_RATE)

TickOccupied(p) ==
  LET hostile == FullyOwned(p) /\ p.current # occupant
      n == OccupantNudges(p)
      g == IF hostile \/ n.status = "contested" THEN EnsureGuard(n) ELSE n
  IN IF GuardAlive(g) THEN NudgeClaim(g, g.guard, GUARD_RATE) ELSE g

TickLeft(p) ==
  LET q == [p EXCEPT !.occupy_in = 0]
  IN IF q.status = "contested" THEN DecayContest(q) ELSE q

TickOccupy(p) ==
  LET q == IF occupant # NoSide THEN TickOccupied(p) ELSE TickLeft(p)
  IN IF FullyOwned(q) /\ q.status # "contested" THEN ClearGuard(q) ELSE q

TickArenaInfluence(p) ==
  [p EXCEPT !.influence = Larger(0, @ - INFLUENCE_DECAY)]

OwnerInZone(p) == FullyOwned(p) /\ p.current \in {occupant, ship}

TickHarvest(p) ==
  IF p.reserves = 0 THEN [p EXCEPT !.status = "depleted"]
  ELSE [p EXCEPT !.reserves = @ - Smaller(@, EXTRACT),
                 !.status = "extracting", !.paid = p.current]

TickReserveRegen(p) ==
  LET r == Smaller(MAX_RESERVES, p.reserves + REGEN)
  IN IF p.reserves = MAX_RESERVES THEN p
     ELSE IF p.status = "depleted" /\ 100 * r > 8 * MAX_RESERVES
     THEN [p EXCEPT !.reserves = r,
                    !.status = IF FullyOwned(p) THEN "owned" ELSE "unclaimed"]
     ELSE [p EXCEPT !.reserves = r]

TickWorks(p) ==
  IF FullyOwned(p) /\ p.status # "contested" /\ OwnerInZone(p)
  THEN TickHarvest(p)
  ELSE TickReserveRegen([p EXCEPT !.status =
                           IF @ = "extracting" THEN "owned" ELSE @])

Process ==
  /\ \E p \in {TickTransition([pad EXCEPT !.paid = NoSide,
                                          !.claim_cd = Larger(0, @ - 1)])} :
     \E q \in {TickOccupy(p)} :
     \E r \in {TickArenaInfluence(TickGuardRespawn(q))} :
       pad' = TickWorks(r)
  /\ UNCHANGED <<occupant, ship>>

(***************************************************************************)
(* What players, abilities and other nodes do between two ticks.           *)
(***************************************************************************)
ClaimPulse(f) ==
  /\ pad.claim_cd = 0
  /\ pad' = [NudgeClaim(pad, f, PULSE_STR) EXCEPT !.claim_cd = PULSE_CD]
  /\ UNCHANGED <<occupant, ship>>

ConsoleClaim(f) ==
  /\ pad' = NudgeClaim(pad, f, CONSOLE_STR)
  /\ UNCHANGED <<occupant, ship>>

OnHacked(f, amount) ==
  /\ pad' = NudgeClaim(pad, f, amount)
  /\ UNCHANGED <<occupant, ship>>

SeedClaim ==
  /\ ~pad.seeded
  /\ pad' = [IF pad.current = NEUTRAL
             THEN NudgeClaim(pad, default_faction, SEED_STR) ELSE pad
             EXCEPT !.seeded = TRUE]
  /\ UNCHANGED <<occupant, ship>>

GuardDown(p) == [p EXCEPT !.guard_up = FALSE, !.respawn = RESPAWN]

GuardDies ==
  /\ GuardAlive(pad)
  /\ pad' = GuardDown(pad)
  /\ UNCHANGED <<occupant, ship>>

(* A hack hurts the guard, turns it to the side of the hacker whether it   *)
(* stands or not, and reaches the pad at half its strength.                *)
GuardHacked(f, amount) ==
  /\ pad.guard \notin {NoSide, f}
  /\ \E hurt \in {pad} \cup IF pad.guard_up THEN {GuardDown(pad)} ELSE {} :
       pad' = NudgeClaim([hurt EXCEPT !.guard = f], f, amount)
  /\ UNCHANGED <<occupant, ship>>

ApplyArenaInfluence(amount) ==
  /\ pad' = [pad EXCEPT !.influence = Smaller(INFLUENCE_MAX, @ + amount)]
  /\ UNCHANGED <<occupant, ship>>

Flip(p, dest) ==
  [StartTransition(p, dest) EXCEPT !.progress = TRANSITION,
                                   !.status = "owned", !.side = NoSide]

FlipClusterOwner ==
  /\ ST_F_OWNERSHIP
  /\ FullyOwned(pad)
  /\ pad.status # "contested"
  /\ pad' = Flip(pad, Other(pad.current))
  /\ UNCHANGED <<occupant, ship>>

(* Somebody enters or leaves the ring, lands or takes off, or changes his  *)
(* faction.  A walker hides a landed ship; a ship alone is the occupant.   *)
Move ==
  /\ occupant' \in Sides \cup {NoSide}
  /\ ship' \in Sides \cup {NoSide}
  /\ ship' # NoSide => occupant' # NoSide
  /\ UNCHANGED pad

(***************************************************************************)
(* DO-A: the host starts, advances and resolves a contest.  lock_owned     *)
(* does not look at the flag itself; its callers do.                       *)
(***************************************************************************)
StartContested(p, dest) ==
  LET to == IF dest = p.current THEN Other(dest) ELSE dest
      held == IF FullyOwned(p) THEN p
              ELSE [LockTo(p, IF p.current \in Sides THEN p.current
                              ELSE Cybernex)
                    EXCEPT !.progress = TRANSITION, !.status = "owned"]
  IN IF p.current = CONTESTED
     THEN [p EXCEPT !.side = dest, !.status = "contested"]
     ELSE [StartTransition(held, CONTESTED)
           EXCEPT !.side = to,
                  !.strength = Larger(@, DO_A_MIN), !.status = "contested"]

StartContestedTransition(dest) ==
  /\ DO_A_OWNERSHIP
  /\ pad' = StartContested(pad, dest)
  /\ UNCHANGED <<occupant, ship>>

AdvanceContestedTransition ==
  /\ DO_A_OWNERSHIP
  /\ pad.current = CONTESTED
  /\ pad' = LET p == AdvanceTransition(pad)
            IN IF p.side = NoSide THEN p ELSE NudgeClaim(p, p.side, ADVANCE_STR)
  /\ UNCHANGED <<occupant, ship>>

LockOwned(f) ==
  /\ DO_A_OWNERSHIP
  /\ pad' = [LockTo(pad, f) EXCEPT !.progress = TRANSITION, !.status = "owned"]
  /\ UNCHANGED <<occupant, ship>>

OutsideClaim ==
  \/ \E f \in Sides : ClaimPulse(f) \/ ConsoleClaim(f)
  \/ \E f \in Sides, a \in HackAmounts : OnHacked(f, a) \/ GuardHacked(f, a)
  \/ SeedClaim

HostClaim ==
  \/ \E f \in Sides : StartContestedTransition(f) \/ LockOwned(f)
  \/ AdvanceContestedTransition

PadNext ==
  \/ Process
  \/ OutsideClaim
  \/ GuardDies
  \/ \E a \in InfluenceAmounts : ApplyArenaInfluence(a)
  \/ FlipClusterOwner
  \/ HostClaim
  \/ Move

(* Godot calls _process every frame.                                       *)
PadFairness == WF_padVars(Process)

PadSpec == PadInit /\ [][PadNext]_padVars /\ PadFairness
(***************************************************************************)
(* Properties.                                                             *)
(***************************************************************************)
(* Every field of the pad keeps its type; a landed ship is somebody in     *)
(* the ring (_nearest_in_zone falls back on it).                           *)
PadTypeOK ==
  /\ pad \in PadStates
  /\ occupant \in Sides \cup {NoSide}
  /\ ship \in Sides \cup {NoSide}
  /\ ship # NoSide => occupant # NoSide

(* _status says "contested" exactly while the OwnershipData does.  Decay   *)
(* and guard look at one, meter and harvest at the other: a pad where they *)
(* differ is frozen in its contest or harvests during it.                  *)
ContestIsTracked == (pad.current = CONTESTED) <=> (pad.status = "contested")

(* A meter that has reached its threshold has locked the pad, and a pad    *)
(* that a side holds has no meter left from an earlier contest, for the    *)
(* next pulse of either side would lock it otherwise.                      *)
MeterBelowNeed ==
  /\ pad.current = NEUTRAL => pad.strength < SOFT_NEED
  /\ pad.current = CONTESTED => pad.strength < CLAIM_NEED
  /\ pad.current \in Sides => pad.strength = 0 /\ pad.side = NoSide

(* A guard stands, or lies, on a contested pad only, and one that lies     *)
(* there has its respawn window running: no guard is left over from a      *)
(* contest that was locked, decayed or resolved by the host, and none      *)
(* stays down for ever.                                                    *)
GuardOfContest ==
  pad.guard # NoSide =>
    /\ pad.current = CONTESTED
    /\ ~pad.guard_up => pad.respawn > 0

(* An open contest is consistent: neither a meter nor a guard outlives it. *)
ContestSound == MeterBelowNeed /\ GuardOfContest

(* A harvest is paid to the side that had the pad before the tick and is   *)
(* in the ring: never to a side whose contest, lock or fallback is decided *)
(* in that same tick, and never while the pad is contested.                *)
HarvestPaysHolder ==
  [][Process /\ pad'.paid # NoSide
       => pad.current = pad'.paid /\ pad'.paid \in {occupant, ship}]_padVars

(* The pad implements PadHold: its owner is the side that holds it or,     *)
(* during a contest, the side that _open_contest remembered.  With both    *)
(* flags off no claim, pulse, hack, console, guard or tick takes a pad     *)
(* that has an owner otherwise than through a contest.                     *)
Hold == INSTANCE PadHold WITH
  NoOwner <- NEUTRAL,
  OwnerOps <- ST_F_OWNERSHIP \/ DO_A_OWNERSHIP,
  owner <- IF pad.current = CONTESTED THEN pad.previous ELSE pad.current,
  contested <- (pad.current = CONTESTED)

KeepsHold == Hold!Spec

(* A contest in whose ring nobody stands comes to an end, unless claims    *)
(* from elsewhere raise its meter again and again: the decay of an         *)
(* abandoned ring is never switched off.                                   *)
AbandonedContestEnds ==
  \/ []<>(pad.current # CONTESTED)
  \/ []<>(occupant # NoSide)
  \/ []<><<pad'.strength > pad.strength>>_padVars

(* A guard that was killed comes back, unless the contest ends first.      *)
GuardReturns ==
  (pad.guard # NoSide /\ ~pad.guard_up)
    ~> (GuardAlive(pad) \/ pad.current # CONTESTED)

(* A pad never stays caught: an abandoned contest ends and a killed guard  *)
(* returns.                                                                *)
PadSettles == AbandonedContestEnds /\ GuardReturns
=============================================================================
