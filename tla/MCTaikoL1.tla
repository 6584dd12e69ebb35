----------------------------- MODULE MCTaikoL1 -----------------------------
(* Instances of TaikoL1 for TLC. *)
EXTENDS TaikoL1, TLC

CONSTANTS u1, u2

UserSymmetry == Permutations({u1, u2})

Tier(validity, contest, cooldown, proving, guardian) ==
  [validityBond |-> validity, contestBond |-> contest, cooldownWindow |-> cooldown,
   provingWindow |-> proving, guardian |-> guardian]

\* Two bonded tiers below the guardians.
BondedTiers == <<Tier(4, 8, 1, 1, FALSE), Tier(8, 16, 1, 1, FALSE), Tier(0, 0, 1, 1, TRUE)>>
\* The deployed tiers: BOND_UNIT is 0, so every tier is a top tier.
FreeTiers == <<Tier(0, 0, 1, 1, FALSE), Tier(0, 0, 1, 1, TRUE)>>
\* One tier, verified as soon as it is proven (optimistic: no cooldown).
OneTier == <<Tier(0, 0, 0, 1, FALSE)>>

=============================================================================
