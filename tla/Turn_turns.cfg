SPECIFICATION FairSpec
CONSTANTS
  Mons = {m1, m2}
  Hero = hero
  Forms = {9, 18}
  Offsets = {4}
  Amounts = {0, 16}
  MaxWeb = 1
  MaxEffects = 1
INVARIANTS TypeOK FairShare
PROPERTY HeroGetsTurn
