CONSTANTS
  Runs = {r1, r2}
  Reviewers = 1
  MaxConsecutiveErrors = 2
  Cooldowns = {0, 2}
  MaxRunAge = 2
SPECIFICATION FairPipelineSpec
PROPERTIES OnlyEnableRevives CooldownEnds
