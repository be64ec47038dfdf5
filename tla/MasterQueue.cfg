SPECIFICATION QueueSpec
CONSTANTS
  k1 = k1
  k2 = k2
  MasterCount = 3
  Promoters <- TwoPromoters
  Keepers <- TwoKeepers
  MaxCommands = 3
SYMMETRY Interchanged
PROPERTIES OneActive UnparkIsOlder
