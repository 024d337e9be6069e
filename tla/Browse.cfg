SPECIFICATION BrowseSpec
CONSTANTS
  alice = alice
  bob = bob
  quake = quake
  doom = doom
  shooters = shooters
  others = others
  Null = Null
  Clip = {1, 2, 3, 4, 5}
  User = {alice, bob}
  OwnerOf <- MCOwnerOf
  Game = {quake, doom}
  Category = {shooters, others}
  Character <- MCCharacter
  NameOf <- MCNameOf
  AsciiLower <- MCAsciiLower
  UnicodeLower <- MCUnicodeLower
  MaxPage = 6
  MaxInt = 8
  ProfileLimit = 2
  Databases = {"sqlite", "postgres"}
  Libraries <- MCLibraries
  Asks <- MCAsks
  Titles <- MCTitles
INVARIANTS
  WalkIsComplete
  OnlyShiftsDisturb
  CountsMatchLists
CHECK_DEADLOCK FALSE
