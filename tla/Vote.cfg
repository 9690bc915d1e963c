CONSTANTS
  a = a
  b = b
  Clients <- MCClients
  Addresses = {a, b}
  NoPlayer = NoPlayer
  Ages = {"young", "grown", "veteran"}
  Commands = {"option", "kick", "ban", "spectate"}
  Majorities = {TRUE, FALSE}
  YesPercentage = 50
  VoteTime = 1
  MaxVotes = 2
  MaxChanges = 3
SPECIFICATION MCLiveSpec
INVARIANTS TypeOK LastCountStands
PROPERTIES KickHitsNamed PassesByMajority VoteEnds
