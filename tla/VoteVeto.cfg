CONSTANTS
  a = a
  b = b
  Clients <- MCClients
  Addresses = {a, b}
  NoPlayer = NoPlayer
  Ages = {"grown", "veteran"}
  Commands = {"option"}
  Majorities = {FALSE}
  YesPercentage = 50
  VoteTime = 1
  MaxVotes = 2
  MaxChanges = 3
SPECIFICATION Spec
PROPERTIES VetoRespected
