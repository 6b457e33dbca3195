SPECIFICATION Spec
CONSTANTS
  Half = 4
  Names <- MCNames
  Values <- MCValues
  MaxIds = 3
  Clients <- MCClients
  Server = "server"
  Writers <- MCWriters
  Writes <- MCWrites
  Clearers = {"server"}
  Connected = {"robot"}
  MaxOps = 2
  MaxFaults = 1
INVARIANTS TypeOK IdsSound Converged ListenersSeeTable
CHECK_DEADLOCK FALSE
