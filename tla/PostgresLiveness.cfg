CONSTANTS
  Calls = {c1, c2, c3}
  Ids = {a}
  MaxEvents = 1
  NoSnapshot = NoSnapshot
  Uses = {"pool"}
  Client = Client
SPECIFICATION FairSpec
PROPERTIES
  EveryCallAnswered
