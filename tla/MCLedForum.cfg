CONSTANTS
  p1 = p1
  v1 = v1
  v2 = v2
  v3 = v3
  Proposals = {p1}
  Voters = {v1, v2, v3}
  MaxLifetime = 2
  LastTick = 5
SPECIFICATION ForumSpec
INVARIANTS ForumTypeOK TallyIsOfVotes
PROPERTY ResultStands
