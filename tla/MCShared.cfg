\* Two finalists of whom one may go wrong, two visitors, four settlers and a child.
SPECIFICATION SharedSpec
CONSTANTS
  v1 = v1
  v2 = v2
  Finalist <- MCVisitor
  EndTick = 2
  WrongEnds = {3}
  LastTick = 3
  MaxLosses = 1
  Visitor <- MCVisitor
  Place <- MCPlace
  Ttl = 1
  MaxHubLosses = 2
  MaxWishes = 3
  wife1 = wife1
  wife2 = wife2
  child = child
  house1 = house1
  house2 = house2
  Woman <- MCWoman
  Man <- MCMan
  Unborn <- MCUnborn
  Home <- MCHome
  HomeSize <- MCHomeSize
  Settlements <- MCSettlements
  Scripted <- MCScripted
  Duration = 1
  MaxDeaths = 2
  NoOne = NoOne
SYMMETRY Symmetric
INVARIANTS
  EndIsHeard
  OneVoice
  KnowsItsRoom
  VowsAreMutual
  BornToThosePaying
PROPERTIES
  ResultShared
  DisagreementReal
  ExpiresOnlyEmpty
  HouseholdsStayTogether
  HomesFillOnlyWithRoom
\* a part whose bounds are reached comes to rest
CHECK_DEADLOCK FALSE
