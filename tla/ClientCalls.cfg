SPECIFICATION FairSpec
CONSTANTS
  http = http
  ws = ws
  reconnecting = reconnecting
  Calls = {c1, c2, c3}
  Transports <- AllTransports
  Kind <- KindOf
  Timed = {http}
  Route <- WsThenHttp
  MaxFactoryCalls = 2
  MaxCloses = 1
INVARIANTS FreshWhenAlone OneLiveSocket NobodyStranded TimingsAccounted
PROPERTIES CallsSettle
CHECK_DEADLOCK FALSE
