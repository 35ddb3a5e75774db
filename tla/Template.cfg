\* A request, the ticker, New, Close, and an editor.
SPECIFICATION LiveSpec
CONSTANTS
  Requests = {r1}
  Opener = Opener
  Ticker = Ticker
  Nobody = Nobody
  MaxVersion = 2
  MaxWrites = 2
INVARIANTS TypeOK FreshDefinition
PROPERTIES TableMovesOn Reloaded StopsRefreshing
