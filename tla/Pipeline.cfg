CONSTANTS
  NoItem = NoItem
  App = App
  Producers = {h1, h2}
  Capacity = 2
  MaxCalls = 2
SPECIFICATION FairSpec
INVARIANT ShowsWhatLeft
PROPERTY AcceptedShown
