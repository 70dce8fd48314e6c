\* One hook worker and the expiry worker; two stream handlers and a browser.
SPECIFICATION FairStreamSpec
CONSTANTS
  b1 = b1
  b2 = b2
  n1 = n1
  Publishers = {p1, x}
  Expirer = x
  Subscribers = {b1, b2}
  Browsers = {n1}
  NoOne = NoOne
  Gone = Gone
  Other = Other
  MaxRevision = 2
  LinkRoom = 1
  Loads <- MCLoads
INVARIANTS StreamTypeOK SendsAreSafe NothingUnannounced
PROPERTIES NeverShowsLess ChangesAreShown ImplementsLatestFeed
