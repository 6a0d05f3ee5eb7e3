\* Two books, two jobs, two requests, failures or crashes.
SPECIFICATION Spec
CONSTANTS
  Book <- MCBook
  Settings <- MCSettings
  FirstSettings = "on"
  Signals <- MCSignals
  ProfileOf <- MCProfileOf
  Paths = {"good", "large"}
  Files <- MCFiles
  Offers <- MCOffers
  MaxJobs = 2
  MaxEvents = 2
INVARIANT TypeOK
INVARIANT GrabbedIsTaken
PROPERTY InFlightNotRepeated
PROPERTY GrabsTheBest
PROPERTY HeldWhileWanted
