SPECIFICATION FairSpec
CONSTANTS
  places = places
  people = people
  place = place
  person = person
  Models = {places, people}
  Classes = {place, person}
  ClassOf <- MCClassOf
  Records = {1, 2}
  Stored <- MCStored
  New = New
  List = List
  NoModel = NoModel
  Blank = Blank
  MaxActs = 3
  MaxRequests = 2
CHECK_DEADLOCK FALSE
INVARIANT TypeOK
INVARIANT TextStaysWithItsRecord
PROPERTY TypedTextIsKept
PROPERTY SaveComesBack
