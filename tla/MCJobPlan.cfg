SPECIFICATION Spec
CONSTANTS
j1 = j1
j2 = j2
NoTask = NoTask
NoDefinition = NoDefinition
Workers = {1, 2, 3}
Jobs = {j1, j2}
SlotsOf <- MCSlotsOf
Offers <- MCOffers
Keys = {0, 1, 2}
INVARIANTS SlotsMatchAssignments TargetsDeployedFirst OneOwnerPerKey RoutesHaveChannels
PROPERTIES KeepsPlacementPromise AnsweredSoundly
