\* One instance of each component, one component per behaviour.
SPECIFICATION FairSpec
CONSTANT Nothing = Nothing
INVARIANTS TurnsHold RestoresHold ImagesAreWhole CatalogsHold AccessIsAccountedFor
           WalksAreComplete ProcessesKeepApart
PROPERTIES SnapshotsAreTrue CallersReturn HandlerReturns StartTidies AuthorityIsCurrent ServersStop
CHECK_DEADLOCK FALSE
