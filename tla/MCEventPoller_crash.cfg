\* Crashes and failed saves; deadlock is off because the canister may have
\* nothing more to publish.
CONSTANTS
  Event = {e1, e2}
  BatchLimit = 2
  LoadMayFail = FALSE
  SaveMayFail = TRUE
  MaxEvents = 4
  MaxCrashes = 2
SPECIFICATION FairSpec
INVARIANTS TypeOK NoEventSkipped
PROPERTIES OffsetNeverRegresses DeliverySpec EveryEventHandled
CHECK_DEADLOCK FALSE
