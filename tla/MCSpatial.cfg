SPECIFICATION FairSpec
CONSTANTS
  MaxDisturbances = 2
  MaxUploads = 2
  MaxLines = 2
PROPERTIES
  StreamReturns
  MatchFollowsLoad
  UploadTakesEffect
CHECK_DEADLOCK FALSE
