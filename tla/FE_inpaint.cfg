SPECIFICATION Spec
CONSTANTS
  Clients = {"img"}
  CliProc = {p1, p2}
  CliSessions <- MCCliSessions
  p1 = p1
  p2 = p2
  NoKey = NoKey
  CliKeys <- MCCliKeys
  CliBaseBytes = 9
  CliTransient = 1
  CliPatience = 1
  CliOutputs = 2
  CliNames = 4
  HomeVisits <- MCHomeVisits
  HomeSounds = {8, 9}
  HomeGallery = {20}
  HomeEdits = 5
  HomeCards = 1
  HomePolls = 1
  ToolVisits <- MCToolVisits
  ToolEdits = 3
  ToolRuns = 2
  ToolPolls = 2
  ImgVisits <- MCImgVisits
  ImgEdits = 4
  ImgRefs = 3
  StudioVisits <- MCStudioVisits
  StudioHistory = 2
  GenVisits <- MCGenVisits
  GenRefreshes = 1
  CapVisits <- MCCapVisits
  CapTargets = {1, 5, 8, 11}
  CapWords = 4
  CapFiles = 2
PROPERTY EditInsideMask
CHECK_DEADLOCK FALSE
