SPECIFICATION FairSpec
CONSTANTS
  RouteNames = {"r1"}
  RouteNS <- MCRouteNS
  Manifest <- MCManifest
  Gateway <- MCGateway
  Others <- MCOthers
  Listeners = {"web"}
  Grants <- MCGrants
  Services <- MCServices
  Requests <- MCRequests
  Length <- MCLength
  MaxEvents = 2
INVARIANTS
  TypeOK
  FailClosed
  EgressCovers
  EgressIsPermitted
  
PROPERTIES
  ForeignEntriesKept
  DataPlaneFollows
CHECK_DEADLOCK FALSE
