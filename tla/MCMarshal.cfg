SPECIFICATION Spec
CONSTANTS
  Types <- MCTypes
  Schema <- MCSchema
  Roots <- MCRoots
  Lengths <- MCLengths
  Offered <- MCOffered
  Slack <- MCSlack
  StructureSize <- MCStructureSize
  ArrayElements <- MCArrayElements
INVARIANTS
  TypeOK
  ReadsStayInside
  OneEncoding
  RoomTells
  WritesStayInRoom
  DestinationHolds
