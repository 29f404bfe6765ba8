CONSTANTS
  Text = {}
  SchemaNamed <- MCSchemaNamed
  LookupName <- MCLookup
  IdentifierOf <- MCIdentifierOf
  HeaderNames = {"Accept"}
  RawConfigs <- MCRawConfigs
  Document <- MCDocument
  ApiRequests <- MCApiRequests
  NumeralsFrom = 20
  IntMax = 5
  LongMax = 9
  Seed <- MCSeed
  FieldOrder <- MCFieldOrder
  ServerCaps = {1, 2}
  CursorEndings = {"absent", "null"}
  ServerBodyAt <- MCServerBodyAt
  SourceRows <- MCSourceRows
  SourceRow <- MCSourceRow
  SampleValue <- MCSampleValue
  MaxApiCalls = 2
  MaxTroubles = 1
SPECIFICATION ApiSpec
CHECK_DEADLOCK FALSE
INVARIANT GeneratedUnprojected
