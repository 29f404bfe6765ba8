CONSTANTS
  lan = lan
  uplink = uplink
  s1 = s1
  s2 = s2
  s3 = s3
  Closer = Closer
  Attachment = {lan, uplink}
  Scope = {s1, s2, s3}
  Caller = {p1}
  AttachmentOf <- MCAttachmentOf
  i1 = i1
  r1 = r1
  standard = standard
  vendorProfile = vendorProfile
  modelProfile = modelProfile
  Instance = {i1}
  Route = {r1, r2}
  StaticConfigs <- MCStaticConfigs
  MaxVendor = 1
  MaxModel = 1
  Profile = {standard, vendorProfile, modelProfile}
  ProfileOf <- MCProfileOf
  TTL = 2
  MaxTime = 4
  Off = Off
SPECIFICATION BACnetSpec
INVARIANT UsedOpen
INVARIANT NothingLeft
INVARIANT RegistryExact
PROPERTY CloseReturns
PROPERTY RefreshesGoOn
PROPERTY DevicesKept
PROPERTY RequestsExact
CHECK_DEADLOCK FALSE
