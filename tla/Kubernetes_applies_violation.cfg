CONSTANTS
  Text = {}
  Words <- MCWords
  Resources <- MCResources
  SchemaOf <- MCSchemaOf
  RawConfigs <- MCRawConfigs
  KubeRequests <- MCUpdates
  OtherKeys <- MCOtherKeys
  OtherDocs <- MCOtherDocs
  DefaultNamespace = "d"
  Versions = {1, 2}
  KubeSeed <- MCKubeSeed
  MaxSteps = 2
  MaxOther = 1
  MaxFaults = 1
SPECIFICATION KubeSpec
CHECK_DEADLOCK FALSE
PROPERTY UpdateApplies
