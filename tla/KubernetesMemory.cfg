CONSTANTS
  Text = {}
  Words <- MCWords
  Resources <- MCResources
  SchemaOf <- MCSchemaOf
  RawConfigs <- MCRawConfigs
  KubeRequests <- MCKubeRequests
  OtherKeys <- MCOtherKeys
  OtherDocs <- MCOtherDocs
  DefaultNamespace = "d"
  Versions = {1, 2}
  KubeSeed <- MCKubeSeed
  MaxSteps = 2
  MaxOther = 1
  MaxFaults = 1
  c1 = c1
  Off = Off
SPECIFICATION BothSpec
INVARIANT TablesExact
INVARIANT EofComplete
INVARIANT AnswersExact
PROPERTY MutationsExact
CHECK_DEADLOCK FALSE
