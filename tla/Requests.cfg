SPECIFICATION Spec
CONSTANTS
  Wildcard = "*"
  Names = {"c", "d"}
  Urls <- TheUrls
  Asked <- TheAsked
  APIBindings = "apibindings"
  WithStatus = {"widgets"}
  NoResource = ""
  InitialCaches <- TheCaches
  SliceValues <- TheSlices
  ExportValues <- TheExports
  BindingValues <- TheBindings
  NoObject = NoObject
  MaxChanges = 3
INVARIANTS
  TypeOK
  UseIsGranted
  PoliciesHeard
  WrittenIsVisible
  AdmittedIsValid
