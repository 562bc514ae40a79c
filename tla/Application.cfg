\* Application::run on up to three sources.
CONSTANTS
  a = a  b = b  dox = dox
  all = all  part = part
  here = here  api = api
  pa = pa  pb = pb
  i1 = i1  i2 = i2  i3 = i3
  url = url
  NoFile = NoFile
  NoPage = NoPage
  NoUrl = NoUrl
  File <- MCFile
  Xml <- MCXml
  Folder <- MCFolder
  Output <- MCOutput
  Pattern <- MCPattern
  BaseUrl <- MCBaseUrl
  Id <- MCId
  PatternsIn <- MCPatternsIn
  Listing <- MCListing
  Ids <- MCIds
  Configurations <- MCConfigurations

SPECIFICATION FairSpec

INVARIANTS
  TypeOK
  ErrorsAreScoped
  FailuresAreIsolated
  PagesAreAccountedFor
  PagesSeeEarlierSources
  CatalogueLeadsToPages

PROPERTIES
  Publishes
  Termination
