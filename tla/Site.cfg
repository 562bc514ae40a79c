\* Runs over a library and an application, page by page.
CONSTANTS
  lib = lib  app = app  part = part
  pa = pa
  NoFile = NoFile
  NoPage = NoPage
  NoUrl = NoUrl
  File <- MCFile
  Xml <- MCFile
  Folder <- MCFolder
  Output <- MCOutput
  Pattern <- MCPattern
  BaseUrl <- MCBaseUrl
  Id <- MCId
  PatternsIn <- MCPatternsIn
  Listing <- MCListing
  Ids <- MCIds
  Configurations <- MCConfigurations
  Value <- MCValue
  Json <- MCJson
  JsonNull <- MCJsonNull
  Jobs <- MCJobs
  Document <- MCDocument
  Settings <- MCSettings
  HashLength = 2
  ServedSuffix = ""
  AnchorForms = {"html"}
  MaxFailures = 1

SPECIFICATION SiteSpec

INVARIANTS
  LinksLand

PROPERTIES
  ImplementsApplication
