\* The passes of process_file over the documents of MCDoxyJson.
CONSTANTS
  Value <- MCValue
  Json <- MCJson
  JsonNull <- MCJsonNull
  Jobs <- MCJobs

SPECIFICATION Spec

INVARIANTS
  TypeOK
  DescriptionsOnce
  SummaryIsBrief
  HiddenStaysHidden
  ListingsArePlain
  TitleLeads
  ListedOnce
  IdsGathered
  AnchorsOfMembers
