SPECIFICATION Spec
CONSTANTS
  File <- MCFile
  Text <- MCText
  Absent = Absent
  Readable <- MCReadable
  Parses <- MCParses
  Extension = {"pair", "solo"}
  NoExtension = NoExtension
  Declares <- MCDeclares
  Lists <- MCLists
  Root <- MCRoot
  Under <- MCUnder
  Manifests <- MCManifests
  Writes <- MCWrites
  RootLists <- MCRootLists
  MaxEdits = 2
  MaxEntries = 2
PROPERTY FailedReplaceKeepsScript
