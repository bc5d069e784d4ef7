SPECIFICATION MCSpec
CONSTANTS
  e1 = e1
  c1 = c1
  c2 = c2
  Editors = {e1, e2}
  Clients = {c1, c2}
  old = old
  new = new
  odd = odd
  public = public
  token = token
  Changes <- MCChanges
  Seeds <- MCSeeds
  LegacyRows <- MCLegacyRows
  Entries <- MCEntries
  Versions <- MCVersions
  Covers <- MCCovers
  FileAllow = {}
  CVEBlock = TRUE
  MaxCrashes = 1
  Creds = {public, token}
  Pages = {"full", "abbreviated", "manifest", "index"}
  Listed <- MCListed
  Published <- MCPublished
  Unmappable = {odd}
  Linkless = {old}
  MaxNow = 1
  NoRow = NoRow
  NoPolicy = NoPolicy
  NoEditor = NoEditor
  NoVersion = NoVersion
ACTION_CONSTRAINT FocusStep
INVARIANTS InForceIsStored SafeDocument HiddenForCause OwnDocument
PROPERTY OnePolicy
