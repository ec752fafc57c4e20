SPECIFICATION Spec
CONSTANTS
  notes = notes key = key
  Creators = {c1}
  Payload <- MCPayload
  Draft <- MCDraft
  ByPath <- PathOrder
  ByName <- NameOrder
  Contents = {old}
  Link = link
  DraftText = draftText
  Contexts = {amd64}
  NoManifest = NoManifest
  MaxEdits = 0
  Alterable = FALSE
INVARIANT UnmodifiedAccepted
CHECK_DEADLOCK FALSE
