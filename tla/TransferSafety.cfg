SPECIFICATION Spec
CONSTANTS
  notes = notes key = key
  Creators = {c1, c2}
  Payload <- MCPayload
  Draft <- MCDraft
  ByPath <- PathOrder
  ByName <- PathOrder
  Contents = {old, new}
  Link = link
  DraftText = draftText
  Contexts = {amd64, arm64}
  NoManifest = NoManifest
  MaxEdits = 1
  Alterable = TRUE
INVARIANTS TypeOK AcceptedIsSealed UnmodifiedAccepted NoDraftLeft
CHECK_DEADLOCK FALSE
