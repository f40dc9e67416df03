SPECIFICATION Spec
CONSTANTS
  NoEvent = NoEvent
  NoExtension = NoExtension
  NoCollaboration = NoCollaboration
  Unreadable = Unreadable
  NoText = NoText
  Texts <- MCTexts
  MaxTrips = 3
  JSONDefinitions <- MCJSONDefinitions
  Uploads <- MCUploads
INVARIANTS
  SkeletonSurvives
  SettlesAfterOneTrip
  RefusedOnlyIfWiped
CHECK_DEADLOCK FALSE
