SPECIFICATION BathroomsSpec
INVARIANTS AutoLightReaches HeatingFollows
