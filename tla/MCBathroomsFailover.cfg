SPECIFICATION BathroomsSpec
INVARIANT SceneMembersOnline
