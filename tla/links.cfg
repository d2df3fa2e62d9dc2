CONSTANTS
  Kinds = {"create", "links", "channel"}
  Creators = {"one", "two", "three"}
  Syncs = {1, 2}
  MaxId = 3
  Texts = {"a", "b"}
  Trash = "trash"
  NoText = "none"
  Channels <- MCChannels
  LinkLists <- MCLinkLists
  PageSize = 2
  Limits = {0, 1}
  MaxChanges = 1
  MaxFaults = 1
SPECIFICATION FairSpec
CHECK_DEADLOCK FALSE
INVARIANT TypeOK
INVARIANT BundleIsWhole
INVARIANT CreatorsAgree
PROPERTY SyncsEnd
