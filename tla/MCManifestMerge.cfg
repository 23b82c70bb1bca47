\* Rewrites of a manifest by every journal over five keys, and by wrong ones.
SPECIFICATION Spec
CONSTANTS
  was = was
  now = now
  None = None
  Keys <- MCKeys
  DirKeys <- MCDirKeys
  Root = 0
  First <- MCFirst
  Last <- MCLast
  Entries = {was, now}
  Files <- MCFiles
INVARIANTS
  PublishesMerge
  RefusesRightly
  WarnsRight
  SubtreeDropped
