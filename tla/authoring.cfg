CONSTANTS
  p = p o = o old = old i1 = i1 a = a b = b h1 = h1 h2 = h2
  NoText = NoText None = None
  Drafts = {p}
  Pages = {p}
  Others = {o}
  Items = {i1}
  Texts = {a, b}
  OtherDrafts = {old}
  Handlers = {h1, h2}
  DraftQuota = 1
  PublishQuota = 1
  MaxIntents = 2
  MaxAsks = 4
SPECIFICATION StudioSpec
SYMMETRY Interchangeable
CHECK_DEADLOCK FALSE
INVARIANTS ApprovedAsSeen PublishedAsReviewed PageKnowsItsVersion
PROPERTY NoChangeIsLost
