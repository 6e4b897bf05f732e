\* Two files of one folder with a credit each, one of them not yet recorded, two
\* requests at a time, over two hours.
SPECIFICATION FairSpec
CONSTANTS
  File = {f1, f2}
  Link = {l1}
  Browser = {b1}
  Request = {r1, r2}
  Grant = {g1, g2}
  Access <- InFolder
  Allowed <- OneCredit
  Folder = {l1}
  Sent = {f1}
  Protected = {l1}
  MaxHour = 1
  Unlimited = Unlimited
  NoGrant = NoGrant
  NoBrowser = NoBrowser
  NoFile = NoFile
  NoRow = NoRow
INVARIANT WithinAllowance
INVARIANT NothingUnmetered
INVARIANT UrlRestsOnItsFile
PROPERTY CreditsKept
PROPERTY RevokedGoesDark
\* A dead link leaves nothing to do.
CHECK_DEADLOCK FALSE
