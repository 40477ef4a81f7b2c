SPECIFICATION MCSpec
CONSTANTS
  Browsers = {b1, b2, b3}
  Keys = {owner, signup}
  SignUpKeys = {signup}
  StaffKeys = {owner}
  NoKey = none
  MaxAttempts = 2
  MaxFailures = 5
  Addresses = {a1, a2, a3}
  NoAddress = null
  Devices = {d1, d2, d3}
  old = old
  new = new
  camera = camera
  photo = photo
  s1 = s1
  s2 = s2
  Orders = {old, new}
  Legacy = {old}
  Requested = {camera, photo}
  Suffixed = {s1, s2}
  LegacyName <- MCLegacyName
  Workers = {w1, w2}
  NoOrder = noorder
  NoName = noname
  NoFile = nofile
  MaxUploads = 3
  Staff = {ann, ben}
  Applicants = {sam}
  Handlers = {h1, h2}
  NoUser = nobody
  MaxProfiles = 3
INVARIANTS TypeOK GuessesBounded OneDefault DefaultlessExplained ServedIsOwn LegacyKept ProductsHaveSellers ProfileComesWithProduct
CHECK_DEADLOCK FALSE
