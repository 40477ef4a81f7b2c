SPECIFICATION Spec
CONSTANTS
  Orders = {o1}
  Staff = {ann, ben}
  NoStaff = none
  Handlers = {h1, h2}
  NoOrder = null
  MaxPosts = 3
SYMMETRY Symmetry
INVARIANTS TypeOK VerifiedIsBacked CancelledIsRestocked ConfirmedOnce
PROPERTIES OnlyStaleSavesUnverify OnlyStaffRevive
CHECK_DEADLOCK FALSE
