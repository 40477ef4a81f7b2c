SPECIFICATION Spec
CONSTANTS
  Orders = {o1}
  Staff = {ann, ben}
  NoStaff = none
  Handlers = {h1, h2}
  NoOrder = null
  MaxPosts = 2
PROPERTIES RestockOnlyIfNotCancelled
CHECK_DEADLOCK FALSE
