SPECIFICATION Spec
CONSTANTS
  h1 = h1
  h2 = h2
  k1 = k1
  k2 = k2
  None = None
  post = post
  put = put
  due = due
  drop = drop
  dropDue = dropDue
  dropBoth = dropBoth
  dropNone = dropNone
  look = look
  statement = statement
  pay = pay
  refund = refund
  hook = hook
  unhook = unhook
  hookLook = hookLook
  odd = odd
  Keys = {k1, k2}
  Runs = {h1, h2}
  Requests = {put, drop, dropDue}
  Input <- InputOf
  Setters = {"v2"}
INVARIANT EventsNameTheirObject
