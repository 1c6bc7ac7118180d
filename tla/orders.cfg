SPECIFICATION Spec
CONSTANTS
  Users = {u1}
  Guest = guest
  Orders = {o1, o2}
  Requests = {r1, r2}
  Verdicts = {"Success", "Pending"}
  AdminStatuses = {"NEW", "SHIPPING"}
  Payments = {"Sent", "Success"}
  None = None
INVARIANTS RowsAreWhole OneCartAlone PaidOnlyIfBroken
PROPERTY VerdictStands
SYMMETRY Symmetry
CHECK_DEADLOCK FALSE
