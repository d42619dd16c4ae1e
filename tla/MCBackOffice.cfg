SPECIFICATION MCSpec
CONSTANTS
  Scenes = {"sourcing", "receiving", "approval", "finance", "accounts", "journals",
            "invoices", "posting", "tickets", "service levels", "hiring", "shipping",
            "overtime", "sales", "ordering"}
  None = None
  Budgets = {b1}
  Expenses = {e1, e2}
  Calls = {c1, c2, c3, w1, w2}
  Workflows = {w1, w2}
  Totals <- MCTotals
  Amounts <- MCAmounts
  Suppliers = {s1}
  Requests = {r1}
  Orders = {o1, o2}
  Receipts = {g1, g2, g3}
  Names = {n1}
  Keys = {k1}
  Ordered = 2
  Amount = 1
  Thresholds <- MCThresholds
  Codes = {a1, a2}
  Accounts = {a3, a4}
  Journals = {j1, j2, j3}
  Invoices = {i1}
  References = {r2}
  Total = 2
  PostingThresholds = {1}
  Tickets = {t1, t2}
  People = {e3, e4, e5}
  Questions = {q1, q2}
  Parcels = {p1, p2}
  Hours = {2, 8}
  Rates = {10, 30}
  Loads = {1, 4}
  WarehousePerHead = 2
  CourierPerHead = 1
  DefaultRate = 25
  JustificationThreshold = 200
  OverloadHours = 10
  Sold = {o3, o4}
SYMMETRY Symmetric
INVARIANTS
  OrdersMatchApprovals
  ApprovedIsFunded
  AllocatedWithinTotal
  FundsAddUp
  
  TicketsTellTheTruth
  StaffIsTreatedFairly
  SalesOrdersHold
PROPERTY
  DecisionsStand
CHECK_DEADLOCK FALSE
