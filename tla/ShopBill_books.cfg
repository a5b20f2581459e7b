SPECIFICATION FairSpec
CONSTANTS
  Ids = {1, 2, 3, 4}
  Cost <- MCCost
  Stock <- MCStock
  Own <- MCOwn
  BILLSZ = 2
  Purse = 1
  Till = 0
  Appease = 1
  MaxSum = 2
INVARIANTS TypeOK BillAgrees PiecesBilled PricesMatchMood LoanInDebit
CHECK_DEADLOCK FALSE
PROPERTIES PayEnds
