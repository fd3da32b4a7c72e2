SPECIFICATION Spec
CONSTANTS
  n1 = n1
  n2 = n2
  t1 = t1
  t2 = t2
  t3 = t3
  Nodes = {n1, n2}
  Threads = {t1, t2, t3}
  NodeOf <- ThreadNode
  BlockOf <- Blocks
  starting_warehouse <- WarehouseOf
  ending_warehouse <- WarehouseOf
  num_items = 2
  num_districts_per_warehouse = 2
  num_customers_per_district = 1
  num_new_orders_per_district = 1
  order_lines = 1
  kWarehouseBits = 10
  kKeyBits = 12
  kTableIdLowBits = 5
  kDistrictLowBits = 3
  kOrderIdLowBits = 1
  N = 2
  buckets_count = 5
  SLOT_NUM = 2
  Gnullptr = Gnullptr
  IndexTables <- Tables
  RowsOf <- PopulatedBy
  IndexOf <- TableOf
  KeyOf <- KeyOfRow
  Batches <- Mixed
  Garbage = {7}
INVARIANTS PopulatedFound LocksMatchAccesses
PROPERTIES Serializable
