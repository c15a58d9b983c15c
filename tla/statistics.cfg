SPECIFICATION Spec
CONSTANTS
  Streams <- MCStreams
  NgoOf <- MCNgoOf
  DonorOf <- MCDonorOf
  TokenOf <- MCTokenOf
  Deposits = {0, 3}
  Amounts = {0, 1, 4}
  Absent = Absent
  Scale = 10
  MaxWrites = 5
INVARIANTS TypeOK ShareBounded TotalsAgree SharesAddUp
PROPERTIES FallsOnlyByCancel
CHECK_DEADLOCK FALSE
