\* The seeded marketplace without the witness: two requests whose stakes share
\* the escrow account, settled one by one, by one block or by one cascade.
CONSTANTS
  alice = alice
  bob = bob
  carol = carol
  n1 = n1
  n2 = n2
  Users = {alice, bob}
  Escrow = Escrow
  Treasury = Treasury
  Inputs = {in}
  Outputs = {good, bad}
  NoOutput = NoOutput
  NoAuthority = NoAuthority
  Names = {n1}
  Prices = {1}
  Deadlines = {1}
  Margins = {0}
  TransferAmounts = {}
  ChallengeWindowBlocks = 1
  ResolutionWindowBlocks = 1
  MaxRequestDeadlineBlocks = 1
  MinServicePrice = 1
  ProviderBondAmount = 2
  ChallengerBondAmount = 2
  VoucherBondAmount = 1
  VoucherBondScaleBP = 5000
  ServiceRegistrationBond = 1
  MinServiceLifetimeBlocks = 2
  VoucherMargin = 0
  MaxServices = 1
  MaxRequests = 2
  MaxDomains = 1
  MaxHeight = 1
  Genesis <- MCGenesis
SPECIFICATION SeededFairSpec
INVARIANTS OpenInsideWindows EscrowBacked
PROPERTIES ImplementsPotsFromSeed EventuallySettled
