\* The seeded marketplace: a domain with a provider and a witness, one request,
\* and an authority that may resolve the dispute or retire the domain at any time.
CONSTANTS
  alice = alice
  bob = bob
  carol = carol
  n1 = n1
  n2 = n2
  Users = {alice, bob, carol}
  Escrow = Escrow
  Treasury = Treasury
  Inputs = {in}
  Outputs = {good, bad}
  NoOutput = NoOutput
  NoAuthority = NoAuthority
  Names = {n1, n2}
  Prices = {1}
  Deadlines = {1, 2}
  Margins = {2}
  TransferAmounts = {}
  ChallengeWindowBlocks = 1
  ResolutionWindowBlocks = 1
  MaxRequestDeadlineBlocks = 1
  MinServicePrice = 1
  ProviderBondAmount = 2
  ChallengerBondAmount = 2
  VoucherBondAmount = 1
  VoucherBondScaleBP = 5000
  ServiceRegistrationBond = 1
  MinServiceLifetimeBlocks = 2
  VoucherMargin = 0
  MaxServices = 2
  MaxRequests = 1
  MaxDomains = 1
  MaxHeight = 2
  Genesis <- MCGenesis
SPECIFICATION SeededSpec
INVARIANTS RetiredDomainIsEmpty EscrowBacked
PROPERTIES SettledIsFinal NoUnjustLoss
