\* One service outside any domain and one request: each of three accounts
\* can be requester, provider, challenger and voucher at once.
CONSTANTS
  alice = alice
  bob = bob
  carol = carol
  n1 = n1
  n2 = n2
  Users = {alice, bob, carol}
  Escrow = Escrow
  Treasury = Treasury
  Inputs = {in}
  Outputs = {good, bad}
  NoOutput = NoOutput
  NoAuthority = NoAuthority
  Names = {n1}
  Prices = {1}
  Deadlines = {2}
  Margins = {0}
  TransferAmounts = {}
  ChallengeWindowBlocks = 1
  ResolutionWindowBlocks = 1
  MaxRequestDeadlineBlocks = 1
  MinServicePrice = 1
  ProviderBondAmount = 2
  ChallengerBondAmount = 2
  VoucherBondAmount = 1
  VoucherBondScaleBP = 5000
  ServiceRegistrationBond = 1
  MinServiceLifetimeBlocks = 2
  VoucherMargin = 0
  MaxServices = 1
  MaxRequests = 1
  MaxDomains = 0
  MaxHeight = 2
  Genesis <- MCGenesis
SPECIFICATION Spec
INVARIANTS TypeOK SupplyConserved RecordsMatchStatus OpenInsideWindows
PROPERTIES NoUnjustLoss ImplementsPots
