\* From genesis: the first authority, two services under a domain or not, price
\* updates, early and late deactivation, with requests in flight.
CONSTANTS
  alice = alice
  bob = bob
  carol = carol
  n1 = n1
  n2 = n2
  Users = {alice, bob}
  Escrow = Escrow
  Treasury = Treasury
  Inputs = {in}
  Outputs = {good}
  NoOutput = NoOutput
  NoAuthority = NoAuthority
  Names = {n1, n2}
  Prices = {2, 3}
  Deadlines = {0}
  Margins = {0}
  TransferAmounts = {6}
  ChallengeWindowBlocks = 0
  ResolutionWindowBlocks = 1
  MaxRequestDeadlineBlocks = 1
  MinServicePrice = 2
  ProviderBondAmount = 2
  ChallengerBondAmount = 2
  VoucherBondAmount = 1
  VoucherBondScaleBP = 5000
  ServiceRegistrationBond = 1
  MinServiceLifetimeBlocks = 1
  VoucherMargin = 0
  MaxServices = 2
  MaxRequests = 1
  MaxDomains = 1
  MaxHeight = 1
  Genesis <- MCGenesis
SPECIFICATION Spec
INVARIANTS RetiredDomainIsEmpty EscrowBacked
PROPERTIES NoUnjustLoss SurplusOnlyFromTransfers
