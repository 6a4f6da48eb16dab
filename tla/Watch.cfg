\* The seeded domain, one request, two harnesses, one failure or errand.
CONSTANTS
  alice = alice
  bob = bob
  carol = carol
  dave = dave
  n1 = n1
  n2 = n2
  n3 = n3
  Users = {alice, bob, carol, dave}
  Escrow = Escrow
  Treasury = Treasury
  Inputs = {in}
  Outputs = {truth, lie, noise}
  NoOutput = NoOutput
  NoAuthority = NoAuthority
  Names = {n1, n2, n3}
  Prices = {1}
  Deadlines = {0}
  Margins = {0}
  TransferAmounts = {}
  ChallengeWindowBlocks = 1
  ResolutionWindowBlocks = 1
  MaxRequestDeadlineBlocks = 1
  MinServicePrice = 1
  ProviderBondAmount = 2
  ChallengerBondAmount = 2
  VoucherBondAmount = 1
  VoucherBondScaleBP = 5000
  ServiceRegistrationBond = 1
  MinServiceLifetimeBlocks = 2
  VoucherMargin = 1
  MaxServices = 3
  MaxRequests = 1
  MaxDomains = 1
  MaxHeight = 1
  Genesis <- MCGenesis
  Client = alice
  Provider = bob
  Watchers = {carol, dave}
  Signers = {bob, carol, dave}
  d1 = d1
  s1 = s1
  s2 = s2
  c1 = c1
  c2 = c2
  e1 = e1
  e2 = e2
  Calls = {d1, s1, s2, c1, c2, e1, e2}
  Errands = {d1}
  Signer <- MCSigner
  SeededServices <- MCServices
  MaxFaults = 1
  Truth = truth
  Fabricated = {lie}
SPECIFICATION WatchSpec
INVARIANTS WatchTypeOK LieNeverPays TruthNeverSlashed WatchersTakeSides NodeAnswers
