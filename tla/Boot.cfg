\* Three seeds at once, two other uses of the keys, a crash.
CONSTANTS
  alice = alice
  Bob = bob
  Harness = harness
  HarnessB = harnessB
  s1 = s1
  s2 = s2
  s3 = s3
  o1 = o1
  o2 = o2
  Users = {alice, bob, harness, harnessB}
  Ring = {alice, bob, harness, harnessB}
  Signers = {alice, bob, harness, harnessB}
  Escrow = Escrow
  Treasury = Treasury
  Inputs = {in}
  Outputs = {truth}
  NoOutput = NoOutput
  NoAuthority = NoAuthority
  Names = {n1, n2, n3, n4}
  TranslateName = n1
  WitnessName = n2
  WitnessBName = n3
  OtherName = n4
  Prices = {1}
  Deadlines = {}
  Margins = {0}
  TransferAmounts = {}
  ChallengeWindowBlocks = 1
  ResolutionWindowBlocks = 1
  MaxRequestDeadlineBlocks = 1
  MinServicePrice = 1
  ProviderBondAmount = 2
  ChallengerBondAmount = 2
  VoucherBondAmount = 1
  VoucherBondScaleBP = 5000
  ServiceRegistrationBond = 1
  MinServiceLifetimeBlocks = 1
  VoucherMargin = 0
  MaxServices = 4
  MaxRequests = 0
  MaxDomains = 5
  MaxHeight = 0
  Genesis <- MCGenesis
  Initial = 3
  Seeds = {s1, s2, s3}
  Others = {o1, o2}
  Calls <- MCCalls
  Signer <- MCSigner
  CallOf <- MCCallOf
  MaxCrashes = 1
SYMMETRY AnySeed
SPECIFICATION BootSpec
INVARIANTS BootTypeOK KeysFundedOnce SeededMeansComplete OneSeedSucceeds HalfSeededByCrashOnly NoncesWithoutGap AnswersAreTrue StaleBySameKey
CHECK_DEADLOCK FALSE
