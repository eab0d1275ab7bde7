CONSTANTS
  alice = alice
  bob = bob
  Accounts = {alice, bob}
  RefundDelay = 2
  MaxDelta = 2
  NullRead = 0
  Genesis <- MCGenesis
SPECIFICATION FairSpec
INVARIANTS StakeIsBacked TotalsAreDelegations VoterStakeIsDelegated
  TotalStakeIsSum DeferredNeverEarly
PROPERTIES EscrowRefined ScheduledRefundIsPaid
