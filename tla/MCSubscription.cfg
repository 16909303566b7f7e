SPECIFICATION FairSpec
CONSTANTS
  Messages = {m1, m2}
  QueueCapacity = 1
  MaxBreaks = 1
  MaxFailures = 1
INVARIANTS SubscriptionTypeOK NoEventRefused OneStreamAtATime SettledWasAnswered
PROPERTIES CloseEnds EveryEventSettles
