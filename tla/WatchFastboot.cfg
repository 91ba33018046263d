\* The boot log makes buf be trimmed before or after the banner is whole, and one
\* read of it and of a panel that booted on trims the banner away; two faults
\* let a lost answer follow a power cycle.
SPECIFICATION FairSpec
CONSTANTS
  BootLog <- MCBootLog
  Keys = 2
  TrimAt = 4
  TrimTo = 3
  MaxPass = 2
  SpamTime = 3
  TypeTime = 1
  ShortWait = 1
  LongWait = 4
  MaxFaults = 2
INVARIANT TypeOK
INVARIANT BannerNotMissed
INVARIANT ReportsTrue
PROPERTY NeverStuck
PROPERTY ReachesFastboot
