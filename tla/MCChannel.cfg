\* Two readers and four frames of size 1 or 2 against a buffer of 3: the
\* buffer overflows, fills exactly, and is flushed before and after the close.
SPECIFICATION FairChannelSpec
CONSTANTS
  Readers = {r1, r2}
  MaxFrames = 4
  Sizes = {1, 2}
  Data = {d}
  MaxPendingBytes = 3
INVARIANTS
  ChannelInv
  WholeStreamIsRead
  NoReaderWaitsForNothing
PROPERTIES
  ClosedChannelIsDropped
CHECK_DEADLOCK FALSE
