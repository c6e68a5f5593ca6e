\* ex6 and a broker that answers twice: plain frames, binary and empty bodies, and a body
\* that a short recv can cut.
SPECIFICATION FairSpec
CONSTANTS
  Replies <- Answers
  MaxReplies = 2
INVARIANTS TypeOK WrittenWhole PlainIsNeverRefused
PROPERTIES ChannelSpec SessionEnds
