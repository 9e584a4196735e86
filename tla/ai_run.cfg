SPECIFICATION Spec
CONSTANTS
  Kinds = {"size", "data", "yes", "leave", "huh", "cost", "wholesale", "embroidery", "one"}
  Replies <- MCReplies
  Phrase <- Scripted
  Sums <- MCSums
  Starts <- MCStarts
  Stages = {"sale", "payment_link"}
  MaxTexts = 2
CHECK_DEADLOCK FALSE
INVARIANT TypeOK
INVARIANT OneQuestion
INVARIANT WaitsForTheClient
INVARIANT TopicIsHeard
 
