\* The same session; is every frame returned whole?
SPECIFICATION Spec
CONSTANTS
  Replies <- Answers
  MaxReplies = 2
INVARIANTS ReturnsWhole
