CONSTANTS
    Calls = {1, 2, 3}
    NoCall = 0
    Earlier = 0
    MaxPolls = 1
SPECIFICATION Spec
INVARIANTS
    AnswersMeetTheirQuestion
