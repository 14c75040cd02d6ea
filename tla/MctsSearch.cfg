\* Forty-eight proof systems, three steps, two tactics per policy answer.
SPECIFICATION Spec
CONSTANTS
    a = a
    b = b
    s = s
    t = t
    Goals = {a, b}
    Tactics = {s, t}
    OpenGoals = {b}
    Systems <- SmallSystems
    Starts <- OneGoal
    Fails = Fails
    MaxNodes = 6
    MaxSteps = 4
    MaxOffered = 2
INVARIANTS SolvedReplays FlagsAgree
PROPERTIES SearchEnds
