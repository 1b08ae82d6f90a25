SPECIFICATION Spec
CONSTANTS
    Size = 4
    Graphs <- AllGraphs
INVARIANTS DominatorsCorrect DominatorsConverge LoopDepths PreOrderNests HeaderQueryAnswers
