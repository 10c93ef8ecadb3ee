SPECIFICATION Spec
CONSTANTS
    sh1 = sh1
    sh2 = sh2
    Shells <- MCShells
    Sizes <- MCSizes
    MaxLogins = 3
    None = None
SYMMETRY Symmetry
INVARIANTS LoginTakesHold CallsUseOneLogin
