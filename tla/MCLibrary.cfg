CONSTANT Folders = {f1, f2}
CONSTANT Names = {n1}
CONSTANT Customs = {default, custom}
CONSTANT Default = default
CONSTANT MaxId = 3
CONSTANT Uses <- AllUses
SYMMETRY Symmetry
SPECIFICATION LibrarySpec
INVARIANT LibraryInv
INVARIANT EditsSurviveAtDesk
PROPERTY IdKeepsFile
