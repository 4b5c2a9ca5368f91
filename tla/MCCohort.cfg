\* Two admins and a migrate, of three releases, change what one user may enter.
CONSTANTS
    Groups = {"g1", "g2"}
    Codenames = {"c1", "c2", "view"}
    Reserved = {"view"}
    Releases <- ManyReleases
    Admins = {a1, a2}
    MaxChanges = 4
SYMMETRY Symmetry
SPECIFICATION Spec
INVARIANTS
    TypeOK
    UnpagedOnlyByRace
    ResolvesAsAssigned
PROPERTIES
    NoSilentGain
