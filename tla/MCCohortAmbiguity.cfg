\* Two admins add one user to two groups at once.
CONSTANTS
    Groups = {"g1", "g2"}
    Codenames = {"c1", "c2", "view"}
    Reserved = {"view"}
    Releases <- TwoTiers
    Admins = {a1, a2}
    MaxChanges = 2
SPECIFICATION Spec
INVARIANT AmbiguityPaged
