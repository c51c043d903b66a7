SPECIFICATION Spec
CONSTANTS
    w1 = w1
    w2 = w2
    Workers = {w1, w2}
    Serves <- ServedBy
    ann = ann
    bob = bob
    Users = {ann, bob}
    Teams = {"t"}
    Projects = {"p"}
    Custom = {"Leads"}
    CustomPerms <- LeadPerms
    TokenLimit = 1
    PresetChoices <- TeamPresets
    MaxChanging = 2
SYMMETRY UserSymmetry
INVARIANTS
    
    DirectoryConsistent

    
