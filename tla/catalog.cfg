CONSTANTS
    i1 = i1
    i2 = i2
    i3 = i3
    n1 = n1
    n2 = n2
    NoWord = NoWord
    Words = {i1}
    Catalogs <- MCCatalogs
    Refreshers = {f1, f2}
    Chats = {c1}
    MaxRefreshes = 2
    MaxOpens = 2
    MaxLoads = 1
SPECIFICATION CatalogSpec
INVARIANTS
    CatalogIsOneToOne
    ListedModelIsCalled
    PanelNamesAreCallable
SYMMETRY MCSymmetry
