SPECIFICATION CatalogSpec
CONSTANTS
    Categories = {c1, c2}
    Publishers = {p1}
    Authors = {a1}
    Books = {b1}
    Names <- TwoNames
    Fold <- FoldOf
    SlugOf <- SlugFor
    Requests <- OneField
    Workers = {w1, w2}
SYMMETRY Interchangeable
INVARIANTS CatalogTypeOK SlugIsAddress
PROPERTIES OnlyAskedChanges
