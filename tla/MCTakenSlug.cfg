SPECIFICATION CatalogSpec
CONSTANTS
    Categories = {c1, c2}
    Publishers = {p1}
    Authors = {a1}
    Books = {}
    Names <- NamesOf
    Fold <- FoldOf
    SlugOf <- SlugFor
    Requests <- OneField
    Workers = {w1}
INVARIANTS AcceptedIsStored
