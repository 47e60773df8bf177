--------------------------- MODULE CatalogProofs ---------------------------
(***************************************************************************)
(* Theorems about Catalog.tla, for every set of rows, names and workers,   *)
(* and whatever Fold and SlugOf are.                                       *)
(***************************************************************************)
EXTENDS Catalog, TLAPS

Steps == {"idle", "insert", "update", "add", "lock", "save"}

Slugs == {NoSlug} \cup {SlugOf[n] : n \in Names}
CategoryRows == [state : {"listed"}, name : Names, slug : Slugs, parent : Parents]
BookRecords == [state      : {"listed"},
                publisher  : Publishers \cup {None},
                authors    : SUBSET Authors,
                categories : SUBSET Categories]

TablesTyped ==
    /\ category \in [Categories -> CategoryRows \cup {Unused, Deleted}]
    /\ firstSlug \in [Categories -> Slugs]
    /\ book \in [Books -> BookRecords \cup {Unused, Deleted}]
    /\ publishers \subseteq Publishers
    /\ authors \subseteq Authors

WorkersTyped ==
    /\ step \in [Workers -> Steps]
    /\ req = [w \in Workers |-> req[w]]
    /\ copy = [w \in Workers |-> copy[w]]

\* No reference dangles, no slug is used twice, and none was ever changed.
TablesSound ==
    /\ \A c \in Listed(category) : ParentKnown(category[c].parent)
    /\ \A b \in Listed(book) : LinksKnown(book[b])
    /\ \A c, d \in Listed(category) : category[c].slug = category[d].slug => c = d
    /\ \A c \in Listed(category) : category[c].slug = firstSlug[c]

Editing(w, c) == step[w] = "update" /\ req[w].op = "category" /\ req[w].target = c
Saving(w, b) == step[w] = "save" /\ req[w].target = b

\* What the request of w may rely on: the category it edits had a slug, the one it
\* was inserted with; the book it holds is listed, with the publisher that was read.
Under(w) ==
    /\ step[w] = "insert" => copy[w] \in CategoryRows /\ copy[w].slug = NoSlug
    /\ step[w] = "update" /\ req[w].op = "category" =>
         /\ req[w].target \in Categories
         /\ category[req[w].target] # Unused
         /\ copy[w] \in CategoryRows
         /\ copy[w].slug # NoSlug
         /\ copy[w].slug = firstSlug[req[w].target]
    /\ step[w] = "update" /\ req[w].op = "publisher" => req[w].target \in Publishers
    /\ step[w] = "add" => req[w].row \in BookRecords
    /\ step[w] \in {"lock", "save"} =>
         req[w].target \in Books /\ req[w].row \in BookRecords
    /\ step[w] = "save" =>
         /\ req[w].target \in Listed(book)
         /\ copy[w].publisher = book[req[w].target].publisher

\* Two edits of a book do not save at once.
Agree(v, w) == \A b \in Books : ~(Saving(v, b) /\ Saving(w, b))

CatalogInv ==
    /\ TablesTyped
    /\ WorkersTyped
    /\ TablesSound
    /\ \A w \in Workers : Under(w)
    /\ \A v, w \in Workers : v # w => Agree(v, w)

LEMMA InitHolds == CatalogInit => CatalogInv
<1> SUFFICES ASSUME CatalogInit PROVE CatalogInv
    OBVIOUS
<1>1. TablesTyped /\ WorkersTyped
    BY DEF CatalogInit, TablesTyped, WorkersTyped, Steps, Slugs
<1>2. TablesSound
    BY DEF CatalogInit, TablesSound, Listed, Unused
<1>3. \A w \in Workers : Under(w)
    BY DEF CatalogInit, Under
<1>4. \A v, w \in Workers : Agree(v, w)
    BY DEF CatalogInit, Agree, Editing, Saving
<1> QED BY <1>1, <1>2, <1>3, <1>4 DEF CatalogInv

-----------------------------------------------------------------------------
\* What a change of the tables leaves alone for a request under way.
Undisturbed(v) ==
    /\ \A c \in Categories :
         Editing(v, c) =>
           category'[c] # Unused /\ firstSlug'[c] = firstSlug[c]
    /\ \A b \in Books :
         Saving(v, b) => b \in Listed(book') /\ book'[b].publisher = book[b].publisher

LEMMA UnderKept ==
    ASSUME CatalogInv, NEW v \in Workers, Undisturbed(v),
           step'[v] = step[v], req'[v] = req[v], copy'[v] = copy[v]
    PROVE  Under(v)'
<1>1. Under(v)
    BY DEF CatalogInv
<1>2. step[v] = "update" /\ req[v].op = "category" => Editing(v, req[v].target)
    BY DEF Editing
<1>3. step[v] = "save" => Saving(v, req[v].target)
    BY DEF Saving
<1>4. Listed(category)' = Listed(category') /\ Listed(book)' = Listed(book')
    BY DEF Listed
<1> QED BY <1>1, <1>2, <1>3, <1>4 DEF Under, Undisturbed

LEMMA SameTables ==
    ASSUME CatalogInv, NEW v \in Workers, UNCHANGED <<category, firstSlug, book>>
    PROVE  Undisturbed(v)
<1>1. Under(v)
    BY DEF CatalogInv
<1> QED BY <1>1 DEF Under, Undisturbed, Editing, Saving

\* One worker moves, the others go on undisturbed.
LEMMA OneMoves ==
    ASSUME CatalogInv, NEW w \in Workers,
           TablesTyped', WorkersTyped', TablesSound',
           \A v \in Workers \ {w} :
               /\ step'[v] = step[v] /\ req'[v] = req[v] /\ copy'[v] = copy[v]
               /\ Undisturbed(v)
               /\ Agree(v, w)' /\ Agree(w, v)',
           Under(w)'
    PROVE  CatalogInv'
<1>1. \A v \in Workers : Under(v)'
    BY UnderKept
<1>2. ASSUME NEW v \in Workers \ {w}, NEW x \in Workers \ {w}, v # x
      PROVE  Agree(v, x)'
    BY <1>2 DEF CatalogInv, Agree, Editing, Saving
<1>3. \A v, x \in Workers : v # x => Agree(v, x)'
    BY <1>2
<1> QED BY <1>1, <1>3 DEF CatalogInv

\* No worker moves.
LEMMA NoneMoves ==
    ASSUME CatalogInv, UNCHANGED <<step, req, copy>>,
           TablesTyped', TablesSound', \A v \in Workers : Undisturbed(v)
    PROVE  CatalogInv'
<1>1. \A v \in Workers : Under(v)'
    BY UnderKept
<1>2. \A v, w \in Workers : v # w => Agree(v, w)'
    BY DEF CatalogInv, Agree, Editing, Saving
<1>3. WorkersTyped'
    BY DEF CatalogInv, WorkersTyped
<1> QED BY <1>1, <1>2, <1>3 DEF CatalogInv

LEMMA EndStep ==
    ASSUME CatalogInv, NEW w \in Workers, End(w), TablesTyped', TablesSound',
           \A v \in Workers \ {w} : Undisturbed(v)
    PROVE  CatalogInv'
<1>1. step'[w] = "idle"
    BY DEF CatalogInv, WorkersTyped, End
<1>2. \A v \in Workers \ {w} :
         step'[v] = step[v] /\ req'[v] = req[v] /\ copy'[v] = copy[v]
    BY DEF CatalogInv, WorkersTyped, End
<1>3. WorkersTyped'
    BY DEF CatalogInv, WorkersTyped, End, Steps
<1>4. Under(w)'
    BY <1>1 DEF Under
<1>5. \A v \in Workers \ {w} : Agree(v, w)' /\ Agree(w, v)'
    BY <1>1 DEF Agree, Editing, Saving
<1> QED BY <1>2, <1>3, <1>4, <1>5, OneMoves

LEMMA TablesUntouched ==
    ASSUME CatalogInv, UNCHANGED tables
    PROVE  TablesTyped' /\ TablesSound'
BY DEF tables, CatalogInv, TablesTyped, TablesSound, Listed, ParentKnown, LinksKnown

LEMMA RejectStep ==
    ASSUME CatalogInv, NEW w \in Workers, Reject(w)
    PROVE  CatalogInv'
BY TablesUntouched, SameTables, EndStep DEF Reject, tables

\* A request that starts, with what its next statement relies on.
LEMMA BeginStep ==
    ASSUME CatalogInv, NEW w \in Workers, NEW first \in {"insert", "update", "add", "lock"},
           NEW request, NEW object, Begin(w, first, request, object),
           first = "insert" => object \in CategoryRows /\ object.slug = NoSlug,
           first = "update" /\ request.op = "category" =>
             /\ request.target \in Listed(category)
             /\ object \in CategoryRows /\ object.slug # NoSlug
             /\ object.slug = category[request.target].slug,
           first = "update" /\ request.op = "publisher" => request.target \in Publishers,
           first = "add" => request.row \in BookRecords,
           first = "lock" => request.target \in Books /\ request.row \in BookRecords
    PROVE  CatalogInv'
<1>1. step'[w] = first /\ req'[w] = request /\ copy'[w] = object
    BY DEF CatalogInv, WorkersTyped, Begin
<1>2. \A v \in Workers \ {w} :
         step'[v] = step[v] /\ req'[v] = req[v] /\ copy'[v] = copy[v]
    BY DEF CatalogInv, WorkersTyped, Begin
<1>3. WorkersTyped'
    BY DEF CatalogInv, WorkersTyped, Begin, Steps
<1>4. /\ TablesTyped' /\ TablesSound'
      /\ UNCHANGED <<category, firstSlug, book>>
    BY TablesUntouched DEF Begin, tables
<1>5. first = "update" /\ request.op = "category" =>
         /\ request.target \in Categories /\ category[request.target] # Unused
         /\ object.slug = firstSlug[request.target]
    BY DEF CatalogInv, TablesTyped, TablesSound, Listed, Unused
<1>6. Under(w)'
    BY <1>1, <1>4, <1>5 DEF Under, Listed
<1>7. ASSUME NEW v \in Workers \ {w} PROVE Agree(v, w)' /\ Agree(w, v)'
    <2>1. Under(v)
        BY DEF CatalogInv
    <2> QED BY <1>1, <1>2, <2>1 DEF Agree, Editing, Saving, Under
<1> QED BY <1>2, <1>3, <1>4, <1>6, <1>7, SameTables, OneMoves


-----------------------------------------------------------------------------
LEMMA RowTyped ==
    ASSUME NEW n \in Names, NEW s \in Slugs, NEW p \in Parents
    PROVE  CategoryRow(n, s, p) \in CategoryRows
BY DEF CategoryRow, CategoryRows

\* A row is no mark of a key that is unused or deleted.
LEMMA RowsAreListed ==
    /\ \A row \in CategoryRows : row.state = "listed" /\ row # Unused /\ row # Deleted
    /\ \A row \in BookRecords : row.state = "listed" /\ row # Unused /\ row # Deleted
    /\ Unused # Deleted
BY DEF CategoryRows, BookRecords, Unused, Deleted

LEMMA RequestStep ==
    ASSUME CatalogInv, NEW w \in Workers, Request(w)
    PROVE  CatalogInv'
<1>1. ASSUME NEW n \in Names, NEW p \in Parents, StartCreateCategory(w, n, p)
      PROVE  CatalogInv'
    <2>1. /\ CategoryRow(n, NoSlug, p) \in CategoryRows
          /\ CategoryRow(n, NoSlug, p).slug = NoSlug
        BY RowTyped DEF Slugs, CategoryRow
    <2> QED BY <1>1, <2>1, BeginStep DEF StartCreateCategory
<1>2. ASSUME NEW n \in Names, NEW p \in Parents, NEW c \in Categories,
             StartEditCategory(w, c, n, p)
      PROVE  CatalogInv'
    <2> DEFINE row == CategoryRow(n, category[c].slug, p)
               request == [op |-> "category", target |-> c]
    <2>1. c \in Listed(category) /\ category[c].slug # NoSlug
        BY <1>2 DEF StartEditCategory
    <2>2. category[c].slug \in Slugs
        BY <2>1 DEF CatalogInv, TablesTyped, CategoryRows, Listed, Unused, Deleted
    <2>3. row \in CategoryRows /\ row.slug = category[c].slug
        BY <2>2, RowTyped DEF CategoryRow
    <2>4. request.op = "category" /\ request.target = c
        OBVIOUS
    <2>5. Begin(w, "update", request, row)
        BY <1>2 DEF StartEditCategory
    <2> HIDE DEF row, request
    <2> QED BY <2>1, <2>3, <2>4, <2>5, BeginStep
<1>3. ASSUME NEW p \in Publishers, StartEditPublisher(w, p)
      PROVE  CatalogInv'
    <2> DEFINE request == [op |-> "publisher", target |-> p]
    <2>1. request.op = "publisher" /\ request.target = p
        OBVIOUS
    <2>2. Begin(w, "update", request, Unused)
        BY <1>3 DEF StartEditPublisher
    <2> HIDE DEF request
    <2> QED BY <2>1, <2>2, BeginStep
<1>4. ASSUME NEW b \in Books, NEW fields \in Requests, NEW row \in BookRows,
             StartEditBook(w, b, fields, row)
      PROVE  CatalogInv'
    <2> DEFINE request == [op |-> "book", target |-> b, fields |-> fields, row |-> row]
    <2>1. request.target = b /\ request.row = row
        OBVIOUS
    <2>2. Begin(w, "lock", request, Unused)
        BY <1>4 DEF StartEditBook
    <2>3. row \in BookRecords
        BY DEF BookRows, BookRow, BookRecords
    <2> HIDE DEF request
    <2> QED BY <2>1, <2>2, <2>3, BeginStep
<1>5. ASSUME NEW row \in BookRows, StartCreateBook(w, row)
      PROVE  CatalogInv'
    <2> DEFINE request == [op |-> "book", row |-> row]
    <2>1. request.row = row /\ row \in BookRecords
        BY DEF BookRows, BookRow, BookRecords
    <2>2. Begin(w, "add", request, Unused)
        BY <1>5 DEF StartCreateBook
    <2> HIDE DEF request
    <2> QED BY <2>1, <2>2, BeginStep
<1> QED BY <1>1, <1>2, <1>3, <1>4, <1>5 DEF Request

-----------------------------------------------------------------------------
\* What may be done to one category and keep the tables sound.
LEMMA StoredSound ==
    ASSUME CatalogInv, NEW c \in Categories, NEW row \in CategoryRows, Storable(c, row),
           category' = [category EXCEPT ![c] = row],
           firstSlug' = [firstSlug EXCEPT ![c] = row.slug],
           UNCHANGED <<publishers, authors, book>>
    PROVE  TablesTyped' /\ TablesSound'
<1>1. TablesTyped'
    BY DEF CatalogInv, TablesTyped, CategoryRows
<1>2. row.state = "listed"
    BY DEF CategoryRows
<1>3. Listed(category)' = Listed(category) \cup {c}
    BY <1>2 DEF CatalogInv, TablesTyped, Listed
<1>4. \A d \in Listed(category)' : category'[d] = IF d = c THEN row ELSE category[d]
    BY <1>3 DEF CatalogInv, TablesTyped, Listed
<1>5. \A d \in Listed(category)' : ParentKnown(category[d].parent)'
    <2>1. \A d \in Listed(category) : category[d].parent \in Listed(category) \cup {None}
        BY DEF CatalogInv, TablesSound, ParentKnown
    <2>2. row.parent \in Listed(category) \cup {c, None}
        BY DEF Storable, ParentKnown
    <2>3. \A d \in Listed(category)' : category'[d].parent \in Listed(category)' \cup {None}
        BY <1>3, <1>4, <2>1, <2>2
    <2> QED BY <2>3 DEF ParentKnown
<1>6. \A b \in Listed(book)' : LinksKnown(book[b])'
    BY <1>3 DEF CatalogInv, TablesSound, LinksKnown, Listed
<1>7. \A d, e \in Listed(category)' : category'[d].slug = category'[e].slug => d = e
    <2>1. \A d \in Listed(category) \ {c} : category[d].slug # row.slug
        BY DEF Storable
    <2>2. \A d, e \in Listed(category) : category[d].slug = category[e].slug => d = e
        BY DEF CatalogInv, TablesSound
    <2> SUFFICES ASSUME NEW d \in Listed(category)', NEW e \in Listed(category)',
                        category'[d].slug = category'[e].slug
                 PROVE  d = e
        OBVIOUS
    <2>3. /\ category'[d] = IF d = c THEN row ELSE category[d]
          /\ category'[e] = IF e = c THEN row ELSE category[e]
        BY <1>4
    <2>4. CASE d = c /\ e # c
        <3>1. e \in Listed(category) \ {c} /\ row.slug = category[e].slug
            BY <1>3, <2>3, <2>4
        <3> QED BY <2>1, <3>1
    <2>5. CASE e = c /\ d # c
        <3>1. d \in Listed(category) \ {c} /\ row.slug = category[d].slug
            BY <1>3, <2>3, <2>5
        <3> QED BY <2>1, <3>1
    <2>6. CASE d # c /\ e # c
        BY <1>3, <2>2, <2>3, <2>6
    <2> QED BY <2>4, <2>5, <2>6
<1>8. \A d \in Listed(category)' : category'[d].slug = firstSlug'[d]
    BY <1>3, <1>4 DEF CatalogInv, TablesTyped, TablesSound, Listed
<1> QED BY <1>1, <1>5, <1>6, <1>7, <1>8 DEF TablesSound

LEMMA SlugFilledIn ==
    ASSUME NEW row \in CategoryRows
    PROVE  /\ WithSlug(row) \in CategoryRows
           /\ row.slug # NoSlug => WithSlug(row) = row
BY DEF WithSlug, CategoryRows, Slugs

LEMMA InsertStep ==
    ASSUME CatalogInv, NEW w \in Workers, InsertCategory(w)
    PROVE  CatalogInv'
<1>1. PICK c \in Categories : category[c] = Unused /\ StoreCategory(w, c)
    BY DEF InsertCategory
<1> DEFINE row == WithSlug(copy[w])
<1>2. row \in CategoryRows
    BY SlugFilledIn DEF InsertCategory, CatalogInv, Under
<1>3. CASE Reject(w)
    BY <1>3, RejectStep
<1>4. CASE /\ Storable(c, row)
           /\ category' = [category EXCEPT ![c] = row]
           /\ firstSlug' = [firstSlug EXCEPT ![c] = row.slug]
           /\ End(w)
           /\ UNCHANGED <<publishers, authors, book>>
    <2> HIDE DEF row
    <2>1. TablesTyped' /\ TablesSound'
        BY <1>2, <1>4, StoredSound
    <2>2. ASSUME NEW v \in Workers PROVE Undisturbed(v)
        <3>1. Under(v)
            BY DEF CatalogInv
        <3>2. \A d \in Categories \ {c} :
                 category'[d] = category[d] /\ firstSlug'[d] = firstSlug[d]
            BY <1>4 DEF CatalogInv, TablesTyped
        <3> QED BY <1>1, <1>4, <3>1, <3>2 DEF Under, Undisturbed, Editing, Saving
    <2> QED BY <1>4, <2>1, <2>2, EndStep
<1> QED BY <1>1, <1>3, <1>4 DEF StoreCategory

LEMMA UpdateStep ==
    ASSUME CatalogInv, NEW w \in Workers, UpdateCategory(w)
    PROVE  CatalogInv'
<1>1. PICK c \in Categories : c = req[w].target
    BY DEF UpdateCategory, CatalogInv, Under
<1> DEFINE row == WithSlug(copy[w])
<1>2. Editing(w, c) /\ StoreCategory(w, c)
    BY <1>1 DEF UpdateCategory, Editing
<1>3. row \in CategoryRows /\ row = copy[w]
    BY SlugFilledIn DEF UpdateCategory, CatalogInv, Under
<1>4. CASE Reject(w)
    BY <1>4, RejectStep
<1>5. CASE /\ Storable(c, row)
           /\ category' = [category EXCEPT ![c] = row]
           /\ UNCHANGED firstSlug
           /\ End(w)
           /\ UNCHANGED <<publishers, authors, book>>
    <2> HIDE DEF row
    <2>1. row.slug = firstSlug[c]
        BY <1>2, <1>3 DEF CatalogInv, Under, Editing
    <2>2. firstSlug' = [firstSlug EXCEPT ![c] = row.slug]
        BY <1>5, <2>1 DEF CatalogInv, TablesTyped
    <2>3. TablesTyped' /\ TablesSound'
        BY <1>3, <1>5, <2>2, StoredSound
    <2>4. ASSUME NEW v \in Workers \ {w} PROVE Undisturbed(v)
        <3>1. Under(v)
            BY DEF CatalogInv
        <3>2. \A d \in Categories \ {c} : category'[d] = category[d]
            BY <1>5 DEF CatalogInv, TablesTyped
        <3>3. category'[c] = row /\ row # Unused
            BY <1>3, <1>5 DEF CatalogInv, TablesTyped, CategoryRows, Unused
        <3> QED BY <1>5, <3>1, <3>2, <3>3 DEF Under, Undisturbed, Editing, Saving
    <2> QED BY <1>5, <2>3, <2>4, EndStep
<1>6. category[c] # Unused
    BY <1>2 DEF CatalogInv, Under, Editing
<1>7. [firstSlug EXCEPT ![c] = IF category[c] = Unused THEN row.slug ELSE firstSlug[c]]
        = firstSlug
    BY <1>6 DEF CatalogInv, TablesTyped
<1> QED BY <1>2, <1>4, <1>5, <1>7 DEF StoreCategory

LEMMA CategoryDeleted ==
    ASSUME CatalogInv, NEW c \in Categories, DeleteCategory(c)
    PROVE  Listed(category)' = Listed(category) \ {c}
<1>1. category' = [d \in Categories |-> category'[d]]
    BY DEF DeleteCategory
<1>2. ASSUME NEW d \in Categories
      PROVE  category'[d].state = "listed" <=> category[d].state = "listed" /\ d # c
    <2>1. CASE d = c
        BY <2>1 DEF DeleteCategory, Deleted
    <2>2. CASE d # c /\ category[d].state # "listed"
        BY <2>2 DEF DeleteCategory, Listed
    <2>3. CASE d # c /\ category[d].state = "listed"
        <3>1. category[d] \in CategoryRows
            BY <2>3 DEF CatalogInv, TablesTyped, Unused, Deleted
        <3>2. category'[d] \in {category[d], [category[d] EXCEPT !.parent = None]}
            BY <2>3 DEF DeleteCategory
        <3> QED BY <2>3, <3>1, <3>2 DEF CategoryRows
    <2> QED BY <2>1, <2>2, <2>3
<1> QED BY <1>1, <1>2 DEF CatalogInv, TablesTyped, Listed

LEMMA DeleteCategoryStep ==
    ASSUME CatalogInv, NEW c \in Categories, DeleteCategory(c)
    PROVE  CatalogInv'
<1>1. ASSUME NEW d \in Categories
      PROVE  /\ d = c => category'[d] = Deleted
             /\ d # c /\ d \notin Listed(category) => category'[d] = category[d]
             /\ d # c /\ d \in Listed(category) =>
                  category'[d] = IF category[d].parent = c
                                 THEN [category[d] EXCEPT !.parent = None] ELSE category[d]
    BY DEF DeleteCategory
<1>2. ASSUME NEW b \in Books
      PROVE  /\ b \notin Listed(book) => book'[b] = book[b]
             /\ b \in Listed(book) =>
                  book'[b] = [book[b] EXCEPT !.categories = @ \ {c}]
    BY DEF DeleteCategory
<1>3. /\ \A d \in Listed(category) : category[d] \in CategoryRows
      /\ \A b \in Listed(book) : book[b] \in BookRecords
      /\ Listed(category) \subseteq Categories /\ Listed(book) \subseteq Books
    BY DEF CatalogInv, TablesTyped, Listed, Unused, Deleted
<1>4. ASSUME NEW d \in Listed(category) \ {c}
      PROVE  /\ category'[d] \in CategoryRows
             /\ category'[d].slug = category[d].slug
             /\ category'[d].parent = IF category[d].parent = c THEN None
                                      ELSE category[d].parent
    BY <1>1, <1>3 DEF CategoryRows, Parents
<1>5. ASSUME NEW b \in Listed(book)
      PROVE  /\ book'[b] \in BookRecords
             /\ book'[b].publisher = book[b].publisher
             /\ book'[b].authors = book[b].authors
             /\ book'[b].categories = book[b].categories \ {c}
    <2>1. b \in Books /\ book[b] \in BookRecords
        BY <1>3
    <2>2. book'[b] = [book[b] EXCEPT !.categories = book[b].categories \ {c}]
        BY <1>2, <2>1
    <2>3. book[b].categories \ {c} \in SUBSET Categories
        BY <2>1 DEF BookRecords
    <2> QED BY <2>1, <2>2, <2>3 DEF BookRecords
<1>6. TablesTyped'
    <2>1. category' \in [Categories -> CategoryRows \cup {Unused, Deleted}]
        <3>1. category' = [d \in Categories |-> category'[d]]
            BY DEF DeleteCategory
        <3>2. \A d \in Categories : category'[d] \in CategoryRows \cup {Unused, Deleted}
            BY <1>1, <1>4 DEF CatalogInv, TablesTyped
        <3> QED BY <3>1, <3>2
    <2>2. book' \in [Books -> BookRecords \cup {Unused, Deleted}]
        <3>1. book' = [b \in Books |-> book'[b]]
            BY DEF DeleteCategory
        <3>2. \A b \in Books : book'[b] \in BookRecords \cup {Unused, Deleted}
            BY <1>2, <1>5 DEF CatalogInv, TablesTyped
        <3> QED BY <3>1, <3>2
    <2> QED BY <2>1, <2>2 DEF DeleteCategory, CatalogInv, TablesTyped
<1>7. Listed(category)' = Listed(category) \ {c}
    BY CategoryDeleted
<1>8. Listed(book)' = Listed(book)
    BY <1>2, <1>3, <1>5, <1>6 DEF CatalogInv, TablesTyped, Listed, BookRecords
<1>9. TablesSound'
    <2>1. \A d \in Listed(category)' : ParentKnown(category[d].parent)'
        BY <1>4, <1>7 DEF CatalogInv, TablesSound, ParentKnown
    <2>2. \A b \in Listed(book)' : LinksKnown(book[b])'
        BY <1>5, <1>7, <1>8 DEF CatalogInv, TablesSound, LinksKnown, DeleteCategory
    <2>3. \A d, e \in Listed(category)' : category'[d].slug = category'[e].slug => d = e
        BY <1>4, <1>7 DEF CatalogInv, TablesSound
    <2>4. \A d \in Listed(category)' : category'[d].slug = firstSlug'[d]
        BY <1>4, <1>7 DEF CatalogInv, TablesSound, DeleteCategory
    <2> QED BY <2>1, <2>2, <2>3, <2>4 DEF TablesSound
<1>10. ASSUME NEW v \in Workers PROVE Undisturbed(v)
    <2>1. Under(v)
        BY DEF CatalogInv
    <2>2. ASSUME NEW d \in Categories, Editing(v, d)
          PROVE  category'[d] # Unused /\ firstSlug'[d] = firstSlug[d]
        <3>1. category[d] # Unused
            BY <2>1, <2>2 DEF Under, Editing
        <3>2. category'[d] # Unused
            BY <1>1, <1>4, <3>1, RowsAreListed
        <3> QED BY <3>2 DEF DeleteCategory
    <2>3. ASSUME NEW b \in Books, Saving(v, b)
          PROVE  b \in Listed(book') /\ book'[b].publisher = book[b].publisher
        <3>1. b \in Listed(book)
            BY <2>1, <2>3 DEF Under, Saving
        <3>2. Listed(book') = Listed(book)
            BY <1>8 DEF Listed
        <3> QED BY <1>5, <3>1, <3>2
    <2> QED BY <2>2, <2>3 DEF Undisturbed
<1> QED BY <1>6, <1>9, <1>10, NoneMoves DEF DeleteCategory

-----------------------------------------------------------------------------
\* Only publishers change, and the books find theirs.
LEMMA PublishersSound ==
    ASSUME CatalogInv, UNCHANGED <<category, firstSlug, authors, book>>,
           publishers' \subseteq Publishers,
           \A b \in Listed(book) : book[b].publisher \in publishers' \cup {None}
    PROVE  TablesTyped' /\ TablesSound'
<1>1. \A b \in Listed(book)' : LinksKnown(book[b])'
    BY DEF CatalogInv, TablesSound, LinksKnown, Listed
<1> QED BY <1>1 DEF CatalogInv, TablesTyped, TablesSound, Listed, ParentKnown

LEMMA UpdatePublisherStep ==
    ASSUME CatalogInv, NEW w \in Workers, UpdatePublisher(w)
    PROVE  CatalogInv'
<1>1. publishers' \subseteq Publishers /\ publishers \subseteq publishers'
    BY DEF UpdatePublisher, CatalogInv, Under, TablesTyped
<1>2. \A b \in Listed(book) : book[b].publisher \in publishers' \cup {None}
    BY <1>1 DEF CatalogInv, TablesSound, LinksKnown
<1> QED BY <1>1, <1>2, PublishersSound, SameTables, EndStep DEF UpdatePublisher

LEMMA DeletePublisherStep ==
    ASSUME CatalogInv, NEW p \in Publishers, DeletePublisher(p)
    PROVE  CatalogInv'
<1>1. \A b \in Listed(book) : book[b].publisher \in publishers' \cup {None}
    BY DEF DeletePublisher, UsesOf, CatalogInv, TablesSound, LinksKnown
<1>2. publishers' \subseteq Publishers
    BY DEF DeletePublisher, CatalogInv, TablesTyped
<1> QED BY <1>1, <1>2, PublishersSound, SameTables, NoneMoves DEF DeletePublisher

-----------------------------------------------------------------------------
\* One book is written with known links, or taken away.
LEMMA BookSound ==
    ASSUME CatalogInv, NEW b \in Books, NEW row,
           (row \in BookRecords /\ LinksKnown(row)) \/ row = Deleted,
           book' = [book EXCEPT ![b] = row],
           UNCHANGED <<category, firstSlug, publishers, authors>>
    PROVE  /\ TablesTyped' /\ TablesSound'
           /\ \A x \in Books \ {b} : book'[x] = book[x]
           /\ Listed(book)' = IF row = Deleted THEN Listed(book) \ {b}
                              ELSE Listed(book) \cup {b}
<1>1. book'[b] = row /\ \A x \in Books \ {b} : book'[x] = book[x]
    BY DEF CatalogInv, TablesTyped
<1>2. Listed(book)' = IF row = Deleted THEN Listed(book) \ {b} ELSE Listed(book) \cup {b}
    BY <1>1, RowsAreListed DEF CatalogInv, TablesTyped, Listed, Deleted
<1>3. TablesTyped'
    BY DEF CatalogInv, TablesTyped
<1>4. LinksKnown(row) => LinksKnown(row)'
    BY DEF LinksKnown, Listed
<1>5. \A x \in Listed(book) : LinksKnown(book[x])
    BY DEF CatalogInv, TablesSound
<1>6. ASSUME NEW x \in Listed(book)' PROVE LinksKnown(book[x])'
    <2>1. CASE x = b
        BY <1>1, <1>2, <2>1 DEF LinksKnown, Listed
    <2>2. CASE x # b
        <3>1. x \in Listed(book) /\ book'[x] = book[x]
            BY <1>1, <1>2, <2>2 DEF CatalogInv, TablesTyped, Listed
        <3> QED BY <1>5, <3>1 DEF LinksKnown, Listed
    <2> QED BY <2>1, <2>2
<1>7. TablesSound'
    BY <1>6 DEF CatalogInv, TablesSound, Listed, ParentKnown
<1> QED BY <1>1, <1>2, <1>3, <1>7

\* A request that does not hold the book is not disturbed.
LEMMA BookUndisturbed ==
    ASSUME CatalogInv, NEW b \in Books, NEW v \in Workers, ~Saving(v, b),
           UNCHANGED <<category, firstSlug>>,
           \A x \in Books \ {b} : book'[x] = book[x],
           Listed(book) \ {b} \subseteq Listed(book)'
    PROVE  Undisturbed(v)
<1>1. Under(v)
    BY DEF CatalogInv
<1>2. Listed(book') = Listed(book)'
    BY DEF Listed
<1> QED BY <1>1, <1>2 DEF Under, Undisturbed, Editing, Saving

LEMMA CreateBookStep ==
    ASSUME CatalogInv, NEW w \in Workers, CreateBook(w)
    PROVE  CatalogInv'
<1> DEFINE row == req[w].row
<1>1. row \in BookRecords /\ row # Deleted
    BY RowsAreListed DEF CreateBook, CatalogInv, Under
<1>2. CASE Reject(w)
    BY <1>2, RejectStep
<1>3. ASSUME NEW b \in Books, book[b] = Unused, LinksKnown(row),
             book' = [book EXCEPT ![b] = row], End(w),
             UNCHANGED <<category, firstSlug, publishers, authors>>
      PROVE  CatalogInv'
    <2> HIDE DEF row
    <2>1. /\ TablesTyped' /\ TablesSound'
          /\ \A x \in Books \ {b} : book'[x] = book[x]
          /\ Listed(book)' = Listed(book) \cup {b}
        BY <1>1, <1>3, BookSound
    <2>2. ASSUME NEW v \in Workers \ {w} PROVE Undisturbed(v)
        <3>1. ~Saving(v, b)
            BY <1>3 DEF CatalogInv, Under, Saving, Listed, Unused
        <3> QED BY <1>3, <2>1, <3>1, BookUndisturbed
    <2> QED BY <1>3, <2>1, <2>2, EndStep
<1> QED BY <1>2, <1>3 DEF CreateBook

LEMMA DeleteBookStep ==
    ASSUME CatalogInv, NEW b \in Books, DeleteBook(b)
    PROVE  CatalogInv'
<1>1. /\ TablesTyped' /\ TablesSound'
      /\ \A x \in Books \ {b} : book'[x] = book[x]
      /\ Listed(book)' = Listed(book) \ {b}
    BY BookSound DEF DeleteBook
<1>2. ASSUME NEW v \in Workers PROVE Undisturbed(v)
    <2>1. ~Saving(v, b)
        BY DEF DeleteBook, BookLocked, Saving
    <2> QED BY <1>1, <2>1, BookUndisturbed DEF DeleteBook
<1> QED BY <1>1, <1>2, NoneMoves DEF DeleteBook

LEMMA DeleteAuthorStep ==
    ASSUME CatalogInv, NEW a \in Authors, DeleteAuthor(a)
    PROVE  CatalogInv'
<1>1. /\ \A b \in Listed(book) : book[b] \in BookRecords
      /\ Listed(book) \subseteq Books
    BY DEF CatalogInv, TablesTyped, Listed, Unused, Deleted
<1>2. ASSUME NEW b \in Listed(book)
      PROVE  /\ book'[b] \in BookRecords
             /\ book'[b].publisher = book[b].publisher
             /\ book'[b].authors = book[b].authors \ {a}
             /\ book'[b].categories = book[b].categories
    <2>1. b \in Books /\ book[b] \in BookRecords
        BY <1>1
    <2>2. book'[b] = [book[b] EXCEPT !.authors = book[b].authors \ {a}]
        BY <2>1 DEF DeleteAuthor
    <2>3. book[b].authors \ {a} \in SUBSET Authors
        BY <2>1 DEF BookRecords
    <2> QED BY <2>1, <2>2, <2>3 DEF BookRecords
<1>3. \A b \in Books : b \notin Listed(book) => book'[b] = book[b]
    BY DEF DeleteAuthor
<1>4. TablesTyped'
    <2>1. book' = [b \in Books |-> book'[b]]
        BY DEF DeleteAuthor
    <2>2. \A b \in Books : book'[b] \in BookRecords \cup {Unused, Deleted}
        BY <1>2, <1>3 DEF CatalogInv, TablesTyped
    <2>3. book' \in [Books -> BookRecords \cup {Unused, Deleted}]
        BY <2>1, <2>2
    <2> QED BY <2>3 DEF DeleteAuthor, CatalogInv, TablesTyped
<1>5. Listed(book)' = Listed(book)
    BY <1>1, <1>2, <1>3, <1>4, RowsAreListed DEF CatalogInv, TablesTyped, Listed
<1>6. TablesSound'
    <2>1. \A b \in Listed(book) : LinksKnown(book[b])
        BY DEF CatalogInv, TablesSound
    <2>2. Listed(category)' = Listed(category)
        BY DEF Listed, DeleteAuthor
    <2>3. \A b \in Listed(book)' : LinksKnown(book[b])'
        BY <1>2, <1>5, <2>1, <2>2 DEF LinksKnown, DeleteAuthor
    <2> QED BY <2>3 DEF CatalogInv, TablesSound, Listed, ParentKnown, DeleteAuthor
<1>7. ASSUME NEW v \in Workers PROVE Undisturbed(v)
    <2>1. Under(v)
        BY DEF CatalogInv
    <2>2. Listed(book') = Listed(book) /\ UNCHANGED <<category, firstSlug>>
        BY <1>5 DEF Listed, DeleteAuthor
    <2> QED BY <1>2, <2>1, <2>2 DEF Under, Undisturbed, Editing, Saving
<1> QED BY <1>4, <1>6, <1>7, NoneMoves DEF DeleteAuthor

-----------------------------------------------------------------------------
LEMMA LockStep ==
    ASSUME CatalogInv, NEW w \in Workers, LockBook(w)
    PROVE  CatalogInv'
<1>1. CASE Reject(w)
    BY <1>1, RejectStep
<1>2. CASE /\ req[w].target \in Listed(book)
           /\ step' = [step EXCEPT ![w] = "save"]
           /\ copy' = [copy EXCEPT ![w] = book[req[w].target]]
           /\ UNCHANGED <<tables, req>>
    <2>1. /\ step[w] = "lock" /\ step'[w] = "save"
          /\ req'[w] = req[w] /\ copy'[w] = book[req[w].target]
        BY <1>2 DEF LockBook, CatalogInv, WorkersTyped
    <2>2. \A v \in Workers \ {w} :
             step'[v] = step[v] /\ req'[v] = req[v] /\ copy'[v] = copy[v]
        BY <1>2 DEF CatalogInv, WorkersTyped
    <2>3. WorkersTyped'
        BY <1>2 DEF CatalogInv, WorkersTyped, Steps
    <2>4. Under(w)'
        BY <1>2, <2>1 DEF CatalogInv, Under, Listed, tables
    <2>5. ASSUME NEW v \in Workers \ {w} PROVE Agree(v, w)' /\ Agree(w, v)'
        <3>1. step[v] = "save" => req[v].target # req[w].target
            BY DEF LockBook, BookLocked
        <3> QED BY <2>1, <2>2, <3>1 DEF Agree, Editing, Saving
    <2>6. TablesTyped' /\ TablesSound'
        BY <1>2, TablesUntouched
    <2> QED BY <1>2, <2>2, <2>3, <2>4, <2>5, <2>6, SameTables, OneMoves DEF tables
<1> QED BY <1>1, <1>2 DEF LockBook

\* The row that update_book writes.
LEMMA SentTyped ==
    ASSUME CatalogInv, NEW w \in Workers, step[w] = "save"
    PROVE  /\ req[w].target \in Books /\ req[w].target \in Listed(book)
           /\ BookRow(Sent(w, "publisher"), Sent(w, "authors"), Sent(w, "categories"))
                \in BookRecords
<1>1. PICK b \in Books : b = req[w].target /\ b \in Listed(book)
    BY DEF CatalogInv, Under
<1>2. book[b] \in BookRecords /\ req[w].row \in BookRecords
    BY <1>1 DEF CatalogInv, Under, TablesTyped, Listed, Unused, Deleted
<1>3. copy[w].publisher = book[b].publisher
    BY <1>1 DEF CatalogInv, Under
<1> QED BY <1>1, <1>2, <1>3 DEF Sent, BookRow, BookRecords

LEMMA SaveStep ==
    ASSUME CatalogInv, NEW w \in Workers, SaveBook(w)
    PROVE  CatalogInv'
<1>1. PICK b \in Books : b = req[w].target /\ b \in Listed(book)
    BY SentTyped DEF SaveBook
<1> DEFINE row == BookRow(Sent(w, "publisher"), Sent(w, "authors"), Sent(w, "categories"))
<1>2. row \in BookRecords /\ row # Deleted
    BY SentTyped, RowsAreListed DEF SaveBook
<1>3. CASE Reject(w)
    BY <1>3, RejectStep
<1>4. CASE /\ LinksKnown(row)
           /\ book' = [book EXCEPT ![req[w].target] = row]
           /\ End(w)
           /\ UNCHANGED <<category, firstSlug, publishers, authors>>
    <2> HIDE DEF row
    <2>1. /\ TablesTyped' /\ TablesSound'
          /\ \A x \in Books \ {b} : book'[x] = book[x]
          /\ Listed(book)' = Listed(book) \cup {b}
        BY <1>1, <1>2, <1>4, BookSound
    <2>2. ASSUME NEW v \in Workers \ {w} PROVE Undisturbed(v)
        <3>1. ~Saving(v, b)
            BY <1>1 DEF SaveBook, CatalogInv, Agree, Saving
        <3> QED BY <1>4, <2>1, <3>1, BookUndisturbed
    <2> QED BY <1>4, <2>1, <2>2, EndStep
<1> QED BY <1>3, <1>4 DEF SaveBook

-----------------------------------------------------------------------------
\* References, slugs and the objects in memory fit each other at any interleaving
\* of the catalogue's requests (books/views.py, books/services.py).
THEOREM CatalogIsConsistent == CatalogSpec => []CatalogInv
<1>1. CatalogInv /\ [CatalogNext]_catalogVars => CatalogInv'
    <2> SUFFICES ASSUME CatalogInv, [CatalogNext]_catalogVars PROVE CatalogInv'
        OBVIOUS
    <2>1. ASSUME NEW w \in Workers, Abort(w) PROVE CatalogInv'
        BY <2>1, RejectStep DEF Abort
    <2>2. CASE UNCHANGED catalogVars
        <3>1. TablesTyped' /\ TablesSound' /\ \A v \in Workers : Undisturbed(v)
            BY <2>2, TablesUntouched, SameTables DEF catalogVars, tables
        <3> QED BY <2>2, <3>1, NoneMoves DEF catalogVars
    <2> QED BY <2>1, <2>2, RequestStep, InsertStep, UpdateStep, UpdatePublisherStep,
               LockStep, SaveStep, DeleteCategoryStep, DeleteAuthorStep,
               DeletePublisherStep, DeleteBookStep, CreateBookStep DEF CatalogNext
<1> QED BY <1>1, InitHolds, PTL DEF CatalogSpec

\* No row refers to one that is missing (books/models.py 44-50, 78-94).
THEOREM ReferencesAreKept == CatalogSpec => []CatalogTypeOK
<1>1. CatalogInv => CatalogTypeOK
    <2> SUFFICES ASSUME CatalogInv PROVE CatalogTypeOK
        OBVIOUS
    <2>1. ASSUME NEW c \in Listed(category) PROVE category[c].name \in Names
        BY DEF CatalogInv, TablesTyped, Listed, Unused, Deleted, CategoryRows
    <2> QED BY <2>1 DEF CatalogInv, TablesTyped, TablesSound, WorkersTyped, Steps,
                        CatalogTypeOK
<1> QED BY <1>1, CatalogIsConsistent, PTL

-----------------------------------------------------------------------------
\* A slug finds one category, and a category keeps the slug it was inserted with: no
\* rename, stale save or return from deletion gives it another one
\* (books/models.py 56-59).
THEOREM SlugStaysAddress == CatalogSpec => []SlugIsAddress
<1>1. CatalogInv => SlugIsAddress
    BY DEF CatalogInv, TablesSound, SlugIsAddress
<1> QED BY <1>1, CatalogIsConsistent, PTL

-----------------------------------------------------------------------------
\* What update_book changes was sent: the rest is what the locked row or the link
\* table says.
LEMMA SaveAsked ==
    ASSUME CatalogInv, NEW w \in Workers, SaveBook(w),
           NEW b \in Listed(book), NEW f \in Fields, book'[b][f] # book[b][f]
    PROVE  /\ step[w] = "save" /\ step'[w] = "idle"
           /\ req[w].target = b /\ f \in req[w].fields
<1> DEFINE row == BookRow(Sent(w, "publisher"), Sent(w, "authors"), Sent(w, "categories"))
<1>1. step[w] = "save" /\ step'[w] = "idle"
    BY DEF SaveBook, Reject, End, CatalogInv, WorkersTyped
<1>2. PICK x \in Books : x = req[w].target
    BY SentTyped, <1>1
<1>3. b \in Books
    BY DEF CatalogInv, TablesTyped, Listed
<1>4. book' = [book EXCEPT ![x] = row]
    BY <1>2 DEF SaveBook, Reject, tables
<1>5. x = b /\ book'[b] = row
    BY <1>3, <1>4 DEF CatalogInv, TablesTyped
<1>6. row[f] = Sent(w, f)
    BY DEF Fields, BookRow
<1>7. f \notin req[w].fields => Sent(w, f) = book[b][f]
    BY <1>1, <1>2, <1>5 DEF CatalogInv, Under, Sent, Fields
<1> QED BY <1>1, <1>2, <1>5, <1>6, <1>7

\* An edit of a book changes what was sent, whatever else happens meanwhile, and a
\* deletion takes its own links (books/services.py 25-54).
THEOREM EditsChangeWhatTheySend == CatalogSpec => OnlyAskedChanges
<1>1. CatalogInv /\ CatalogNext => EditStep
    <2> SUFFICES ASSUME CatalogInv, CatalogNext,
                        NEW b \in Listed(book), b \in Listed(book)',
                        NEW f \in Fields, book'[b][f] # book[b][f]
                 PROVE  \/ \E w \in Workers : /\ step[w] = "save" /\ step'[w] = "idle"
                                              /\ req[w].target = b /\ f \in req[w].fields
                        \/ f = "authors" /\ book[b][f] \ book'[b][f] = authors \ authors'
                        \/ /\ f = "categories"
                           /\ book[b][f] \ book'[b][f] = Listed(category) \ Listed(category)'
        BY DEF EditStep
    <2>1. b \in Books /\ book[b] \in BookRecords /\ book'[b] # book[b]
        BY DEF CatalogInv, TablesTyped, Listed, Unused, Deleted
    <2>2. \/ \E w \in Workers : SaveBook(w)
          \/ \E a \in Authors : DeleteAuthor(a)
          \/ \E c \in Categories : DeleteCategory(c)
        <3>1. \A w \in Workers :
                /\ ~Request(w)
                /\ ~(InsertCategory(w) \/ UpdateCategory(w) \/ UpdatePublisher(w)
                       \/ LockBook(w) \/ Abort(w) \/ Reject(w))
            BY <2>1 DEF Request, StartCreateCategory, StartEditCategory, StartEditPublisher,
                   StartEditBook, StartCreateBook, Begin, InsertCategory, UpdateCategory,
                   StoreCategory, UpdatePublisher, LockBook, Abort, Reject, tables
        <3>2. \A p \in Publishers : ~DeletePublisher(p)
            BY <2>1 DEF DeletePublisher
        <3>3. \A x \in Books : ~DeleteBook(x)
            BY <2>1 DEF DeleteBook, Listed, Deleted
        <3>4. ASSUME NEW w \in Workers, CreateBook(w) PROVE FALSE
            <4>1. PICK x \in Books : book[x] = Unused /\ book' = [book EXCEPT ![x] = req[w].row]
                BY <3>1, <3>4 DEF CreateBook
            <4>2. x # b
                BY <2>1, <4>1, RowsAreListed
            <4> QED BY <2>1, <4>1, <4>2
        <3> QED BY <3>1, <3>2, <3>3, <3>4 DEF CatalogNext
    <2>3. ASSUME NEW a \in Authors, DeleteAuthor(a)
          PROVE  f = "authors" /\ book[b][f] \ book'[b][f] = authors \ authors'
        <3>1. book'[b] = [book[b] EXCEPT !.authors = book[b].authors \ {a}]
            BY <2>1, <2>3 DEF DeleteAuthor
        <3>2. f = "authors" /\ book'[b][f] = book[b][f] \ {a}
            BY <2>1, <3>1 DEF BookRecords, Fields
        <3>3. authors \ authors' = {a}
            BY <2>3 DEF DeleteAuthor
        <3> QED BY <3>2, <3>3
    <2>4. ASSUME NEW c \in Categories, DeleteCategory(c)
          PROVE  /\ f = "categories"
                 /\ book[b][f] \ book'[b][f] = Listed(category) \ Listed(category)'
        <3>1. book'[b] = [book[b] EXCEPT !.categories = book[b].categories \ {c}]
            BY <2>1, <2>4 DEF DeleteCategory
        <3>2. f = "categories" /\ book'[b][f] = book[b][f] \ {c}
            BY <2>1, <3>1 DEF BookRecords, Fields
        <3>3. Listed(category) \ Listed(category)' = {c}
            BY <2>4, CategoryDeleted DEF DeleteCategory
        <3> QED BY <3>2, <3>3
    <2> QED BY <2>2, <2>3, <2>4, SaveAsked
<1>2. CatalogInv /\ [CatalogNext]_catalogVars => [EditStep]_catalogVars
    BY <1>1
<1> QED BY <1>2, CatalogIsConsistent, PTL DEF CatalogSpec, OnlyAskedChanges


-----------------------------------------------------------------------------
(***************************************************************************)
(* Names.  validate_name looks for the name without a lock, so what it has *)
(* found is kept only as long as nobody else carries the same name.        *)
(***************************************************************************)

\* Nobody but the category that is edited has the name that w is about to store.
NameFree(w) ==
    Naming(w) => \A d \in Listed(category) :
        Fold[category[d].name] = Fold[copy[w].name] => step[w] = "update" /\ req[w].target = d

NamesInv == NamesDistinct /\ \A w \in Workers : NameFree(w)

\* The categories there are keep their names, and no request starts to name one.
Unnamed ==
    /\ Listed(category)' \subseteq Listed(category)
    /\ \A d \in Listed(category)' : category'[d].name = category[d].name
    /\ \A v \in Workers : \/ ~Naming(v)'
                          \/ UNCHANGED <<step[v], req[v], copy[v]>>

\* The request of w passes the test of its name.
Tested(w) ==
    /\ UNCHANGED category
    /\ \A v \in Workers \ {w} : UNCHANGED <<step[v], req[v], copy[v]>>
    /\ NameFree(w)'

\* The request of w stores it.
Stored(w, c) ==
    /\ Naming(w) /\ (step[w] = "update" => req[w].target = c)
    /\ step[w] = "insert" => c \notin Listed(category)
    /\ Listed(category)' = Listed(category) \cup {c}
    /\ \A d \in Listed(category)' :
         category'[d].name = IF d = c THEN copy[w].name ELSE category[d].name
    /\ ~Naming(w)'
    /\ \A v \in Workers \ {w} : UNCHANGED <<step[v], req[v], copy[v]>>

LEMMA UnnamedKeeps ==
    ASSUME NamesInv, Unnamed
    PROVE  NamesInv'
BY DEF NamesInv, NamesDistinct, Unnamed, NameFree, Naming

LEMMA TestedKeeps ==
    ASSUME NamesInv, NEW w \in Workers, Tested(w)
    PROVE  NamesInv'
BY DEF NamesInv, NamesDistinct, Tested, NameFree, Naming, Listed

LEMMA StoredKeeps ==
    ASSUME NamesInv, NamesApart, NEW w \in Workers, NEW c \in Categories, Stored(w, c)
    PROVE  NamesInv'
<1>1. \A d \in Listed(category) \ {c} : Fold[category[d].name] # Fold[copy[w].name]
    BY DEF NamesInv, NameFree, Stored, Naming
<1>2. NamesDistinct'
    BY <1>1 DEF NamesInv, NamesDistinct, Stored
<1>3. ASSUME NEW v \in Workers PROVE NameFree(v)'
    <2>1. CASE v = w
        BY <2>1 DEF Stored, NameFree
    <2>2. CASE v # w
        <3> SUFFICES ASSUME Naming(v), NEW d \in Listed(category)',
                            Fold[category'[d].name] = Fold[copy[v].name]
                     PROVE  step[v] = "update" /\ req[v].target = d
            BY <2>2 DEF Stored, NameFree, Naming
        <3>1. CASE d = c
            BY <2>2, <3>1 DEF NamesApart, Stored
        <3>2. CASE d # c
            BY <3>2 DEF NamesInv, NameFree, Stored
        <3> QED BY <3>1, <3>2
    <2> QED BY <2>1, <2>2
<1> QED BY <1>2, <1>3 DEF NamesInv

-----------------------------------------------------------------------------
LEMMA EndUnnamed ==
    ASSUME CatalogInv, NEW w \in Workers, End(w), UNCHANGED category
    PROVE  Unnamed
<1>1. step'[w] = "idle"
    BY DEF CatalogInv, WorkersTyped, End
<1>2. \A v \in Workers \ {w} : UNCHANGED <<step[v], req[v], copy[v]>>
    BY DEF CatalogInv, WorkersTyped, End
<1> QED BY <1>1, <1>2 DEF Unnamed, Naming, Listed

\* Another statement is reached, and it stores no name.
LEMMA MoveUnnamed ==
    ASSUME CatalogInv, UNCHANGED category, NEW w \in Workers, ~Naming(w)',
           \A v \in Workers \ {w} : UNCHANGED <<step[v], req[v], copy[v]>>
    PROVE  Unnamed
BY DEF Unnamed, Listed

LEMMA BeginMoves ==
    ASSUME CatalogInv, NEW w \in Workers, NEW first \in {"insert", "update", "add", "lock"},
           NEW request, NEW object, Begin(w, first, request, object)
    PROVE  /\ step'[w] = first /\ req'[w] = request /\ copy'[w] = object
           /\ UNCHANGED category
           /\ \A v \in Workers \ {w} : UNCHANGED <<step[v], req[v], copy[v]>>
BY DEF CatalogInv, WorkersTyped, Begin, tables

LEMMA RequestNames ==
    ASSUME CatalogInv, NamesInv, NEW w \in Workers, Request(w)
    PROVE  Unnamed \/ Tested(w)
<1>1. ASSUME NEW n \in Names, NEW p \in Parents, StartCreateCategory(w, n, p)
      PROVE  Tested(w)
    <2>1. \A d \in Listed(category) : Fold[category[d].name] # Fold[n]
        <3>1. None \notin Listed(category)
            BY KeysAssumption DEF CatalogInv, TablesTyped, Listed
        <3> QED BY <1>1, <3>1 DEF StartCreateCategory, NameTaken
    <2>2. /\ copy'[w].name = n /\ UNCHANGED category
          /\ \A v \in Workers \ {w} : UNCHANGED <<step[v], req[v], copy[v]>>
        BY <1>1, BeginMoves DEF StartCreateCategory, CategoryRow
    <2> QED BY <2>1, <2>2 DEF Tested, NameFree, Listed
<1>2. ASSUME NEW n \in Names, NEW p \in Parents, NEW c \in Categories,
             StartEditCategory(w, c, n, p)
      PROVE  Tested(w)
    <2> DEFINE request == [op |-> "category", target |-> c]
               row == CategoryRow(n, category[c].slug, p)
    <2>1. Begin(w, "update", request, row) /\ request.target = c /\ row.name = n
        BY <1>2 DEF StartEditCategory, CategoryRow
    <2>2. \A d \in Listed(category) : Fold[category[d].name] = Fold[n] => d = c
        BY <1>2 DEF StartEditCategory, NameTaken, NamesInv, NamesDistinct
    <2> HIDE DEF request, row
    <2>3. /\ step'[w] = "update" /\ req'[w].target = c /\ copy'[w].name = n
          /\ UNCHANGED category
          /\ \A v \in Workers \ {w} : UNCHANGED <<step[v], req[v], copy[v]>>
        BY <2>1, BeginMoves
    <2> QED BY <2>2, <2>3 DEF Tested, NameFree, Listed
<1>3. ASSUME NEW p \in Publishers, StartEditPublisher(w, p)
      PROVE  Unnamed
    <2> DEFINE request == [op |-> "publisher", target |-> p]
    <2>1. Begin(w, "update", request, Unused) /\ request.op = "publisher"
        BY <1>3 DEF StartEditPublisher
    <2> HIDE DEF request
    <2>2. /\ step'[w] = "update" /\ req'[w].op = "publisher" /\ UNCHANGED category
          /\ \A v \in Workers \ {w} : UNCHANGED <<step[v], req[v], copy[v]>>
        BY <2>1, BeginMoves
    <2>3. ~Naming(w)'
        BY <2>2 DEF Naming
    <2> QED BY <2>2, <2>3, MoveUnnamed
<1>4. ASSUME NEW b \in Books, NEW fields \in Requests, NEW row \in BookRows,
             StartEditBook(w, b, fields, row)
      PROVE  Unnamed
    <2> DEFINE request == [op |-> "book", target |-> b, fields |-> fields, row |-> row]
    <2>1. Begin(w, "lock", request, Unused)
        BY <1>4 DEF StartEditBook
    <2> HIDE DEF request
    <2>2. /\ step'[w] = "lock" /\ UNCHANGED category
          /\ \A v \in Workers \ {w} : UNCHANGED <<step[v], req[v], copy[v]>>
        BY <2>1, BeginMoves
    <2>3. ~Naming(w)'
        BY <2>2 DEF Naming
    <2> QED BY <2>2, <2>3, MoveUnnamed
<1>5. ASSUME NEW row \in BookRows, StartCreateBook(w, row)
      PROVE  Unnamed
    <2> DEFINE request == [op |-> "book", row |-> row]
    <2>1. Begin(w, "add", request, Unused)
        BY <1>5 DEF StartCreateBook
    <2> HIDE DEF request
    <2>2. /\ step'[w] = "add" /\ UNCHANGED category
          /\ \A v \in Workers \ {w} : UNCHANGED <<step[v], req[v], copy[v]>>
        BY <2>1, BeginMoves
    <2>3. ~Naming(w)'
        BY <2>2 DEF Naming
    <2> QED BY <2>2, <2>3, MoveUnnamed
<1> QED BY <1>1, <1>2, <1>3, <1>4, <1>5 DEF Request

LEMMA StoreNames ==
    ASSUME CatalogInv, NEW w \in Workers, NEW c \in Categories, StoreCategory(w, c),
           Naming(w), step[w] = "update" => req[w].target = c,
           step[w] = "insert" => category[c] = Unused
    PROVE  Unnamed \/ Stored(w, c)
<1> DEFINE row == WithSlug(copy[w])
<1>1. copy[w] \in CategoryRows
    BY DEF CatalogInv, Under, Naming
<1>2. row.name = copy[w].name /\ row.state = "listed"
    BY <1>1 DEF WithSlug, CategoryRows
<1>3. CASE Reject(w)
    BY <1>3, EndUnnamed DEF Reject, tables
<1>4. CASE category' = [category EXCEPT ![c] = row] /\ End(w)
    <2> HIDE DEF row
    <2>1. Listed(category)' = Listed(category) \cup {c}
        BY <1>2, <1>4 DEF CatalogInv, TablesTyped, Listed
    <2>2. \A d \in Listed(category)' :
             category'[d].name = IF d = c THEN copy[w].name ELSE category[d].name
        BY <1>2, <1>4, <2>1 DEF CatalogInv, TablesTyped, Listed
    <2>3. step'[w] = "idle"
          /\ \A v \in Workers \ {w} : UNCHANGED <<step[v], req[v], copy[v]>>
        BY <1>4 DEF CatalogInv, WorkersTyped, End
    <2>4. step[w] = "insert" => c \notin Listed(category)
        BY DEF Listed, Unused
    <2> QED BY <2>1, <2>2, <2>3, <2>4 DEF Stored, Naming
<1> QED BY <1>3, <1>4 DEF StoreCategory

LEMMA DeletionUnnamed ==
    ASSUME CatalogInv, NEW c \in Categories, DeleteCategory(c)
    PROVE  Unnamed
<1>1. Listed(category)' = Listed(category) \ {c}
    BY CategoryDeleted
<1>2. ASSUME NEW d \in Listed(category) \ {c}
      PROVE  category'[d].name = category[d].name
    <2>1. d \in Categories /\ category[d] \in CategoryRows
        BY DEF CatalogInv, TablesTyped, Listed, Unused, Deleted
    <2>2. category'[d] \in {category[d], [category[d] EXCEPT !.parent = None]}
        BY <2>1 DEF DeleteCategory
    <2> QED BY <2>1, <2>2 DEF CategoryRows
<1> QED BY <1>1, <1>2 DEF Unnamed, DeleteCategory

\* Every step tests a name, stores one, or does neither.
LEMMA NameMoves ==
    ASSUME CatalogInv, NamesInv, [CatalogNext]_catalogVars
    PROVE  \/ Unnamed
           \/ \E w \in Workers : Tested(w) \/ \E c \in Categories : Stored(w, c)
<1>1. ASSUME UNCHANGED category, UNCHANGED <<step, req, copy>> PROVE Unnamed
    BY <1>1 DEF Unnamed, Listed
<1>2. ASSUME NEW w \in Workers, InsertCategory(w)
      PROVE  Unnamed \/ \E c \in Categories : Stored(w, c)
    BY <1>2, StoreNames DEF InsertCategory, Naming
<1>3. ASSUME NEW w \in Workers, UpdateCategory(w)
      PROVE  Unnamed \/ \E c \in Categories : Stored(w, c)
    <2>1. req[w].target \in Categories
        BY <1>3 DEF UpdateCategory, CatalogInv, Under
    <2> QED BY <1>3, <2>1, StoreNames DEF UpdateCategory, Naming
<1>4. ASSUME NEW w \in Workers, LockBook(w) PROVE Unnamed
    <2>1. CASE Reject(w)
        BY <2>1, EndUnnamed DEF Reject, tables
    <2>2. CASE /\ step' = [step EXCEPT ![w] = "save"]
               /\ copy' = [copy EXCEPT ![w] = book[req[w].target]]
               /\ UNCHANGED <<tables, req>>
        <3>1. step'[w] = "save"
              /\ \A v \in Workers \ {w} : UNCHANGED <<step[v], req[v], copy[v]>>
            BY <2>2 DEF CatalogInv, WorkersTyped
        <3> QED BY <2>2, <3>1, MoveUnnamed DEF Naming, tables
    <2> QED BY <1>4, <2>1, <2>2 DEF LockBook
<1>5. ASSUME NEW w \in Workers, UpdatePublisher(w) \/ CreateBook(w) \/ SaveBook(w) \/ Abort(w)
      PROVE  Unnamed
    <2>1. End(w) /\ UNCHANGED category
        BY <1>5 DEF UpdatePublisher, CreateBook, SaveBook, Abort, Reject, tables
    <2> QED BY <2>1, EndUnnamed
<1> QED BY <1>1, <1>2, <1>3, <1>4, <1>5, RequestNames, DeletionUnnamed
        DEF CatalogNext, catalogVars, tables, DeleteAuthor, DeletePublisher, DeleteBook

\* Category names differ, in whatever case they are written, unless two requests carry
\* one name at a time (books/serializers.py 56-64).
THEOREM NamesStayDistinct == CatalogSpec /\ []NamesApart => []NamesDistinct
<1>1. CatalogInit => NamesInv
    BY DEF CatalogInit, NamesInv, NamesDistinct, NameFree, Naming, Listed, Unused
<1>2. CatalogInv /\ NamesInv /\ NamesApart /\ [CatalogNext]_catalogVars => NamesInv'
    BY NameMoves, UnnamedKeeps, TestedKeeps, StoredKeeps
<1>3. NamesInv => NamesDistinct
    BY DEF NamesInv
<1> QED BY <1>1, <1>2, <1>3, CatalogIsConsistent, PTL DEF CatalogSpec

\* One request at a time keeps them apart.
THEOREM OneByOneNamesDiffer ==
    ASSUME \A v, w \in Workers : v = w
    PROVE  CatalogSpec => []NamesDistinct
<1>1. NamesApart
    BY DEF NamesApart
<1> QED BY <1>1, NamesStayDistinct, PTL
=============================================================================
