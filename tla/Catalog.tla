------------------------------ MODULE Catalog ------------------------------
(***************************************************************************)
(* The catalogue: categories, authors and publishers, edited by the plain  *)
(* views of books/views.py, and the book rows that refer to them, edited   *)
(* by books/services.py.  The plain views read a row, test the request     *)
(* against the tables, and save the whole row they read: three moments     *)
(* with no lock and no transaction around them.  update_book locks.        *)
(*                                                                         *)
(* A book is its publisher (which stands for every column of the row), its *)
(* authors and its categories; stock is in Library.tla.                    *)
(***************************************************************************)
EXTENDS Naturals

CONSTANTS
    Categories, Publishers, Authors, Books,   \* primary keys
    Names,     \* names a client can send for a category
    Fold,      \* Fold[n]: what name__iexact compares
    SlugOf,    \* SlugOf[n]: slugify(n), which may be empty
    Requests,  \* bound: the sets of fields that edits of a book send
    Workers    \* gunicorn workers

VARIABLES
    category,   \* category[c]: the Category row
    firstSlug,  \* history: the slug category[c] was inserted with
    publishers, \* publishers that exist
    authors,    \* authors that exist
    book,       \* book[b]: the Book row and its rows of the two link tables
    step,       \* step[w]: idle, or the statement that comes next
    req,        \* req[w]: the service and its arguments
    copy        \* copy[w]: the object in memory

tables == <<category, firstSlug, publishers, authors, book>>
catalogVars == <<tables, step, req, copy>>

None == "none"        \* null, which is no key

ASSUME KeysAssumption == None \notin Categories

NoSlug == ""
Unused == [state |-> "unused"]   \* a primary key still to be handed out
Deleted == [state |-> "deleted"]
NoReq == [op |-> "none"]

CategoryRow(n, s, p) == [state |-> "listed", name |-> n, slug |-> s, parent |-> p]
BookRow(p, as, cs) ==
    [state |-> "listed", publisher |-> p, authors |-> as, categories |-> cs]

Listed(table) == {k \in DOMAIN table : table[k].state = "listed"}

\* The queries of the validators.
NameTaken(n, c) ==
    \E d \in Listed(category) \ {c} : Fold[category[d].name] = Fold[n]
ParentKnown(p) == p \in Listed(category) \cup {None}
LinksKnown(row) ==
    /\ row.publisher \in publishers \cup {None}
    /\ row.authors \subseteq authors
    /\ row.categories \subseteq Listed(category)

CatalogInit ==
    /\ category = [c \in Categories |-> Unused]
    /\ firstSlug = [c \in Categories |-> NoSlug]
    /\ publishers = Publishers
    /\ authors = Authors
    /\ book = [b \in Books |-> Unused]
    /\ step = [w \in Workers |-> "idle"]
    /\ req = [w \in Workers |-> NoReq]
    /\ copy = [w \in Workers |-> Unused]

-----------------------------------------------------------------------------
Begin(w, first, request, object) ==
    /\ step[w] = "idle"
    /\ step' = [step EXCEPT ![w] = first]
    /\ req' = [req EXCEPT ![w] = request]
    /\ copy' = [copy EXCEPT ![w] = object]
    /\ UNCHANGED tables

End(w) ==
    /\ step' = [step EXCEPT ![w] = "idle"]
    /\ req' = [req EXCEPT ![w] = NoReq]
    /\ copy' = [copy EXCEPT ![w] = Unused]

\* An error answers the request, or the worker dies.
Reject(w) == End(w) /\ UNCHANGED tables

Abort(w) == step[w] # "idle" /\ Reject(w)

-----------------------------------------------------------------------------
(***************************************************************************)
(* CategoryViewSet.  A category is found by its slug, so one whose slug is *)
(* empty is out of reach.                                                  *)
(***************************************************************************)
StartCreateCategory(w, n, p) ==
    /\ ~NameTaken(n, None) /\ ParentKnown(p)
    /\ Begin(w, "insert", [op |-> "category"], CategoryRow(n, NoSlug, p))

\* A PATCH sends a name or a parent, and what is sent is validated.  (That it does
\* not send both is a bound.)
StartEditCategory(w, c, n, p) ==
    /\ c \in Listed(category) /\ category[c].slug # NoSlug
    /\ \/ n = category[c].name /\ ParentKnown(p)
       \/ ~NameTaken(n, c) /\ p = category[c].parent
    /\ Begin(w, "update", [op |-> "category", target |-> c],
             CategoryRow(n, category[c].slug, p))

\* Mutation variant: the slug follows the name.
WithSlug_Always(row) == [row EXCEPT !.slug = SlugOf[row.name]]

\* Category.save fills in an empty slug, and leaves the others.
WithSlug(row) == IF row.slug = NoSlug THEN [row EXCEPT !.slug = SlugOf[row.name]] ELSE row

\* Unique name, unique slug, foreign key of the parent.
Storable(c, row) ==
    /\ \A d \in Listed(category) \ {c} : /\ category[d].name # row.name
                                         /\ category[d].slug # row.slug
    /\ ParentKnown(row.parent) \/ row.parent = c

StoreCategory(w, c) ==
    LET row == WithSlug(copy[w]) IN
    IF Storable(c, row)
    THEN /\ category' = [category EXCEPT ![c] = row]
         /\ firstSlug' = [firstSlug EXCEPT ![c] = IF category[c] = Unused THEN row.slug ELSE @]
         /\ End(w)
         /\ UNCHANGED <<publishers, authors, book>>
    ELSE Reject(w)

InsertCategory(w) ==
    /\ step[w] = "insert"
    /\ \E c \in Categories : category[c] = Unused /\ StoreCategory(w, c)

\* Model.save() writes every column of the copy.  When the UPDATE finds no row it
\* inserts one: an edit under way brings a deleted category back.
UpdateCategory(w) ==
    /\ step[w] = "update" /\ req[w].op = "category"
    /\ StoreCategory(w, req[w].target)

\* Mutation variant: the row alone is deleted.
DeleteCategory_RowOnly(c) ==
    /\ c \in Listed(category) /\ category[c].slug # NoSlug
    /\ category' = [category EXCEPT ![c] = Deleted]
    /\ UNCHANGED <<firstSlug, publishers, authors, book, step, req, copy>>

\* on_delete=SET_NULL for its children; its rows of the link table go with it.
DeleteCategory(c) ==
    /\ c \in Listed(category) /\ category[c].slug # NoSlug
    /\ category' = [d \in Categories |->
                      IF d = c THEN Deleted
                      ELSE IF d \in Listed(category) /\ category[d].parent = c
                           THEN [category[d] EXCEPT !.parent = None]
                           ELSE category[d]]
    /\ book' = [b \in Books |->
                  IF b \in Listed(book)
                  THEN [book[b] EXCEPT !.categories = @ \ {c}] ELSE book[b]]
    /\ UNCHANGED <<firstSlug, publishers, authors, step, req, copy>>

-----------------------------------------------------------------------------
(***************************************************************************)
(* PublisherViewSet and AuthorViewSet, as far as books see them.           *)
(***************************************************************************)
StartEditPublisher(w, p) ==
    /\ p \in publishers
    /\ Begin(w, "update", [op |-> "publisher", target |-> p], Unused)

\* Saved in place, or inserted again.
UpdatePublisher(w) ==
    /\ step[w] = "update" /\ req[w].op = "publisher"
    /\ publishers' = publishers \cup {req[w].target}
    /\ End(w)
    /\ UNCHANGED <<category, firstSlug, authors, book>>

UsesOf(p) == {b \in Listed(book) : book[b].publisher = p}

\* on_delete=PROTECT: the collector looks for books, and when one comes in between
\* the foreign key refuses.
DeletePublisher(p) ==
    /\ p \in publishers
    /\ UsesOf(p) = {}
    /\ publishers' = publishers \ {p}
    /\ UNCHANGED <<category, firstSlug, authors, book, step, req, copy>>

DeleteAuthor(a) ==
    /\ a \in authors
    /\ authors' = authors \ {a}
    /\ book' = [b \in Books |->
                  IF b \in Listed(book)
                  THEN [book[b] EXCEPT !.authors = @ \ {a}] ELSE book[b]]
    /\ UNCHANGED <<category, firstSlug, publishers, step, req, copy>>

-----------------------------------------------------------------------------
(***************************************************************************)
(* create_book and update_book: one transaction each, that of update_book  *)
(* on the locked row.                                                      *)
(***************************************************************************)
Fields == {"publisher", "authors", "categories"}
Blank == BookRow(None, {}, {})

\* The serializer finds publisher, authors and categories.  (That a key is left
\* bounds the requests.)
StartCreateBook(w, row) ==
    /\ \E b \in Books : book[b] = Unused
    /\ LinksKnown(row)
    /\ Begin(w, "add", [op |-> "book", row |-> row], Unused)

\* Book.objects.create, authors.set, categories.set: one transaction, refused by
\* a deferred foreign key when what was found is gone.
CreateBook(w) ==
    /\ step[w] = "add"
    /\ IF LinksKnown(req[w].row)
       THEN /\ \E b \in Books :
                 /\ book[b] = Unused
                 /\ book' = [book EXCEPT ![b] = req[w].row]
            /\ End(w)
            /\ UNCHANGED <<category, firstSlug, publishers, authors>>
       ELSE Reject(w)

\* get_object and the serializer, with the fields the client sends; of the object
\* only the key is used.
StartEditBook(w, b, fields, row) ==
    /\ b \in Listed(book)
    /\ LinksKnown(row)
    /\ \A f \in Fields \ fields : row[f] = Blank[f]
    /\ Begin(w, "lock", [op |-> "book", target |-> b, fields |-> fields, row |-> row],
             Unused)

BookLocked(b) == \E w \in Workers : step[w] = "save" /\ req[w].target = b

\* Book.objects.select_for_update().get(pk=book.pk)
LockBook(w) ==
    /\ step[w] = "lock"
    /\ ~BookLocked(req[w].target)
    /\ IF req[w].target \in Listed(book)
       THEN /\ step' = [step EXCEPT ![w] = "save"]
            /\ copy' = [copy EXCEPT ![w] = book[req[w].target]]
            /\ UNCHANGED <<tables, req>>
       ELSE Reject(w)

\* Mutation variant: pop("authors", []), as in create_book.
Sent_Blank(w, f) == req[w].row[f]

\* A field that is not sent keeps what the locked row, or the link table, says.
Sent(w, f) ==
    IF f \in req[w].fields THEN req[w].row[f]
    ELSE IF f = "publisher" THEN copy[w][f] ELSE book[req[w].target][f]

\* book.save(), authors.set, categories.set: one transaction.
SaveBook(w) ==
    /\ step[w] = "save"
    /\ LET row == BookRow(Sent(w, "publisher"), Sent(w, "authors"), Sent(w, "categories"))
       IN  IF LinksKnown(row)
           THEN /\ book' = [book EXCEPT ![req[w].target] = row]
                /\ End(w)
                /\ UNCHANGED <<category, firstSlug, publishers, authors>>
           ELSE Reject(w)

\* Records that protect a title are in Library.tla; here it may be deleted.
DeleteBook(b) ==
    /\ b \in Listed(book) /\ ~BookLocked(b)
    /\ book' = [book EXCEPT ![b] = Deleted]
    /\ UNCHANGED <<category, firstSlug, publishers, authors, step, req, copy>>

-----------------------------------------------------------------------------
Parents == Categories \cup {None}
BookRows == {BookRow(p, as, cs) : p \in Publishers \cup {None},
                                  as \in SUBSET Authors, cs \in SUBSET Categories}

Request(w) ==
    \/ \E n \in Names, p \in Parents :
         \/ StartCreateCategory(w, n, p)
         \/ \E c \in Categories : StartEditCategory(w, c, n, p)
    \/ \E p \in Publishers : StartEditPublisher(w, p)
    \/ \E row \in BookRows :
         \/ StartCreateBook(w, row)
         \/ \E b \in Books, fields \in Requests : StartEditBook(w, b, fields, row)

CatalogNext ==
    \/ \E w \in Workers :
         \/ Request(w)
         \/ InsertCategory(w) \/ UpdateCategory(w)
         \/ UpdatePublisher(w) \/ CreateBook(w) \/ LockBook(w) \/ SaveBook(w)
         \/ Abort(w)
    \/ \E c \in Categories : DeleteCategory(c)
    \/ \E a \in Authors : DeleteAuthor(a)
    \/ \E p \in Publishers : DeletePublisher(p)
    \/ \E b \in Books : DeleteBook(b)

CatalogSpec == CatalogInit /\ [][CatalogNext]_catalogVars

-----------------------------------------------------------------------------
\* Every column has its type, where a foreign key's is the set of rows there are:
\* no parent, publisher, author or category of a row is missing, whatever was
\* deleted while a request that names it was under way (books/models.py 44-50
\* and 78-94).
CatalogTypeOK ==
    /\ publishers \subseteq Publishers /\ authors \subseteq Authors
    /\ \A c \in Listed(category) :
         category[c].name \in Names /\ ParentKnown(category[c].parent)
    /\ \A b \in Listed(book) : LinksKnown(book[b])
    /\ step \in [Workers -> {"idle", "insert", "update", "add", "lock", "save"}]

\* A slug is an address: it finds one category, and a category is found under the
\* slug it was inserted with as long as it is listed, renamed, saved from an old
\* copy, or deleted and brought back by an edit that was under way
\* (books/models.py 56-59, books/serializers.py 51).
SlugIsAddress ==
    /\ \A c, d \in Listed(category) : category[c].slug = category[d].slug => c = d
    /\ \A c \in Listed(category) : category[c].slug = firstSlug[c]

\* A request changes the columns and links of a book that it sends and no others:
\* two edits of one book keep each other's, and deleting a category or an author
\* takes away that link only; a publisher is never taken away
\* (books/services.py 25-54, books/models.py 78-84).  Categories have no such
\* promise: a PATCH of one writes every column it read.
EditStep ==
    \A b \in Listed(book) : b \in Listed(book)' =>
        \A f \in Fields : book'[b][f] # book[b][f] =>
            \/ \E w \in Workers : /\ step[w] = "save" /\ step'[w] = "idle"
                                  /\ req[w].target = b /\ f \in req[w].fields
            \/ f = "authors" /\ book[b][f] \ book'[b][f] = authors \ authors'
            \/ /\ f = "categories"
               /\ book[b][f] \ book'[b][f] = Listed(category) \ Listed(category)'

OnlyAskedChanges == [][EditStep]_catalogVars

\* "A category with this name already exists." (books/serializers.py 63), in
\* whatever case it is written.
NamesDistinct ==
    \A c, d \in Listed(category) :
        Fold[category[c].name] = Fold[category[d].name] => c = d

\* A request that has passed the test of its name and not stored it yet.
Naming(w) == step[w] = "insert" \/ (step[w] = "update" /\ req[w].op = "category")

\* No two such requests carry one name, but for two edits of one category.
NamesApart ==
    \A v, w \in Workers :
        v # w /\ Naming(v) /\ Naming(w) /\ Fold[copy[v].name] = Fold[copy[w].name]
            => step[v] = "update" /\ step[w] = "update" /\ req[v].target = req[w].target

\* And it is the serializer that says so: a category it accepts, one request at a
\* time, is not refused by the unique slug, whose IntegrityError no handler turns
\* into an answer.
AcceptedIsStored ==
    \A w \in Workers : step[w] = "insert" =>
        \A d \in Listed(category) : WithSlug(copy[w]).slug # category[d].slug
=============================================================================
