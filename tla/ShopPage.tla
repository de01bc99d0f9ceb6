------------------------------- MODULE ShopPage --------------------------------
(***************************************************************************)
(* The listing of the catalogue, over a copy of it that the browser keeps. *)
(* What it shows is a function of that copy and of the address, and every  *)
(* control of it pushes another address.                                   *)
(***************************************************************************)
EXTENDS ProductCatalog

CONSTANTS PerPage,      \* ITEMS_PER_PAGE
          Terms,        \* words that are searched for
          Prices,       \* prices typed into the range form
          Entries       \* addresses of the listing that links elsewhere hold

ASSUME PagesHoldSomething == PerPage \in Nat \ {0}

VARIABLES view,         \* the page the visitor is on, and its address
          list          \* query ["products"]

pageVars == <<view, list>>
vars == <<catalogVars, pageVars>>

-------------------------------------------------------------------------------
(* React Query: an entry has data or none, and is being fetched or not; an *)
(* error leaves the data there was.                                        *)
Empty == [data |-> None, error |-> FALSE, busy |-> FALSE]
Fetching(q) == [q EXCEPT !.busy = TRUE, !.error = @ /\ q.data # None]
Loaded(d) == [Empty EXCEPT !.data = d]
Failed(q) == [q EXCEPT !.busy = FALSE, !.error = TRUE]

\* A component that uses the entry appears.  What was fetched may by then be
\* older than staleTime, ten minutes, or not.
Mounted(q) == IF q.data = None THEN {Fetching(q)} ELSE {q, Fetching(q)}

Screen(q) ==
  IF q.data = None /\ q.busy THEN "loading" ELSE IF q.error THEN "error" ELSE "content"

-------------------------------------------------------------------------------
Plain == [term |-> None, category |-> None, min |-> None, max |-> None,
          inStock |-> FALSE, sortBy |-> "createdAt", asc |-> FALSE, page |-> 1]

IsAddress(url) == DOMAIN url = DOMAIN Plain /\ url.page \in Int

\* Math.floor of what the address holds, or 1 if that is no number
ASSUME EntriesAreAddresses == \A url \in Entries : IsAddress(url)

\* mapProductDetails: the category follows from the name.
Category(p) ==
  LET words == Names[p.name]
  IN  CASE "laptop" \in words -> "Computers"
        [] "headphone" \in words -> "Audio"
        [] words \cap {"camera", "keyboard"} # {} -> "Accessories"
        [] OTHER -> "Electronics"

Catalogue == IF list.data = None THEN <<>> ELSE list.data
Categories == {Category(Catalogue[n]) : n \in DOMAIN Catalogue}

Matches(p, url) ==
  /\ url.term # None => url.term \in Names[p.name] \cup p.about
  /\ url.category # None => Category(p) = url.category
  /\ url.min # None => p.price >= url.min
  /\ url.max # None => p.price <= url.max
  /\ url.inStock => p.stock > 0

SortKey(p, url) ==
  CASE url.sortBy = "price" -> p.price
    [] url.sortBy = "name"  -> p.name
    [] OTHER                -> p.born

Comparison(p, q, url) ==
  LET comparison == SortKey(p, url) - SortKey(q, url)
  IN  IF url.asc THEN comparison ELSE -comparison

\* What the filter lets through.
Wanted(url) == {n \in DOMAIN Catalogue : Matches(Catalogue[n], url)}

\* Array.prototype.sort is stable.
Ahead(m, n, url) ==
  LET d == Comparison(Catalogue[m], Catalogue[n], url)
  IN  d < 0 \/ (d = 0 /\ m < n)

\* A difference with what is no date is NaN, and the order then is the engine's.
Comparable(url) ==
  url.sortBy \in {"price", "name"} \/ \A n \in Wanted(url) : Catalogue[n].born # None

Sorted(url) ==
  CHOOSE s \in SetToSeqs(Wanted(url)) :
    Comparable(url) => \A i, j \in DOMAIN s : i < j => Ahead(s[i], s[j], url)

FilteredSorted(url) ==
  LET items == Sorted(url)
  IN  [k \in DOMAIN items |-> Catalogue[items[k]]]

Larger(a, b) == IF a > b THEN a ELSE b
Smaller(a, b) == IF a < b THEN a ELSE b

TotalPages(url) == Larger(1, (Len(FilteredSorted(url)) + PerPage - 1) \div PerPage)

\* Mutant: the page the address asks for, whether there is such a page or not.
PageAsked(url) == Larger(1, url.page)

CurrentPage(url) == Larger(1, Smaller(url.page, TotalPages(url)))

Shown(url) ==
  LET items == FilteredSorted(url)
      page == CurrentPage(url)
  IN  SubSeq(items, (page - 1) * PerPage + 1, Smaller(page * PerPage, Len(items)))

-------------------------------------------------------------------------------
ShopInit ==
  /\ Init
  /\ view = [at |-> "elsewhere"]
  /\ list = Fetching(Empty)

\* A document is loaded: a reload, a bookmark, or the header's search form,
\* which is a plain form.  Nothing of the cache survives.
Load(url) ==
  /\ view' = [at |-> "shop", url |-> url]
  /\ list' = Fetching(Empty)
  /\ UNCHANGED catalogVars

\* The home page and the product pages use the same list.
Leave ==
  /\ view.at = "shop"
  /\ view' = [at |-> "elsewhere"]
  /\ list' \in Mounted(list)
  /\ UNCHANGED catalogVars

\* Links to the listing, and to its categories.
GoShopping(url) ==
  /\ view.at # "shop"
  /\ view' = [at |-> "shop", url |-> url]
  /\ list' \in Mounted(list)
  /\ UNCHANGED catalogVars

\* updateFilters: the page is forgotten, then the updates are made.
UpdateFilters(updates) ==
  /\ view.at = "shop"
  /\ view' = [at |-> "shop", url |-> Spread([view.url EXCEPT !.page = 1], updates)]
  /\ UNCHANGED <<catalogVars, list>>

Search(t) == UpdateFilters([term |-> t])
PickCategory(c) == UpdateFilters([category |-> c])
ApplyPrices(low, high) == UpdateFilters([min |-> low, max |-> high])
ToggleStock == view.at = "shop" /\ UpdateFilters([inStock |-> ~view.url.inStock])
Sort(by, up) == UpdateFilters([sortBy |-> by, asc |-> up])

\* A chip above the results takes one filter away.
RemoveFilter(key) ==
  /\ view.at = "shop"
  /\ view.url[key] # Plain[key]
  /\ UpdateFilters([k \in {key} |-> Plain[k]])

Reset ==
  /\ view.at = "shop"
  /\ view' = [at |-> "shop", url |-> Plain]
  /\ UNCHANGED <<catalogVars, list>>

\* Mutant: the buttons count from the page the address asks for.
TurnFromAsked(step) ==
  /\ view.at = "shop" /\ Screen(list) = "content" /\ Shown(view.url) # <<>>
  /\ LET page == CurrentPage(view.url)
     IN  \/ step = "next" /\ page < TotalPages(view.url)
            /\ UpdateFilters([page |-> view.url.page + 1])
         \/ step = "previous" /\ page > 1
            /\ UpdateFilters([page |-> view.url.page - 1])

TurnPage(step) ==
  /\ view.at = "shop" /\ Screen(list) = "content" /\ Shown(view.url) # <<>>
  /\ LET page == CurrentPage(view.url)
     IN  \/ step = "next" /\ page < TotalPages(view.url)
            /\ UpdateFilters([page |-> page + 1])
         \/ step = "previous" /\ page > 1
            /\ UpdateFilters([page |-> page - 1])

\* "Try again", and "Refresh" where there is nothing to show.
Refetch ==
  /\ Screen(list) = "error" \/ (Screen(list) = "content" /\ Catalogue = <<>>)
  /\ ~list.busy
  /\ list' = Fetching(list)
  /\ UNCHANGED <<catalogVars, view>>

\* GET /products, which reads all there is, or fails, retries included.  The tab
\* makes labels of the identifiers, which fails for all if one is no text.
Readable(s) == \A n \in DOMAIN s : s[n].id # 0

ListAnswered ==
  /\ list.busy
  /\ \/ Readable(products) /\ list' = Loaded(products)
     \/ list' = Failed(list)
  /\ UNCHANGED <<catalogVars, view>>

Sortings == {<<"createdAt", FALSE>>, <<"price", TRUE>>, <<"price", FALSE>>,
             <<"name", TRUE>>, <<"name", FALSE>>}
Filterable == {"term", "category", "min", "max", "inStock"}

Visit ==
  \/ Leave
  \/ \E url \in Entries : GoShopping(url) \/ Load(url)

Refine ==
  \/ \E t \in Terms \cup {None} : Search(t)
  \/ \E c \in Categories \cup {None} : PickCategory(c)
  \/ \E low, high \in Prices \cup {None} : ApplyPrices(low, high)
  \/ ToggleStock
  \/ \E s \in Sortings : Sort(s[1], s[2])
  \/ \E key \in Filterable : RemoveFilter(key)
  \/ Reset
  \/ \E step \in {"previous", "next"} : TurnPage(step)

Browse ==
  \/ Visit
  \/ Refine
  \/ Refetch
  \/ ListAnswered

Next ==
  \/ ProductServiceStep /\ UNCHANGED pageVars
  \/ Browse

Spec == ShopInit /\ [][Next]_vars

-------------------------------------------------------------------------------
ShopTypeOK ==
  /\ view.at \in {"elsewhere", "shop"}
  /\ view.at = "shop" => IsAddress(view.url)
  /\ DOMAIN list = DOMAIN Empty /\ list.busy \in BOOLEAN /\ list.error \in BOOLEAN
  /\ list.data # None => IsCatalogue(list.data)

(***************************************************************************)
(* The listing shows what its address asks for: the products of the cached *)
(* list that satisfy every filter, each on exactly one page, in the order  *)
(* chosen (among equals, in that of the catalogue), no more than fit; and  *)
(* whatever page the address asks for, however the list has shrunk since,  *)
(* it shows some if there are any.  Where the dates sorted by are no dates *)
(* the order, and so the page of each, may be any.                         *)
(***************************************************************************)
Place(n, url) == Cardinality({m \in Wanted(url) : Ahead(m, n, url)}) + 1

ListingIsRight ==
  view.at = "shop" =>
    LET url == view.url
        first == (CurrentPage(url) - 1) * PerPage
        shown == Shown(url)
        OnPage(n) == Place(n, url) - first
    IN  /\ Comparable(url) =>
             /\ DOMAIN shown = {OnPage(n) : n \in Wanted(url)} \cap (1 .. PerPage)
             /\ \A n \in Wanted(url) :
                  OnPage(n) \in 1 .. PerPage => shown[OnPage(n)] = Catalogue[n]
        /\ Wanted(url) # {} => shown # <<>>
        /\ \A k \in DOMAIN shown : k <= PerPage /\ Matches(shown[k], url)

ShopInv == CatalogInv /\ ShopTypeOK

(***************************************************************************)
(* The buttons turn one page of the listing on display, and no filter      *)
(* leaves the visitor on a later page of another listing: an address that  *)
(* asked for a page beyond the last one does not make them skip or stick.  *)
(***************************************************************************)
Filters(url) == [k \in DOMAIN url \ {"page"} |-> url[k]]

PagesTurnOneByOne ==
  [][view.at = "shop" /\ view'.at = "shop" /\ view' # view /\ UNCHANGED <<list>> =>
       LET here == CurrentPage(view.url)
           there == CurrentPage(view'.url)
       IN  IF Filters(view.url) = Filters(view'.url)
           THEN there \in {1, here - 1, here + 1}
           ELSE there = 1]_vars
===============================================================================
