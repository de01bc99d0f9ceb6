------------------------------ MODULE MCShopPage -------------------------------
EXTENDS ShopPage

Laptop == [name |-> 2, about |-> {}, price |-> 2, stock |-> 1]
MCNames == <<{"headphone"}, {"laptop"}>>
MCSeeds == <<Laptop>>
MCNewBodies ==
  {[named |-> TRUE, filed |-> f, name |-> 1, about |-> {"laptop"}, price |-> 1,
    stock |-> 0, stockQuantity |-> 1] : f \in BOOLEAN}
MCChanges == {[id |-> 1, price |-> 1], [born |-> None], [id |-> 0]}

MCEntries == {Plain, [Plain EXCEPT !.category = "Audio"], [Plain EXCEPT !.page = 9]}

\* Bound: two choices at a time, the order being one.
Chosen(url) == {k \in Filterable \cup {"sortBy"} : url[k] # Plain[k]}
FewChosen == view.at = "shop" => Cardinality(Chosen(view.url)) <= 2

\* Bound: one PUT at a time has left what the types of the code do not foresee.
OddOnes ==
  {n \in DOMAIN products : products[n].born = None} \cup
  (IF renamed THEN {0} ELSE {}) \cup
  {c \in Calls : /\ Running(c) /\ call[c].op = "update"
                 /\ \/ "born" \in DOMAIN call[c].change
                    \/ GivesOther(call[c].change, call[c].id)}
FewOddOnes == \A a, b \in OddOnes : a = b

\* A listing does not tell one text from another that identifies a product.
SameToVisitors == renamed /\ products # <<>> /\ Readable(products)

\* The catalogue is read only when a list is answered: the administrators might
\* as well act before the visitor comes to the listing, and the visitor before
\* or after two of their calls that overlap.
MCNext ==
  \/ view.at # "shop" /\ ProductServiceStep /\ UNCHANGED pageVars /\ FewOddOnes'
  \/ (\A c \in Calls : ~Running(c)) /\ ~SameToVisitors /\ Browse /\ FewChosen'

MCSpec == ShopInit /\ [][MCNext]_vars

Interchangeable == Permutations(Calls)
===============================================================================
