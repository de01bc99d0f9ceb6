---------------------------- MODULE ProductCatalog -----------------------------
(***************************************************************************)
(* The Product Service.  Its catalogue is an array in the memory of the    *)
(* process, seeded when the process starts.  An update or a deletion looks *)
(* the product up, awaits, and looks it up again to change it: two actions *)
(* per call.  Identifiers are random UUIDs, which never repeat: they are   *)
(* numbered here in the order in which they were generated, from 1.  A PUT *)
(* may name others: a negative number is a text that nobody generated, and *)
(* 0 whatever is no text.                                                  *)
(***************************************************************************)
EXTENDS Integers, SequencesExt

CONSTANTS Names,        \* what a product may be called, in alphabetical order:
                        \* a sequence of sets of words
          Seeds,        \* seedData: a sequence of details
          NewBodies,    \* what POST bodies hold
          Changes,      \* what PUT bodies hold
          Calls,        \* PUT and DELETE calls the service can be serving
          MaxIds,       \* bound: identifiers generated, seeds included
          None          \* undefined

\* The details that a client writes.
Fields == {"name", "about", "price", "stock"}
Named(d) == d.name \in DOMAIN Names

ASSUME NamesAreOrdered == DOMAIN Names \subseteq Nat
ASSUME SeedsAreValid ==
  /\ Seeds \in Seq(Range(Seeds))
  /\ \A n \in DOMAIN Seeds :
       Named(Seeds[n]) /\ Seeds[n].price \in Nat /\ Seeds[n].stock \in Nat
ASSUME BodiesHaveNames == \A b \in NewBodies : b.named => Named(b)

\* An UpdateProductRequestDto has neither id nor createdAt, but nothing looks for
\* them in the body.  A createdAt is a date, or it is None: no date.
\* JavaScript compares a stock with 0 only, and a number stands for what compares
\* as it does: 0 for null too, and a positive one for a fraction.
ASSUME ChangesAreValues ==
  \A d \in Changes :
    /\ "id" \in DOMAIN d => d.id \in Int
    /\ "born" \in DOMAIN d => d.born \in Int \cup {None}
    /\ "name" \in DOMAIN d => Named(d)
    /\ "stock" \in DOMAIN d => d.stock \in Int

ASSUME BodiesHaveStocks == \A b \in NewBodies : b.stock \in Int \cup {None}

VARIABLES products,     \* ProductRepository.products
          issued,       \* how many identifiers were generated so far
          call,         \* where each call is
          renamed       \* auxiliary: a PUT has given a product another id

catalogVars == <<products, issued, call, renamed>>

Running(c) == call[c].at = "found"
Listed(i) == \E n \in DOMAIN products : products[n].id = i

\* Answered, with success or with an error: what was written tells which.
Idle == [at |-> "idle"]
End(c) == call' = [call EXCEPT ![c] = Idle]

\* { id, ...details, createdAt }
Product(i, t, d) ==
  [id |-> i, born |-> t, name |-> d.name, about |-> d.about, price |-> d.price,
   stock |-> d.stock]

\* { ...r, ...d }: a field that r lacks is read by nobody.
Spread(r, d) == [k \in DOMAIN r |-> IF k \in DOMAIN d THEN d[k] ELSE r[k]]

\* Whether a change gives its product this identifier, or one that is not this.
GivesId(d, i) == "id" \in DOMAIN d /\ d.id = i
GivesOther(d, i) == "id" \in DOMAIN d /\ d.id # i

\* findIndex: the first, and 0 stands for -1
IndexOf(i) == SelectInSeq(products, LAMBDA p : p.id = i)

-------------------------------------------------------------------------------
\* The seeds get new identifiers.  The loop that pushes them is over within a
\* millisecond, or a tick of the clock falls before some seed.
Seeded(from) ==
  {[n \in DOMAIN Seeds |->
      Product(from + n, IF n < tick THEN from + 1 ELSE from + 2, Seeds[n])] :
     tick \in 2 .. Len(Seeds) + 1}

Init ==
  /\ products \in Seeded(0)
  /\ issued = Len(Seeds)
  /\ call = [c \in Calls |-> Idle]
  /\ renamed = FALSE

(***************************************************************************)
(* POST /products.  The validator asks for category, SKU and stockQuantity *)
(* and the service for stock: a body that lacks either is refused, and of  *)
(* the two stocks it is "stock" that is kept.                              *)
(***************************************************************************)
ValidBody(b) == b.named /\ b.filed /\ b.price \in Nat /\ b.stockQuantity \in Nat

Creatable(b) == ValidBody(b) /\ b.stock # None /\ b.stock >= 0

\* Mutant: the new product is put first.
CreateFirst(b) ==
  /\ issued < MaxIds
  /\ Creatable(b)
  /\ issued' = issued + 1
  /\ products' = <<Product(issued', issued' + 1, b)>> \o products
  /\ UNCHANGED <<call, renamed>>

Create(b) ==
  /\ issued < MaxIds
  /\ Creatable(b)
  /\ issued' = issued + 1
  /\ products' = Append(products, Product(issued', issued' + 1, b))
  /\ UNCHANGED <<call, renamed>>

\* validateUpdateProductBody looks at the fields that it knows, stock not being
\* one of them, and lets the others through.
ValidChange(d) == "price" \in DOMAIN d => d.price \in Nat

\* Nobody names an identifier that is still to be generated.
Known(d) == "id" \in DOMAIN d => d.id <= issued

\* PUT and DELETE of a listed UUID, up to the await in the service, which is
\* getProductById.  What is refused here, 400 or 404, leaves no trace.
Receive(c, op, i, d) ==
  /\ ~Running(c)
  /\ op = "update" => ValidChange(d) /\ Known(d)
  /\ Listed(i) /\ i # 0
  /\ call' = [call EXCEPT ![c] = [at |-> "found", op |-> op, id |-> i, change |-> d]]
  /\ UNCHANGED <<products, issued, renamed>>

\* Mutant: an update whose product has gone puts it back.
UpdateOrPutBack(c) ==
  LET n == IndexOf(call[c].id)
      p == Product(call[c].id, 1, Seeds[1])
  IN  /\ Running(c) /\ call[c].op = "update"
      /\ products' = IF n = 0 THEN Append(products, p)
                     ELSE [products EXCEPT ![n] = Spread(@, call[c].change)]
      /\ End(c)
      /\ UNCHANGED <<issued, renamed>>

\* repository.update: the fields of the body, whatever they are, over those of
\* the product as it is now, if it still is.  A negative stock is noticed only
\* here.
Update(c) ==
  LET n == IndexOf(call[c].id)
      d == call[c].change
  IN  /\ Running(c) /\ call[c].op = "update"
      /\ End(c)
      /\ IF n = 0 \/ ("stock" \in DOMAIN d /\ d.stock < 0)
         THEN UNCHANGED <<products, renamed>>
         ELSE /\ products' = [products EXCEPT ![n] = Spread(@, d)]
              /\ renamed' = (renamed \/ GivesOther(d, products[n].id))
      /\ UNCHANGED issued

\* Mutant: splice without a look at the index: splice(-1, 1) takes the last.
DeleteBlindly(c) ==
  LET n == IndexOf(call[c].id)
  IN  /\ Running(c) /\ call[c].op = "delete"
      /\ End(c)
      /\ products' = IF products = <<>> THEN <<>>
                     ELSE RemoveAt(products, IF n = 0 THEN Len(products) ELSE n)
      /\ UNCHANGED <<issued, renamed>>

\* repository.delete: splice, if it is still there.
Delete(c) ==
  LET n == IndexOf(call[c].id)
  IN  /\ Running(c) /\ call[c].op = "delete"
      /\ End(c)
      /\ products' = IF n = 0 THEN products ELSE RemoveAt(products, n)
      /\ UNCHANGED <<issued, renamed>>

\* The process restarts: the array is seeded anew, and what was created,
\* changed or deleted is forgotten.
Restart ==
  /\ issued + Len(Seeds) <= MaxIds
  /\ products' \in Seeded(issued)
  /\ issued' = issued + Len(Seeds)
  /\ call' = [c \in Calls |-> Idle]
  /\ renamed' = FALSE

ProductServiceStep ==
  \/ \E b \in NewBodies : Create(b)
  \/ \E c \in Calls :
       \/ \E p \in Range(products), d \in Changes : Receive(c, "update", p.id, d)
       \/ \E p \in Range(products) : Receive(c, "delete", p.id, None)
       \/ Update(c)
       \/ Delete(c)
  \/ Restart

-------------------------------------------------------------------------------
IsProduct(p) ==
  /\ DOMAIN p = Fields \cup {"id", "born"}
  /\ p.id \in Int /\ p.born \in Int \cup {None} /\ Named(p)
  /\ p.price \in Nat /\ p.stock \in Nat

IsCatalogue(s) == s \in Seq(Range(s)) /\ \A n \in DOMAIN s : IsProduct(s[n])

Found ==
  [at : {"found"}, op : {"update"}, id : Int,
   change : {d \in Changes : ValidChange(d) /\ Known(d)}] \cup
  [at : {"found"}, op : {"delete"}, id : Int, change : {None}]

CatalogTypeOK ==
  /\ issued \in Nat
  /\ IsCatalogue(products)
  /\ \A n \in DOMAIN products : products[n].id <= issued
  /\ call \in [Calls -> {Idle} \cup Found]
  /\ renamed \in BOOLEAN

(***************************************************************************)
(* Unless a PUT has given a product another identifier, an identifier      *)
(* names one product at most and the catalogue keeps the order in which    *)
(* they were generated, whatever else was done to it at once.              *)
(***************************************************************************)
Ascending(s) == \A m, n \in DOMAIN s : m < n => s[m].id < s[n].id

OldestFirst == ~renamed => Ascending(products)

(***************************************************************************)
(* A product that was deleted, or lost in a restart, does not come back:   *)
(* no update that had found it, however late, revives it.  Its identifier  *)
(* is listed again only by a PUT whose body gives it to another product.   *)
(***************************************************************************)
GoneStaysGone ==
  [][\A i \in 1 .. issued : ~Listed(i) /\ Listed(i)' =>
       \E c \in Calls : /\ Running(c) /\ ~Running(c)'
                        /\ call[c].op = "update" /\ GivesId(call[c].change, i)]_catalogVars

(***************************************************************************)
(* A deletion takes the product it names and no other, whatever was        *)
(* deleted while it was under way: while the process runs, an identifier   *)
(* leaves the catalogue only by a deletion that names it, or by a PUT that *)
(* is sent to it and gives its product another.                            *)
(***************************************************************************)
DeletesWhatItNames ==
  [][\A i \in 1 .. issued : Listed(i) /\ ~Listed(i)' /\ issued' = issued =>
       \E c \in Calls : /\ Running(c) /\ ~Running(c)' /\ call[c].id = i
                        /\ \/ call[c].op = "delete"
                           \/ call[c].op = "update" /\ GivesOther(call[c].change, i)]_catalogVars

CatalogInv == CatalogTypeOK /\ OldestFirst
===============================================================================
