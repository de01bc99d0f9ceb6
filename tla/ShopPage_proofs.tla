---------------------------- MODULE ShopPage_proofs ----------------------------
(***************************************************************************)
(* The catalogue, for any products, bodies and overlapping calls, and the  *)
(* listing of it, for any addresses.                                       *)
(***************************************************************************)
EXTENDS ShopPage, SequenceTheorems, FiniteSetTheorems, FunctionTheorems,
        WellFoundedInduction, TLAPS

-------------------------------------------------------------------------------
(* What the helpers return.                                                *)
LEMMA ProductIsOne ==
  ASSUME NEW i \in Nat, NEW t \in Nat, NEW d, Named(d), d.price \in Nat, d.stock \in Nat
  PROVE  IsProduct(Product(i, t, d)) /\ Product(i, t, d).id = i
  BY DEF IsProduct, Product, Fields, Named

LEMMA SpreadIsProduct ==
  ASSUME NEW p, IsProduct(p), NEW d,
         "id" \in DOMAIN d => d.id \in Int,
         "born" \in DOMAIN d => d.born \in Int \cup {None},
         "name" \in DOMAIN d => Named(d),
         "price" \in DOMAIN d => d.price \in Nat,
         "stock" \in DOMAIN d => d.stock \in Nat
  PROVE  /\ IsProduct(Spread(p, d))
         /\ Spread(p, d).id = IF "id" \in DOMAIN d THEN d.id ELSE p.id
  BY DEF IsProduct, Spread, Fields, Named

(* Of some naturals one is the least.                                      *)
LEMMA LeastIsOne ==
  ASSUME NEW S \in SUBSET Nat, S # {}
  PROVE  Min(S) \in S
<1>1. IsWellFoundedOn(OpToRel(<, Nat), Nat)
  BY NatLessThanWellFounded
<1>2. PICK R : R = OpToRel(<, Nat)
  OBVIOUS
<1>3. PICK x \in S : \A y \in S : ~(<<y, x>> \in R)
  BY <1>1, <1>2, WFMin
<1>4. \A y \in S : y < x => <<y, x>> \in R
  BY <1>2 DEF OpToRel
<1>5. \A y \in S : ~(y < x)
  BY <1>3, <1>4
<1>6. \A y \in S : x <= y
  <2>1. \A m, n \in Nat : ~(m < n) => n <= m
    OBVIOUS
  <2>2. QED BY <1>5, <2>1
<1>7. QED BY <1>6 DEF Min

(* An array of products is a function of an initial segment of the         *)
(* naturals, whatever the products are.                                    *)
LEMMA ArrayOf ==
  ASSUME NEW n \in Nat, NEW s, s = [k \in 1 .. n |-> s[k]]
  PROVE  s \in Seq(Range(s)) /\ Len(s) = n /\ DOMAIN s = 1 .. n
<1>1. s \in [1 .. n -> Range(s)]
  BY DEF Range
<1>2. QED BY <1>1

LEMMA ArrayIs ==
  ASSUME NEW s, s \in Seq(Range(s))
  PROVE  /\ Len(s) \in Nat /\ DOMAIN s = 1 .. Len(s)
         /\ s = [k \in 1 .. Len(s) |-> s[k]]
  OBVIOUS

LEMMA ArrayIn ==
  ASSUME NEW S, NEW s \in Seq(S)
  PROVE  s \in Seq(Range(s))
<1>1. s \in [1 .. Len(s) -> Range(s)]
  BY DEF Range
<1>2. QED BY <1>1

(* push, the write of one element, and splice of one element.              *)
LEMMA Pushed ==
  ASSUME NEW s, IsCatalogue(s), NEW p, IsProduct(p),
         \A n \in DOMAIN s : s[n].id < p.id
  PROVE  /\ IsCatalogue(Append(s, p)) /\ (Ascending(s) => Ascending(Append(s, p)))
         /\ DOMAIN Append(s, p) = 1 .. Len(s) + 1 /\ DOMAIN s = 1 .. Len(s)
         /\ \A n \in 1 .. Len(s) : Append(s, p)[n] = s[n]
         /\ Append(s, p)[Len(s) + 1] = p
<1>1. PICK S : S = Range(s) \cup {p}
  OBVIOUS
<1>2. s \in Seq(S) /\ p \in S /\ Len(s) \in Nat /\ DOMAIN s = 1 .. Len(s)
  BY <1>1, ArrayIs, SeqMonotonic DEF IsCatalogue
<1>3. PICK a : a = Append(s, p)
  OBVIOUS
<1>4. /\ a \in Seq(S) /\ DOMAIN a = 1 .. Len(s) + 1
      /\ \A n \in 1 .. Len(s) : a[n] = s[n]
      /\ a[Len(s) + 1] = p
  BY <1>2, <1>3, AppendProperties, LenProperties
<1>5. IsCatalogue(a)
  BY <1>2, <1>4, ArrayIn DEF IsCatalogue
<1>6. Ascending(s) => Ascending(a)
  BY <1>2, <1>4 DEF Ascending, IsCatalogue
<1>7. QED BY <1>2, <1>3, <1>4, <1>5, <1>6

LEMMA Written ==
  ASSUME NEW s, IsCatalogue(s), NEW n \in DOMAIN s, NEW p, IsProduct(p),
         NEW u, u = [s EXCEPT ![n] = p]
  PROVE  /\ IsCatalogue(u) /\ DOMAIN u = DOMAIN s
         /\ \A m \in DOMAIN s : u[m] = IF m = n THEN p ELSE s[m]
         /\ Ascending(s) /\ p.id = s[n].id => Ascending(u)
<1>1. /\ Len(s) \in Nat /\ DOMAIN s = 1 .. Len(s)
      /\ u = [k \in 1 .. Len(s) |-> u[k]]
      /\ \A m \in DOMAIN s : u[m] = IF m = n THEN p ELSE s[m]
  BY ArrayIs DEF IsCatalogue
<1>2. u \in Seq(Range(u)) /\ DOMAIN u = DOMAIN s
  BY <1>1, ArrayOf
<1>3. IsCatalogue(u)
  BY <1>1, <1>2 DEF IsCatalogue
<1>4. ASSUME Ascending(s), p.id = s[n].id
      PROVE  Ascending(u)
  <2>1. \A m \in DOMAIN s : u[m].id = s[m].id
    BY <1>1, <1>4
  <2>2. QED BY <1>2, <1>4, <2>1 DEF Ascending
<1>5. QED BY <1>1, <1>2, <1>3, <1>4

LEMMA Spliced ==
  ASSUME NEW s, IsCatalogue(s), NEW n \in DOMAIN s
  PROVE  /\ IsCatalogue(RemoveAt(s, n)) /\ (Ascending(s) => Ascending(RemoveAt(s, n)))
         /\ DOMAIN s = 1 .. Len(s) /\ Len(s) \in Nat
         /\ DOMAIN RemoveAt(s, n) = 1 .. Len(s) - 1
         /\ \A m \in 1 .. Len(s) - 1 : RemoveAt(s, n)[m] = s[IF m < n THEN m ELSE m + 1]
<1>1. s \in Seq(Range(s)) /\ Len(s) \in Nat /\ DOMAIN s = 1 .. Len(s)
  BY ArrayIs DEF IsCatalogue
<1>2. PICK S : S = Range(s)
  OBVIOUS
<1>3. \A i \in 1 .. Len(s) : s[i] \in S
  BY <1>1, <1>2, ElementOfSeq
<1>4. PICK b, e : b = SubSeq(s, 1, n - 1) /\ e = SubSeq(s, n + 1, Len(s))
  OBVIOUS
<1>5. /\ b \in Seq(S) /\ Len(b) = n - 1
      /\ \A i \in 1 .. n - 1 : b[i] = s[i]
  <2>1. n - 1 \in Int /\ \A i \in 1 .. n - 1 : i \in 1 .. Len(s)
    BY <1>1
  <2>2. QED BY <1>1, <1>3, <1>4, <2>1, SubSeqProperties
<1>6. /\ e \in Seq(S) /\ Len(e) = Len(s) - n
      /\ \A i \in 1 .. Len(s) - n : e[i] = s[n + i]
  <2>1. n + 1 \in Int /\ \A i \in n + 1 .. Len(s) : i \in 1 .. Len(s)
    BY <1>1
  <2>2. QED BY <1>1, <1>3, <1>4, <2>1, SubSeqProperties
<1>7. PICK r : r = b \o e
  OBVIOUS
<1>8. /\ r \in Seq(S) /\ Len(r) = Len(s) - 1
      /\ \A i \in 1 .. Len(s) - 1 : r[i] = IF i <= n - 1 THEN b[i] ELSE e[i - (n - 1)]
  <2>1. /\ r \in Seq(S) /\ Len(r) = Len(b) + Len(e)
        /\ \A i \in 1 .. Len(b) + Len(e) : r[i] = IF i <= Len(b) THEN b[i] ELSE e[i - Len(b)]
    BY <1>5, <1>6, <1>7, ConcatProperties
  <2>2. Len(b) + Len(e) = Len(s) - 1
    BY <1>1, <1>5, <1>6
  <2>3. QED BY <1>5, <2>1, <2>2
<1>9. /\ DOMAIN r = 1 .. Len(s) - 1
      /\ \A m \in 1 .. Len(s) - 1 : r[m] = s[IF m < n THEN m ELSE m + 1]
  <2>1. DOMAIN r = 1 .. Len(s) - 1
    BY <1>8, LenProperties
  <2>2. ASSUME NEW m \in 1 .. Len(s) - 1, m < n
        PROVE  r[m] = s[m]
    BY <1>1, <1>5, <1>8, <2>2
  <2>3. ASSUME NEW m \in 1 .. Len(s) - 1, ~(m < n)
        PROVE  r[m] = s[m + 1]
    <3>1. PICK i : i = m - (n - 1)
      OBVIOUS
    <3>2. i \in 1 .. Len(s) - n /\ n + i = m + 1 /\ ~(m <= n - 1)
      BY <1>1, <2>3, <3>1
    <3>3. r[m] = e[i]
      BY <1>8, <3>1, <3>2
    <3>4. QED BY <1>6, <3>2, <3>3
  <2>4. QED BY <2>1, <2>2, <2>3
<1>10. IsCatalogue(r)
  BY <1>1, <1>8, <1>9, ArrayIn DEF IsCatalogue
<1>11. Ascending(s) => Ascending(r)
  <2>1. SUFFICES ASSUME Ascending(s), NEW i \in 1 .. Len(s) - 1, NEW j \in 1 .. Len(s) - 1, i < j
                 PROVE  r[i].id < r[j].id
    BY <1>9 DEF Ascending
  <2>2. PICK k \in 1 .. Len(s), m \in 1 .. Len(s) : r[i] = s[k] /\ r[j] = s[m] /\ k < m
    BY <1>1, <1>9, <2>1
  <2>3. s[k].id < s[m].id
    BY <1>1, <2>1, <2>2 DEF Ascending
  <2>4. QED BY <2>2, <2>3
<1>12. RemoveAt(s, n) = r
  BY <1>4, <1>7 DEF RemoveAt
<1>13. QED BY <1>1, <1>9, <1>10, <1>11, <1>12

(* An identifier is found where it is, or not at all.                      *)
LEMMA IndexFinds ==
  ASSUME NEW i, IsCatalogue(products)
  PROVE  IF Listed(i) THEN IndexOf(i) \in DOMAIN products /\ products[IndexOf(i)].id = i
                      ELSE IndexOf(i) = 0
<1>1. DOMAIN products = 1 .. Len(products) /\ Len(products) \in Nat
  BY ArrayIs DEF IsCatalogue
<1>2. PICK S : S = {m \in 1 .. Len(products) : products[m].id = i}
  OBVIOUS
<1>3. IndexOf(i) = IF S # {} THEN Min(S) ELSE 0
  BY <1>2 DEF IndexOf, SelectInSeq
<1>4. S \in SUBSET Nat
  BY <1>2
<1>5. CASE Listed(i)
  <2>1. S # {}
    BY <1>1, <1>2, <1>5 DEF Listed
  <2>2. Min(S) \in S
    BY <1>4, <2>1, LeastIsOne
  <2>3. QED BY <1>1, <1>2, <1>3, <1>5, <2>1, <2>2
<1>6. CASE ~Listed(i)
  <2>1. S = {}
    BY <1>1, <1>2, <1>6 DEF Listed
  <2>2. QED BY <1>3, <1>6, <2>1
<1>7. QED BY <1>5, <1>6

-------------------------------------------------------------------------------
(* What is seeded is a catalogue of identifiers not issued before.         *)
LEMMA SeededFresh ==
  ASSUME NEW from \in Nat, NEW s \in Seeded(from)
  PROVE  /\ IsCatalogue(s) /\ Ascending(s)
         /\ Len(Seeds) \in Nat \ {0}
         /\ \A n \in DOMAIN s : s[n].id \in from + 1 .. from + Len(Seeds)
<1>1. /\ Len(Seeds) \in Nat /\ DOMAIN Seeds = 1 .. Len(Seeds)
      /\ \A n \in DOMAIN Seeds :
           Named(Seeds[n]) /\ Seeds[n].price \in Nat /\ Seeds[n].stock \in Nat
  BY SeedsAreValid, ArrayIs
<1>2. PICK tick \in 2 .. Len(Seeds) + 1 :
        s = [n \in DOMAIN Seeds |->
               Product(from + n, IF n < tick THEN from + 1 ELSE from + 2, Seeds[n])]
  BY DEF Seeded
<1>3. \A n \in 1 .. Len(Seeds) : IsProduct(s[n]) /\ s[n].id = from + n
  <2>1. SUFFICES ASSUME NEW n \in 1 .. Len(Seeds)
                 PROVE  IsProduct(s[n]) /\ s[n].id = from + n
    OBVIOUS
  <2>2. PICK b \in Nat : s[n] = Product(from + n, b, Seeds[n])
    BY <1>1, <1>2
  <2>3. from + n \in Nat
    BY <1>1
  <2>4. QED BY <1>1, <2>2, <2>3, ProductIsOne
<1>4. s \in Seq(Range(s)) /\ DOMAIN s = 1 .. Len(Seeds)
  <2>1. s = [k \in 1 .. Len(Seeds) |-> s[k]]
    BY <1>1, <1>2
  <2>2. QED BY <1>1, <2>1, ArrayOf
<1>5. Ascending(s)
  BY <1>1, <1>3, <1>4 DEF Ascending
<1>6. QED BY <1>1, <1>2, <1>3, <1>4, <1>5 DEF IsCatalogue

-------------------------------------------------------------------------------
(* One lemma per step of the service: it keeps the catalogue in order,     *)
(* lists what was gone only by a PUT that names it, and lets go only of    *)
(* what a deletion names or a PUT gives another identifier.                *)
GoneStay ==
  \A i \in 1 .. issued : ~Listed(i) /\ Listed(i)' =>
    \E c \in Calls : /\ Running(c) /\ ~Running(c)'
                     /\ call[c].op = "update" /\ GivesId(call[c].change, i)

TakesNamed ==
  \A i \in 1 .. issued : Listed(i) /\ ~Listed(i)' /\ issued' = issued =>
    \E c \in Calls : /\ Running(c) /\ ~Running(c)' /\ call[c].id = i
                     /\ \/ call[c].op = "delete"
                        \/ call[c].op = "update" /\ GivesOther(call[c].change, i)

LEMMA CatalogueRests ==
  ASSUME CatalogInv, UNCHANGED catalogVars
  PROVE  CatalogInv' /\ GoneStay /\ TakesNamed
  BY DEF CatalogInv, CatalogTypeOK, IsCatalogue, OldestFirst, Ascending, catalogVars,
         Found, Known, Running, Listed, GoneStay, TakesNamed

(* The catalogue's invariant, part by part, now and after a step.          *)
LEMMA InvByParts ==
  ASSUME issued \in Nat, IsCatalogue(products),
         \A n \in DOMAIN products : products[n].id <= issued,
         call \in [Calls -> {Idle} \cup Found], renamed \in BOOLEAN,
         ~renamed => Ascending(products)
  PROVE  CatalogInv
  BY Zenon DEF CatalogInv, CatalogTypeOK, OldestFirst

LEMMA InvByPartsNext ==
  ASSUME issued' \in Nat, IsCatalogue(products'),
         \A n \in DOMAIN products' : products'[n].id <= issued',
         call' \in [Calls -> {Idle} \cup Found'], renamed' \in BOOLEAN,
         ~renamed' => Ascending(products')
  PROVE  CatalogInv'
  BY Zenon DEF CatalogInv, CatalogTypeOK, OldestFirst, IsCatalogue, Ascending

(* Calls come and end, and the catalogue stays as it is.                   *)
LEMMA CallsMove ==
  ASSUME CatalogInv, UNCHANGED <<products, issued, renamed>>,
         call' \in [Calls -> {Idle} \cup Found]
  PROVE  CatalogInv' /\ GoneStay /\ TakesNamed
<1>1. Found' = Found
  BY DEF Found, Known
<1>2. CatalogTypeOK'
  BY <1>1 DEF CatalogInv, CatalogTypeOK, IsCatalogue
<1>3. OldestFirst'
  BY DEF CatalogInv, OldestFirst
<1>4. \A i : Listed(i)' <=> Listed(i)
  BY DEF Listed
<1>5. QED BY <1>2, <1>3, <1>4 DEF CatalogInv, GoneStay, TakesNamed

LEMMA CallsEnd ==
  ASSUME CatalogInv, NEW c \in Calls, End(c), UNCHANGED issued
  PROVE  call' \in [Calls -> {Idle} \cup Found] /\ Found' = Found /\ ~Running(c)'
<1>1. call' = [call EXCEPT ![c] = Idle]
  BY DEF End
<1>2. call' \in [Calls -> {Idle} \cup Found] /\ ~Running(c)'
  BY <1>1 DEF CatalogInv, CatalogTypeOK, Running, Idle
<1>3. QED BY <1>2 DEF Found, Known

LEMMA CreateStep ==
  ASSUME CatalogInv, NEW b \in NewBodies, Create(b)
  PROVE  CatalogInv' /\ GoneStay /\ TakesNamed
<1>1. /\ issued \in Nat /\ issued' = issued + 1
      /\ IsCatalogue(products)
      /\ \A n \in DOMAIN products : products[n].id <= issued
      /\ call \in [Calls -> {Idle} \cup Found]
      /\ renamed \in BOOLEAN /\ OldestFirst
  BY DEF CatalogInv, CatalogTypeOK, Create
<1>2. PICK p : p = Product(issued', issued' + 1, b)
  OBVIOUS
<1>3. IsProduct(p) /\ p.id = issued + 1
  <2>1. Named(b) /\ b.price \in Nat /\ b.stock \in Nat
    BY BodiesHaveNames, BodiesHaveStocks DEF Create, Creatable, ValidBody
  <2>2. issued' \in Nat /\ issued' + 1 \in Nat
    BY <1>1
  <2>3. QED BY <1>1, <1>2, <2>1, <2>2, ProductIsOne
<1>4. products' = Append(products, p) /\ call' = call /\ renamed' = renamed
  BY <1>2 DEF Create
<1>5. \A n \in DOMAIN products : products[n].id \in Int /\ products[n].id < p.id
  BY <1>1, <1>3 DEF IsCatalogue, IsProduct
<1>6. /\ IsCatalogue(products') /\ (Ascending(products) => Ascending(products'))
      /\ DOMAIN products' = 1 .. Len(products) + 1 /\ DOMAIN products = 1 .. Len(products)
      /\ \A n \in 1 .. Len(products) : products'[n] = products[n]
      /\ products'[Len(products) + 1] = p
  BY <1>1, <1>3, <1>4, <1>5, Pushed
<1>7. Len(products) \in Nat
  BY <1>1, ArrayIs DEF IsCatalogue
<1>8. CatalogInv'
  <2>1. \A n \in DOMAIN products' : products'[n].id <= issued'
    BY <1>1, <1>3, <1>5, <1>6, <1>7
  <2>2. Found \subseteq Found'
    <3>1. \A d \in Changes : Known(d) => Known(d)'
      BY <1>1, ChangesAreValues DEF Known
    <3>2. QED BY <3>1 DEF Found
  <2>3. call' \in [Calls -> {Idle} \cup Found']
    BY <1>1, <1>4, <2>2
  <2>4. renamed' \in BOOLEAN /\ (~renamed' => Ascending(products'))
    BY <1>1, <1>4, <1>6, Zenon DEF OldestFirst
  <2>5. issued' \in Nat
    BY <1>1
  <2>6. QED BY <1>6, <2>1, <2>3, <2>4, <2>5, InvByPartsNext
<1>9. \A i \in 1 .. issued : Listed(i)' => Listed(i)
  BY <1>1, <1>3, <1>6, <1>7 DEF Listed
<1>10. QED BY <1>1, <1>8, <1>9 DEF GoneStay, TakesNamed

LEMMA ReceiveStep ==
  ASSUME CatalogInv, NEW c \in Calls, NEW op \in {"update", "delete"}, NEW i,
         NEW d \in Changes \cup {None}, op = "update" => d \in Changes,
         op = "delete" => d = None, Receive(c, op, i, d)
  PROVE  CatalogInv' /\ GoneStay /\ TakesNamed
<1>1. PICK r : r = [at |-> "found", op |-> op, id |-> i, change |-> d]
  OBVIOUS
<1>2. op = "update" => d \in {e \in Changes : ValidChange(e) /\ Known(e)}
  BY DEF Receive
<1>3. i \in Int
  BY DEF Receive, Listed, CatalogInv, CatalogTypeOK, IsCatalogue, IsProduct
<1>4. r \in Found
  BY <1>1, <1>2, <1>3 DEF Found
<1>5. call' = [call EXCEPT ![c] = r] /\ UNCHANGED <<products, issued, renamed>>
  BY <1>1 DEF Receive
<1>6. call' \in [Calls -> {Idle} \cup Found]
  BY <1>4, <1>5 DEF CatalogInv, CatalogTypeOK
<1>7. QED BY <1>5, <1>6, CallsMove

LEMMA UpdateStep ==
  ASSUME CatalogInv, NEW c \in Calls, Update(c)
  PROVE  CatalogInv' /\ GoneStay /\ TakesNamed
<1>1. Running(c) /\ call[c].op = "update" /\ End(c) /\ issued' = issued
  BY DEF Update
<1>2. call' \in [Calls -> {Idle} \cup Found] /\ Found' = Found /\ ~Running(c)'
  BY <1>1, CallsEnd
<1>3. PICK n, d, i : n = IndexOf(i) /\ d = call[c].change /\ i = call[c].id
  OBVIOUS
<1>4. \/ UNCHANGED <<products, renamed>>
      \/ /\ n # 0 /\ ("stock" \in DOMAIN d => ~(d.stock < 0))
         /\ products' = [products EXCEPT ![n] = Spread(products[n], d)]
         /\ renamed' = (renamed \/ GivesOther(d, products[n].id))
  BY <1>3 DEF Update
<1>5. CASE UNCHANGED <<products, renamed>>
  BY <1>1, <1>2, <1>5, CallsMove
<1>6. CASE /\ n # 0 /\ ("stock" \in DOMAIN d => ~(d.stock < 0))
           /\ products' = [products EXCEPT ![n] = Spread(products[n], d)]
           /\ renamed' = (renamed \/ GivesOther(d, products[n].id))
  <2>1. /\ issued \in Nat /\ IsCatalogue(products)
        /\ \A m \in DOMAIN products : products[m].id <= issued
        /\ OldestFirst
    BY DEF CatalogInv, CatalogTypeOK
  <2>2. n \in DOMAIN products /\ products[n].id = i
    BY <1>3, <1>6, <2>1, IndexFinds
  <2>3. d \in Changes /\ ValidChange(d) /\ Known(d)
    BY <1>1, <1>3 DEF CatalogInv, CatalogTypeOK, Running, Idle, Found
  <2>4. PICK p : p = Spread(products[n], d)
    OBVIOUS
  <2>5. IsProduct(p) /\ p.id = IF "id" \in DOMAIN d THEN d.id ELSE i
    <3>1. "stock" \in DOMAIN d => d.stock \in Nat
      BY <1>6, <2>3, ChangesAreValues
    <3>2. IsProduct(products[n])
      BY <2>1, <2>2 DEF IsCatalogue
    <3>3. QED BY <2>2, <2>3, <2>4, <3>1, <3>2, ChangesAreValues, SpreadIsProduct
              DEF ValidChange
  <2>6. products' = [products EXCEPT ![n] = p]
    BY <1>6, <2>4
  <2>7. /\ IsCatalogue(products') /\ DOMAIN products' = DOMAIN products
        /\ \A m \in DOMAIN products : products'[m] = IF m = n THEN p ELSE products[m]
        /\ Ascending(products) /\ p.id = products[n].id => Ascending(products')
    BY <2>1, <2>2, <2>5, <2>6, Written
  <2>8. ~renamed' => ~renamed /\ ~GivesOther(d, products[n].id)
    BY <1>6, Zenon
  <2>9. CatalogInv'
    <3>1. p.id <= issued
      BY <2>1, <2>2, <2>3, <2>5 DEF Known
    <3>2. \A m \in DOMAIN products' : products'[m].id <= issued'
      BY <1>1, <2>1, <2>7, <3>1
    <3>3. renamed' \in BOOLEAN
      BY <1>6
    <3>4. CatalogTypeOK'
      BY <1>1, <1>2, <2>1, <2>7, <3>2, <3>3 DEF CatalogTypeOK, IsCatalogue
    <3>5. ASSUME ~renamed' PROVE Ascending(products')
      <4>1. ~renamed /\ ~GivesOther(d, products[n].id)
        BY <2>8, <3>5
      <4>2. p.id = products[n].id
        BY <2>2, <2>5, <4>1 DEF GivesOther
      <4>3. QED BY <2>1, <2>7, <4>1, <4>2 DEF OldestFirst
    <3>6. OldestFirst'
      BY <3>5 DEF OldestFirst
    <3>7. QED BY <3>4, <3>6 DEF CatalogInv
  <2>10. GoneStay
    <3>1. SUFFICES ASSUME NEW j \in 1 .. issued, ~Listed(j), Listed(j)'
                   PROVE  GivesId(d, j)
      BY <1>1, <1>2, <1>3 DEF GoneStay
    <3>2. p.id = j /\ j # i
      BY <2>2, <2>7, <3>1 DEF Listed
    <3>3. QED BY <2>5, <3>2 DEF GivesId
  <2>11. TakesNamed
    <3>1. SUFFICES ASSUME NEW j \in 1 .. issued, Listed(j), ~Listed(j)'
                   PROVE  j = i /\ GivesOther(d, j)
      BY <1>1, <1>2, <1>3 DEF TakesNamed
    <3>2. PICK k \in DOMAIN products : products[k].id = j
      BY <3>1 DEF Listed
    <3>3. k = n /\ p.id # j
      BY <2>2, <2>7, <3>1, <3>2 DEF Listed
    <3>4. QED BY <2>2, <2>5, <3>2, <3>3 DEF GivesOther
  <2>12. QED BY <2>9, <2>10, <2>11
<1>7. QED BY <1>4, <1>5, <1>6

LEMMA DeleteStep ==
  ASSUME CatalogInv, NEW c \in Calls, Delete(c)
  PROVE  CatalogInv' /\ GoneStay /\ TakesNamed
<1>1. Running(c) /\ call[c].op = "delete" /\ End(c) /\ UNCHANGED <<issued, renamed>>
  BY DEF Delete
<1>2. call' \in [Calls -> {Idle} \cup Found] /\ Found' = Found /\ ~Running(c)'
  BY <1>1, CallsEnd
<1>3. PICK n : n = IndexOf(call[c].id)
  OBVIOUS
<1>4. /\ issued \in Nat /\ IsCatalogue(products) /\ OldestFirst /\ renamed \in BOOLEAN
      /\ \A m \in DOMAIN products : products[m].id <= issued
  BY DEF CatalogInv, CatalogTypeOK
<1>5. CASE n = 0
  BY <1>1, <1>2, <1>3, <1>5, CallsMove DEF Delete
<1>6. CASE n # 0
  <2>1. n \in DOMAIN products /\ products[n].id = call[c].id
    BY <1>3, <1>4, <1>6, IndexFinds
  <2>2. products' = RemoveAt(products, n)
    BY <1>3, <1>6 DEF Delete
  <2>3. /\ IsCatalogue(products') /\ (Ascending(products) => Ascending(products'))
        /\ DOMAIN products = 1 .. Len(products) /\ Len(products) \in Nat
        /\ DOMAIN products' = 1 .. Len(products) - 1
        /\ \A m \in 1 .. Len(products) - 1 :
             products'[m] = products[IF m < n THEN m ELSE m + 1]
    BY <1>4, <2>1, <2>2, Spliced
  <2>4. \A m \in DOMAIN products' : \E k \in DOMAIN products : products'[m] = products[k]
    BY <2>3
  <2>5. \A k \in DOMAIN products \ {n} : \E m \in DOMAIN products' : products'[m] = products[k]
    <3>1. SUFFICES ASSUME NEW k \in DOMAIN products, k # n
                   PROVE  \E m \in DOMAIN products' : products'[m] = products[k]
      OBVIOUS
    <3>2. CASE k < n
      <4>1. k \in DOMAIN products' /\ products'[k] = products[k]
        BY <2>1, <2>3, <3>1, <3>2
      <4>2. QED BY <4>1
    <3>3. CASE ~(k < n)
      <4>1. k - 1 \in 1 .. Len(products) - 1 /\ ~(k - 1 < n) /\ (k - 1) + 1 = k
        BY <2>1, <2>3, <3>1, <3>3
      <4>2. products'[k - 1] = products[k]
        BY <2>3, <4>1
      <4>3. QED BY <2>3, <4>1, <4>2
    <3>4. QED BY <3>2, <3>3
  <2>6. CatalogInv'
    <3>1. \A m \in DOMAIN products' : products'[m].id <= issued'
      BY <1>1, <1>4, <2>4
    <3>2. renamed' \in BOOLEAN /\ (~renamed' => Ascending(products'))
      BY <1>1, <1>4, <2>3, Zenon DEF OldestFirst
    <3>3. issued' \in Nat /\ call' \in [Calls -> {Idle} \cup Found']
      BY <1>1, <1>2, <1>4
    <3>4. QED BY <2>3, <3>1, <3>2, <3>3, InvByPartsNext
  <2>7. \A i : Listed(i)' => Listed(i)
    BY <2>4 DEF Listed
  <2>8. TakesNamed
    <3>1. SUFFICES ASSUME NEW i \in 1 .. issued, Listed(i), ~Listed(i)'
                   PROVE  call[c].id = i
      BY <1>1, <1>2 DEF TakesNamed
    <3>2. PICK k \in DOMAIN products : products[k].id = i
      BY <3>1 DEF Listed
    <3>3. k = n
      BY <2>5, <3>1, <3>2 DEF Listed
    <3>4. QED BY <2>1, <3>2, <3>3
  <2>9. QED BY <2>6, <2>7, <2>8 DEF GoneStay
<1>7. QED BY <1>5, <1>6

LEMMA RestartStep ==
  ASSUME CatalogInv, Restart
  PROVE  CatalogInv' /\ GoneStay /\ TakesNamed
<1>1. /\ issued \in Nat /\ issued' = issued + Len(Seeds)
      /\ products' \in Seeded(issued) /\ call' = [c \in Calls |-> Idle]
      /\ renamed' = FALSE
  BY DEF CatalogInv, CatalogTypeOK, Restart
<1>2. /\ IsCatalogue(products') /\ Ascending(products')
      /\ Len(Seeds) \in Nat \ {0}
      /\ \A n \in DOMAIN products' : products'[n].id \in issued + 1 .. issued + Len(Seeds)
  BY <1>1, SeededFresh
<1>3. CatalogInv'
  <2>1. \A n \in DOMAIN products' : products'[n].id <= issued'
    BY <1>1, <1>2
  <2>2. issued' \in Nat /\ call' \in [Calls -> {Idle} \cup Found']
    BY <1>1, <1>2
  <2>3. renamed' \in BOOLEAN /\ (~renamed' => Ascending(products'))
    BY <1>1, <1>2, Zenon
  <2>4. QED BY <1>2, <2>1, <2>2, <2>3, InvByPartsNext
<1>4. GoneStay
  BY <1>1, <1>2 DEF GoneStay, Listed
<1>5. TakesNamed
  BY <1>1, <1>2 DEF TakesNamed
<1>6. QED BY <1>3, <1>4, <1>5

LEMMA ServiceStepKeeps ==
  ASSUME CatalogInv, ProductServiceStep
  PROVE  CatalogInv' /\ GoneStay /\ TakesNamed
<1>1. CASE \E b \in NewBodies : Create(b)
  BY <1>1, CreateStep
<1>2. CASE \E c \in Calls, p \in Range(products), d \in Changes :
              Receive(c, "update", p.id, d)
  BY <1>2, ReceiveStep
<1>3. CASE \E c \in Calls, p \in Range(products) : Receive(c, "delete", p.id, None)
  BY <1>3, ReceiveStep
<1>4. CASE \E c \in Calls : Update(c) \/ Delete(c)
  BY <1>4, UpdateStep, DeleteStep
<1>5. CASE Restart
  BY <1>5, RestartStep
<1>6. QED BY <1>1, <1>2, <1>3, <1>4, <1>5 DEF ProductServiceStep

LEMMA BrowseReadsOnly ==
  ASSUME Browse
  PROVE  UNCHANGED catalogVars
  BY DEF Browse, Visit, Refine, Leave, GoShopping, Load, Search, PickCategory, ApplyPrices,
         ToggleStock, Sort, RemoveFilter, Reset, TurnPage, UpdateFilters, Refetch,
         ListAnswered, catalogVars

LEMMA NextKeepsCatalogue ==
  ASSUME CatalogInv, [Next]_vars
  PROVE  CatalogInv' /\ GoneStay /\ TakesNamed
<1>1. CASE ProductServiceStep
  BY <1>1, ServiceStepKeeps
<1>2. CASE Browse \/ UNCHANGED vars
  BY <1>2, BrowseReadsOnly, CatalogueRests DEF vars
<1>3. QED BY <1>1, <1>2 DEF Next

-------------------------------------------------------------------------------
(* The order of the listing is a strict total order of the catalogue.      *)
LEMMA SortKeysCompare ==
  ASSUME NEW p, IsProduct(p), NEW url, url.sortBy \in {"price", "name"} \/ p.born # None
  PROVE  SortKey(p, url) \in Int
<1>1. p.price \in Int /\ p.born \in Int \cup {None} /\ p.name \in Int
  BY NamesAreOrdered DEF IsProduct, Named
<1>2. QED BY <1>1 DEF SortKey

LEMMA AheadIsOrder ==
  ASSUME IsCatalogue(Catalogue), NEW url, Comparable(url),
         NEW m \in Wanted(url), NEW n \in Wanted(url)
  PROVE  /\ ~Ahead(m, m, url)
         /\ m # n => Ahead(m, n, url) \/ Ahead(n, m, url)
         /\ \A k \in Wanted(url) :
              Ahead(k, m, url) /\ Ahead(m, n, url) => Ahead(k, n, url)
<1>1. \A k \in Wanted(url) : k \in Nat /\ SortKey(Catalogue[k], url) \in Int
  <2>1. SUFFICES ASSUME NEW k \in Wanted(url)
                 PROVE  k \in Nat /\ SortKey(Catalogue[k], url) \in Int
    OBVIOUS
  <2>2. k \in DOMAIN Catalogue
    BY DEF Wanted
  <2>3. k \in Nat /\ IsProduct(Catalogue[k])
    BY <2>2, ArrayIs DEF IsCatalogue
  <2>4. QED BY <2>1, <2>3, SortKeysCompare DEF Comparable
<1>2. QED BY <1>1 DEF Ahead, Comparison

(* A place is the number of those ahead, and one more: no two share it,    *)
(* and none is left free, so that there is a way to sort, and only one.    *)
Ranked(n, url) == {m \in Wanted(url) : Ahead(m, n, url)}

LEMMA WantedIsFinite ==
  ASSUME IsCatalogue(Catalogue), NEW url
  PROVE  /\ IsFiniteSet(Wanted(url)) /\ Cardinality(Wanted(url)) \in Nat
         /\ \A n : IsFiniteSet(Ranked(n, url)) /\ Cardinality(Ranked(n, url)) \in Nat
<1>1. IsFiniteSet(DOMAIN Catalogue)
  <2>1. Len(Catalogue) \in Nat /\ DOMAIN Catalogue = 1 .. Len(Catalogue)
    <3>1. PICK s : s = Catalogue
      OBVIOUS
    <3>2. Len(s) \in Nat /\ DOMAIN s = 1 .. Len(s)
      BY <3>1, ArrayIs DEF IsCatalogue
    <3>3. QED BY <3>1, <3>2
  <2>2. 1 \in Int /\ Len(Catalogue) \in Int
    BY <2>1
  <2>3. QED BY <2>1, <2>2, FS_Interval
<1>2. IsFiniteSet(Wanted(url))
  <2>1. Wanted(url) \in SUBSET DOMAIN Catalogue
    BY DEF Wanted
  <2>2. QED BY <1>1, <2>1, FS_Subset
<1>3. \A n : IsFiniteSet(Ranked(n, url))
  <2>1. \A n : Ranked(n, url) \in SUBSET Wanted(url)
    BY DEF Ranked
  <2>2. QED BY <1>2, <2>1, FS_Subset
<1>4. QED BY <1>2, <1>3, FS_CardinalityType

LEMMA AheadIsPlacedBefore ==
  ASSUME IsCatalogue(Catalogue), NEW url, Comparable(url),
         NEW m \in Wanted(url), NEW n \in Wanted(url), Ahead(m, n, url)
  PROVE  Place(m, url) < Place(n, url)
<1>1. Ranked(m, url) \in SUBSET Ranked(n, url)
  BY AheadIsOrder DEF Ranked
<1>2. m \in Ranked(n, url) /\ m \notin Ranked(m, url)
  BY AheadIsOrder DEF Ranked
<1>3. Cardinality(Ranked(m, url)) < Cardinality(Ranked(n, url))
  BY <1>1, <1>2, WantedIsFinite, FS_Subset
<1>4. QED BY <1>3, WantedIsFinite DEF Place, Ranked

LEMMA PlacesAreTaken ==
  ASSUME IsCatalogue(Catalogue), NEW url, Comparable(url)
  PROVE  [n \in Wanted(url) |-> Place(n, url)]
           \in Bijection(Wanted(url), 1 .. Cardinality(Wanted(url)))
<1>1. PICK W, N : W = Wanted(url) /\ N = Cardinality(W)
  OBVIOUS
<1>2. IsFiniteSet(W) /\ N \in Nat
  BY <1>1, WantedIsFinite
<1>3. PICK f : f = [n \in W |-> Place(n, url)]
  OBVIOUS
<1>4. \A n \in W : Place(n, url) \in 1 .. N
  <2>1. SUFFICES ASSUME NEW n \in W PROVE Place(n, url) \in 1 .. N
    OBVIOUS
  <2>2. Ranked(n, url) \in SUBSET W /\ n \notin Ranked(n, url)
    BY <1>1, <1>2, <2>1, AheadIsOrder DEF Ranked
  <2>3. Cardinality(Ranked(n, url)) < N
    BY <1>1, <1>2, <2>1, <2>2, WantedIsFinite, FS_Subset
  <2>4. QED BY <1>2, <2>3, WantedIsFinite DEF Place, Ranked
<1>5. f \in Injection(W, 1 .. N)
  <2>1. \A m, n \in W : m # n => Place(m, url) # Place(n, url)
    <3>1. SUFFICES ASSUME NEW m \in W, NEW n \in W, m # n
                   PROVE  Place(m, url) # Place(n, url)
      OBVIOUS
    <3>2. Ahead(m, n, url) \/ Ahead(n, m, url)
      BY <1>1, <3>1, AheadIsOrder
    <3>3. Place(m, url) \in Int /\ Place(n, url) \in Int
      BY <1>4
    <3>4. QED BY <1>1, <3>2, <3>3, AheadIsPlacedBefore
  <2>2. QED BY <1>3, <1>4, <2>1 DEF Injection, IsInjective
<1>6. IsFiniteSet(1 .. N) /\ Cardinality(1 .. N) = N
  BY <1>2, FS_Interval
<1>7. f \in Surjection(W, 1 .. N)
  BY <1>1, <1>5, <1>6, FS_Injection
<1>8. QED BY <1>1, <1>3, <1>5, <1>7 DEF Bijection

(* So there is a way to sort, and one only; if the dates do not compare,   *)
(* any order will do.                                                      *)
LEMMA SortExists ==
  ASSUME IsCatalogue(Catalogue), NEW url
  PROVE  \E s \in SetToSeqs(Wanted(url)) :
           Comparable(url) => \A i, j \in DOMAIN s : i < j => Ahead(s[i], s[j], url)
<1>1. PICK W, N : W = Wanted(url) /\ N = Cardinality(Wanted(url))
  OBVIOUS
<1>2. IsFiniteSet(W) /\ N \in Nat
  BY <1>1, WantedIsFinite
<1>3. CASE ~Comparable(url)
  <2>1. ExistsBijection(1 .. N, W)
    BY <1>1, <1>2, FS_NatBijection, FS_CountingElements, FS_CardinalityType
  <2>2. PICK s : s \in Bijection(1 .. N, W)
    BY <2>1 DEF ExistsBijection
  <2>3. s \in [1 .. N -> W] /\ \A i, j \in 1 .. N : i # j => s[i] # s[j]
    BY <2>2 DEF Bijection, Injection, IsInjective
  <2>4. s \in SetToSeqs(W)
    BY <1>1, <2>3 DEF SetToSeqs
  <2>5. QED BY <1>1, <1>3, <2>4
<1>4. CASE Comparable(url)
  <2>1. [n \in W |-> Place(n, url)] \in Bijection(W, 1 .. N)
    BY <1>1, <1>4, PlacesAreTaken
  <2>2. PICK s : s = [k \in 1 .. N |-> CHOOSE n \in W : Place(n, url) = k]
    OBVIOUS
  <2>3. \A k \in 1 .. N : s[k] \in W /\ Place(s[k], url) = k
    <3>1. \A k \in 1 .. N : \E n \in W : Place(n, url) = k
      BY <2>1 DEF Bijection, Surjection
    <3>2. QED BY <2>2, <3>1
  <2>4. s \in [1 .. N -> W] /\ \A i, j \in 1 .. N : i # j => s[i] # s[j]
    BY <2>2, <2>3
  <2>5. s \in SetToSeqs(W)
    BY <1>1, <2>4 DEF SetToSeqs
  <2>6. ASSUME NEW i \in 1 .. N, NEW j \in 1 .. N, i < j
        PROVE  Ahead(s[i], s[j], url)
    <3>1. s[i] \in W /\ s[j] \in W /\ s[i] # s[j]
      BY <2>3, <2>4, <2>6
    <3>2. Ahead(s[i], s[j], url) \/ Ahead(s[j], s[i], url)
      BY <1>1, <1>4, <3>1, AheadIsOrder
    <3>3. ~Ahead(s[j], s[i], url)
      <4>1. SUFFICES ASSUME Ahead(s[j], s[i], url) PROVE FALSE
        OBVIOUS
      <4>2. Place(s[j], url) < Place(s[i], url)
        BY <1>1, <1>4, <3>1, <4>1, AheadIsPlacedBefore
      <4>3. QED BY <2>3, <2>6, <4>2
    <3>4. QED BY <3>2, <3>3
  <2>7. DOMAIN s = 1 .. N
    BY <2>2
  <2>8. QED BY <1>1, <2>5, <2>6, <2>7
<1>5. QED BY <1>3, <1>4

(* Whatever the order, each product wanted is listed once.                 *)
LEMMA SortedHasAll ==
  ASSUME IsCatalogue(Catalogue), NEW url, NEW N, N = Cardinality(Wanted(url))
  PROVE  /\ N \in Nat /\ Sorted(url) \in [1 .. N -> Wanted(url)]
         /\ \A i, j \in 1 .. N : i # j => Sorted(url)[i] # Sorted(url)[j]
         /\ Comparable(url) =>
              \A i, j \in 1 .. N : i < j => Ahead(Sorted(url)[i], Sorted(url)[j], url)
<1>1. PICK s : s = Sorted(url)
  OBVIOUS
<1>2. /\ s \in SetToSeqs(Wanted(url))
      /\ Comparable(url) => \A i, j \in DOMAIN s : i < j => Ahead(s[i], s[j], url)
  BY <1>1, SortExists DEF Sorted
<1>3. s \in [1 .. N -> Wanted(url)] /\ \A i, j \in 1 .. N : i # j => s[i] # s[j]
  BY <1>2 DEF SetToSeqs
<1>4. N \in Nat
  BY WantedIsFinite
<1>5. QED BY <1>1, <1>2, <1>3, <1>4

LEMMA SortedIsPlaced ==
  ASSUME IsCatalogue(Catalogue), NEW url, Comparable(url), NEW N, N = Cardinality(Wanted(url))
  PROVE  /\ N \in Nat /\ Sorted(url) \in [1 .. N -> Wanted(url)]
         /\ \A k \in 1 .. N : Place(Sorted(url)[k], url) = k
         /\ \A n \in Wanted(url) : Place(n, url) \in 1 .. N /\ Sorted(url)[Place(n, url)] = n
<1>1. PICK W, s : W = Wanted(url) /\ s = Sorted(url)
  OBVIOUS
<1>2. IsFiniteSet(W) /\ N \in Nat
  BY <1>1, WantedIsFinite
<1>3. \A i, j \in 1 .. N : i < j => Ahead(s[i], s[j], url)
  BY <1>1, SortedHasAll
<1>4. s \in [1 .. N -> W] /\ \A i, j \in 1 .. N : i # j => s[i] # s[j]
  BY <1>1, SortedHasAll
<1>5. s \in Injection(1 .. N, W)
  BY <1>4 DEF Injection, IsInjective
<1>6. IsFiniteSet(1 .. N) /\ Cardinality(1 .. N) = N
  BY <1>2, FS_Interval
<1>7. \A n \in W : \E k \in 1 .. N : s[k] = n
  <2>1. s \in Surjection(1 .. N, W)
    BY <1>1, <1>2, <1>5, <1>6, FS_Injection
  <2>2. QED BY <2>1 DEF Surjection
<1>8. ASSUME NEW k \in 1 .. N
      PROVE  Place(s[k], url) = k
  <2>1. PICK B, R, g : /\ B = 1 .. k - 1 /\ R = Ranked(s[k], url)
                       /\ g = [i \in B |-> s[i]]
    OBVIOUS
  <2>2. B \subseteq 1 .. N /\ \A i \in 1 .. N : i \in B <=> i < k
    BY <1>2, <2>1
  <2>3. \A i \in 1 .. N : Ahead(s[i], s[k], url) <=> i < k
    <3>1. SUFFICES ASSUME NEW i \in 1 .. N PROVE Ahead(s[i], s[k], url) <=> i < k
      OBVIOUS
    <3>2. s[i] \in Wanted(url) /\ s[k] \in Wanted(url)
      BY <1>1, <1>4
    <3>3. CASE i < k
      BY <1>3, <1>4, <3>3
    <3>4. CASE i = k
      BY <3>2, <3>4, AheadIsOrder
    <3>5. CASE k < i
      <4>1. Ahead(s[k], s[i], url)
        BY <1>3, <1>4, <3>5
      <4>2. ~Ahead(s[k], s[k], url)
        BY <3>2, AheadIsOrder
      <4>3. ~Ahead(s[i], s[k], url)
        BY <3>2, <4>1, <4>2, AheadIsOrder
      <4>4. QED BY <3>5, <4>3
    <3>6. QED BY <3>3, <3>4, <3>5
  <2>4. R = {s[i] : i \in B}
    <3>1. \A m \in W : m \in R <=> \E i \in B : s[i] = m
      BY <1>1, <1>7, <2>1, <2>2, <2>3 DEF Ranked
    <3>2. R \subseteq W /\ \A i \in B : s[i] \in W
      BY <1>1, <1>4, <2>1, <2>2 DEF Ranked
    <3>3. QED BY <3>1, <3>2
  <2>5. g \in Bijection(B, R)
    BY <1>4, <2>1, <2>2, <2>4 DEF Bijection, Injection, Surjection, IsInjective
  <2>6. IsFiniteSet(B) /\ Cardinality(B) = k - 1
    <3>1. 1 \in Int /\ k - 1 \in Int
      OBVIOUS
    <3>2. IsFiniteSet(B) /\ Cardinality(B) = IF 1 > k - 1 THEN 0 ELSE (k - 1) - 1 + 1
      BY <2>1, <3>1, FS_Interval
    <3>3. QED BY <3>2
  <2>7. Cardinality(R) = k - 1
    BY <2>5, <2>6, FS_Bijection DEF ExistsBijection
  <2>8. QED BY <2>1, <2>7 DEF Place, Ranked
<1>9. \A n \in W : Place(n, url) \in 1 .. N /\ s[Place(n, url)] = n
  BY <1>7, <1>8
<1>10. QED BY <1>1, <1>2, <1>4, <1>8, <1>9

LEMMA ListingHasAll ==
  ASSUME IsCatalogue(Catalogue), NEW url, NEW N, N = Cardinality(Wanted(url))
  PROVE  /\ N \in Nat /\ DOMAIN FilteredSorted(url) = 1 .. N
         /\ Len(FilteredSorted(url)) = N
         /\ \A k \in 1 .. N :
              /\ Sorted(url)[k] \in Wanted(url)
              /\ FilteredSorted(url)[k] = Catalogue[Sorted(url)[k]]
<1>1. PICK F, s : F = FilteredSorted(url) /\ s = Sorted(url)
  OBVIOUS
<1>2. N \in Nat /\ s \in [1 .. N -> Wanted(url)]
  BY <1>1, SortedHasAll
<1>3. F = [k \in 1 .. N |-> Catalogue[s[k]]]
  BY <1>1, <1>2 DEF FilteredSorted
<1>4. F = [k \in 1 .. N |-> F[k]]
  BY <1>3
<1>5. Len(F) = N
  BY <1>2, <1>4, ArrayOf
<1>6. QED BY <1>1, <1>2, <1>3, <1>5

-------------------------------------------------------------------------------
(* Paging: the page shown is there, and holds something if anything does.  *)
LEMMA QuotientFits ==
  ASSUME NEW a \in Nat, NEW b \in Nat, b > 0
  PROVE  a \div b \in Nat /\ b * (a \div b) <= a
  OBVIOUS

LEMMA PagesAreThere ==
  ASSUME IsCatalogue(Catalogue), NEW url, IsAddress(url),
         NEW N, N = Cardinality(Wanted(url))
  PROVE  /\ N \in Nat /\ TotalPages(url) \in Nat \ {0}
         /\ TotalPages(url) = Larger(1, (N + PerPage - 1) \div PerPage)
         /\ CurrentPage(url) \in 1 .. TotalPages(url)
         /\ (CurrentPage(url) - 1) * PerPage \in Nat
         /\ CurrentPage(url) * PerPage = (CurrentPage(url) - 1) * PerPage + PerPage
         /\ N # 0 => (CurrentPage(url) - 1) * PerPage < N
<1>1. N \in Nat /\ Len(FilteredSorted(url)) = N
  BY ListingHasAll
<1>2. PICK P, T, c, d : /\ P = PerPage /\ T = TotalPages(url) /\ c = CurrentPage(url)
                        /\ d = (N + P - 1) \div P
  OBVIOUS
<1>3. P \in Nat /\ P > 0 /\ url.page \in Int
  BY <1>2, PagesHoldSomething DEF IsAddress
<1>4. d \in Nat /\ P * d <= N + P - 1
  <2>1. N + P - 1 \in Nat
    BY <1>1, <1>3
  <2>2. QED BY <1>2, <1>3, <2>1, QuotientFits
<1>5. T = Larger(1, d)
  BY <1>1, <1>2 DEF TotalPages
<1>6. T \in Nat \ {0} /\ (T = 1 \/ T = d)
  BY <1>4, <1>5 DEF Larger
<1>7. c \in 1 .. T
  BY <1>2, <1>3, <1>6 DEF CurrentPage, Larger, Smaller
<1>8. PICK e : e = c - 1
  OBVIOUS
<1>9. e \in Nat /\ c = e + 1 /\ (e = 0 \/ e + 1 <= d)
  BY <1>4, <1>6, <1>7, <1>8
<1>10. e * P \in Nat /\ c * P = e * P + P
  BY <1>3, <1>9
<1>11. ASSUME N # 0 PROVE e * P < N
  <2>1. CASE e = 0
    BY <1>1, <1>3, <1>11, <2>1
  <2>2. CASE e + 1 <= d
    <3>1. PICK g : g = d - (e + 1)
      OBVIOUS
    <3>2. g \in Nat /\ d = e + 1 + g
      BY <1>4, <1>9, <2>2, <3>1
    <3>3. P * d = e * P + P + P * g /\ P * g \in Nat
      BY <1>3, <1>9, <3>2
    <3>4. QED BY <1>1, <1>3, <1>4, <1>10, <3>3
  <2>3. QED BY <1>9, <2>1, <2>2
<1>12. QED BY <1>1, <1>2, <1>5, <1>6, <1>7, <1>8, <1>10, <1>11

LEMMA ShownIsPage ==
  ASSUME IsCatalogue(Catalogue), NEW url, IsAddress(url),
         NEW N, N = Cardinality(Wanted(url)),
         NEW first, first = (CurrentPage(url) - 1) * PerPage
  PROVE  /\ N \in Nat /\ first \in Nat
         /\ \A j : j \in DOMAIN Shown(url) <=> j \in 1 .. PerPage /\ first + j <= N
         /\ \A j \in DOMAIN Shown(url) : Shown(url)[j] = FilteredSorted(url)[first + j]
         /\ N # 0 => Shown(url) # <<>>
<1>1. PICK P, F, last, s : /\ P = PerPage /\ F = FilteredSorted(url)
                           /\ last = Smaller(first + P, N) /\ s = Shown(url)
  OBVIOUS
<1>2. /\ N \in Nat /\ first \in Nat /\ P \in Nat /\ P > 0
      /\ CurrentPage(url) * PerPage = first + P
      /\ N # 0 => first < N
  BY <1>1, PagesAreThere, PagesHoldSomething
<1>3. Len(F) = N /\ DOMAIN F = 1 .. N
  BY <1>1, ListingHasAll
<1>4. s = SubSeq(F, first + 1, last)
  BY <1>1, <1>2, <1>3 DEF Shown
<1>5. last \in Nat /\ last <= N /\ (last = N \/ last = first + P) /\ last <= first + P
  BY <1>1, <1>2 DEF Smaller
<1>6. PICK S : S = Range(F)
  OBVIOUS
<1>7. \A i \in first + 1 .. last : F[i] \in S
  BY <1>2, <1>3, <1>5, <1>6 DEF Range
<1>8. first + 1 \in Int /\ last \in Int
  BY <1>2, <1>5
<1>9. /\ s \in Seq(S)
      /\ Len(s) = IF first + 1 <= last THEN last - (first + 1) + 1 ELSE 0
      /\ \A i \in 1 .. last - (first + 1) + 1 : s[i] = F[first + 1 + i - 1]
  BY <1>4, <1>7, <1>8, SubSeqProperties
<1>10. DOMAIN s = 1 .. Len(s)
  BY <1>9
<1>11. \A j : j \in DOMAIN s <=> j \in 1 .. P /\ first + j <= N
  <2>1. Len(s) \in Nat /\ first + Len(s) = IF first <= last THEN last ELSE first
    BY <1>2, <1>5, <1>9
  <2>2. \A j \in Nat \ {0} : j <= Len(s) <=> j <= P /\ first + j <= N
    BY <1>2, <1>5, <2>1
  <2>3. QED BY <1>2, <1>10, <2>1, <2>2
<1>12. \A j \in DOMAIN s : s[j] = F[first + j]
  <2>1. SUFFICES ASSUME NEW j \in DOMAIN s PROVE s[j] = F[first + j]
    OBVIOUS
  <2>2. j \in 1 .. last - (first + 1) + 1 /\ first + 1 + j - 1 = first + j
    BY <1>2, <1>5, <1>9, <1>10, <2>1
  <2>3. QED BY <1>9, <2>2
<1>13. N # 0 => s # <<>>
  <2>1. N # 0 => 1 \in DOMAIN s
    BY <1>2, <1>11
  <2>2. QED BY <2>1
<1>14. QED BY <1>1, <1>2, <1>11, <1>12, <1>13

LEMMA CatalogueIsTyped ==
  ASSUME ShopTypeOK
  PROVE  IsCatalogue(Catalogue)
<1>1. CASE list.data = None
  <2>1. Catalogue = <<>> /\ DOMAIN <<>> = {} /\ <<>> \in Seq(Range(<<>>))
    BY <1>1 DEF Catalogue
  <2>2. QED BY <2>1 DEF IsCatalogue
<1>2. CASE list.data # None
  <2>1. PICK s : s = Catalogue
    OBVIOUS
  <2>2. IsCatalogue(s)
    BY <1>2, <2>1 DEF ShopTypeOK, Catalogue
  <2>3. QED BY <2>1, <2>2
<1>3. QED BY <1>1, <1>2

LEMMA TypedListingIsRight ==
  ASSUME ShopTypeOK
  PROVE  ListingIsRight
<1>1. SUFFICES ASSUME view.at = "shop"
               PROVE  ListingIsRight
  BY DEF ListingIsRight
<1>2. PICK url, N, first, shown :
        /\ url = view.url /\ N = Cardinality(Wanted(url))
        /\ first = (CurrentPage(url) - 1) * PerPage /\ shown = Shown(url)
  OBVIOUS
<1>3. IsCatalogue(Catalogue) /\ IsAddress(url)
  BY <1>1, <1>2, CatalogueIsTyped DEF ShopTypeOK
<1>4. /\ N \in Nat /\ first \in Nat
      /\ \A j : j \in DOMAIN shown <=> j \in 1 .. PerPage /\ first + j <= N
      /\ \A j \in DOMAIN shown : shown[j] = FilteredSorted(url)[first + j]
      /\ N # 0 => shown # <<>>
  BY <1>2, <1>3, ShownIsPage
<1>5. \A j \in DOMAIN shown : first + j \in 1 .. N
  BY <1>4, PagesHoldSomething
<1>6. \A j \in DOMAIN shown :
        /\ Sorted(url)[first + j] \in Wanted(url)
        /\ shown[j] = Catalogue[Sorted(url)[first + j]]
  BY <1>2, <1>3, <1>4, <1>5, ListingHasAll
<1>7. \A j \in DOMAIN shown : j <= PerPage /\ Matches(shown[j], url)
  BY <1>4, <1>6, PagesHoldSomething DEF Wanted
<1>8. Wanted(url) # {} => shown # <<>>
  <2>1. Wanted(url) # {} => N # 0
    BY <1>2, <1>3, WantedIsFinite, FS_EmptySet
  <2>2. QED BY <1>4, <2>1
<1>9. ASSUME Comparable(url)
      PROVE  /\ DOMAIN shown = {Place(n, url) - first : n \in Wanted(url)} \cap (1 .. PerPage)
             /\ \A n \in Wanted(url) :
                  Place(n, url) - first \in 1 .. PerPage
                    => shown[Place(n, url) - first] = Catalogue[n]
  <2>1. /\ \A k \in 1 .. N : Sorted(url)[k] \in Wanted(url) /\ Place(Sorted(url)[k], url) = k
        /\ \A n \in Wanted(url) :
             Place(n, url) \in 1 .. N /\ Sorted(url)[Place(n, url)] = n
    BY <1>2, <1>3, <1>9, SortedIsPlaced
  <2>2. ASSUME NEW n \in Wanted(url), NEW k, k = Place(n, url) - first, k \in 1 .. PerPage
        PROVE  k \in DOMAIN shown /\ shown[k] = Catalogue[n]
    <3>1. first + k = Place(n, url) /\ first + k <= N
      BY <1>4, <2>1, <2>2
    <3>2. k \in DOMAIN shown
      BY <1>4, <2>2, <3>1
    <3>3. QED BY <1>6, <2>1, <2>2, <3>1, <3>2
  <2>3. ASSUME NEW k \in DOMAIN shown
        PROVE  k \in 1 .. PerPage /\ \E n \in Wanted(url) : k = Place(n, url) - first
    <3>1. PICK n : n = Sorted(url)[first + k]
      OBVIOUS
    <3>2. n \in Wanted(url) /\ Place(n, url) = first + k
      BY <1>5, <2>1, <2>3, <3>1
    <3>3. k \in 1 .. PerPage /\ k = Place(n, url) - first
      BY <1>4, <2>3, <3>2, PagesHoldSomething
    <3>4. QED BY <3>2, <3>3
  <2>4. QED BY <2>2, <2>3
<1>10. QED BY <1>2, <1>7, <1>8, <1>9 DEF ListingIsRight

-------------------------------------------------------------------------------
(* What a control pushes is an address, of the first page, but for the     *)
(* buttons that turn one.                                                  *)
LEMMA UpdatedIsAddress ==
  ASSUME NEW url, IsAddress(url), NEW u, DOMAIN u \subseteq DOMAIN Plain,
         "page" \in DOMAIN u => u.page \in Int
  PROVE  LET v == Spread([url EXCEPT !.page = 1], u)
         IN  /\ IsAddress(v)
             /\ v.page = IF "page" \in DOMAIN u THEN u.page ELSE 1
             /\ \A k \in DOMAIN Plain \ {"page"} :
                  v[k] = IF k \in DOMAIN u THEN u[k] ELSE url[k]
<1>1. PICK p, v : p = [url EXCEPT !.page = 1] /\ v = Spread(p, u)
  OBVIOUS
<1>2. DOMAIN p = DOMAIN Plain /\ \A k \in DOMAIN Plain : p[k] = IF k = "page" THEN 1 ELSE url[k]
  BY <1>1 DEF IsAddress
<1>3. /\ DOMAIN v = DOMAIN Plain
      /\ \A k \in DOMAIN Plain : v[k] = IF k \in DOMAIN u THEN u[k] ELSE p[k]
  BY <1>1, <1>2 DEF Spread
<1>4. "page" \in DOMAIN Plain
  BY DEF Plain
<1>5. v.page = (IF "page" \in DOMAIN u THEN u.page ELSE 1) /\ v.page \in Int
  BY <1>2, <1>3, <1>4
<1>6. QED BY <1>1, <1>2, <1>3, <1>5 DEF IsAddress

PushesFirst ==
  /\ view.at = "shop" /\ UNCHANGED list
  /\ view'.at = "shop" /\ IsAddress(view'.url) /\ view'.url.page = 1

LEMMA UpdatePushesFirst ==
  ASSUME ShopTypeOK, NEW u, DOMAIN u \subseteq DOMAIN Plain \ {"page"}, UpdateFilters(u)
  PROVE  PushesFirst
<1>1. PICK url, v : url = view.url /\ v = Spread([url EXCEPT !.page = 1], u)
  OBVIOUS
<1>2. view.at = "shop" /\ UNCHANGED list /\ view' = [at |-> "shop", url |-> v]
  BY <1>1 DEF UpdateFilters
<1>3. IsAddress(url)
  BY <1>1, <1>2 DEF ShopTypeOK
<1>4. IsAddress(v) /\ v.page = 1
  BY <1>1, <1>3, UpdatedIsAddress
<1>5. QED BY <1>2, <1>4 DEF PushesFirst

LEMMA RefinePushes ==
  ASSUME ShopTypeOK, Refine
  PROVE  PushesFirst \/ \E step \in {"previous", "next"} : TurnPage(step)
<1>1. DOMAIN Plain = {"term", "category", "min", "max", "inStock", "sortBy", "asc", "page"}
  BY DEF Plain
<1>2. ASSUME NEW t, Search(t) PROVE PushesFirst
  BY <1>1, <1>2, UpdatePushesFirst DEF Search
<1>3. ASSUME NEW c, PickCategory(c) PROVE PushesFirst
  BY <1>1, <1>3, UpdatePushesFirst DEF PickCategory
<1>4. ASSUME NEW low, NEW high, ApplyPrices(low, high) PROVE PushesFirst
  BY <1>1, <1>4, UpdatePushesFirst DEF ApplyPrices
<1>5. ASSUME ToggleStock PROVE PushesFirst
  <2>1. PICK u : u = [inStock |-> ~view.url.inStock]
    OBVIOUS
  <2>2. UpdateFilters(u)
    BY <1>5, <2>1 DEF ToggleStock
  <2>3. QED BY <1>1, <2>1, <2>2, UpdatePushesFirst
<1>6. ASSUME NEW by, NEW up, Sort(by, up) PROVE PushesFirst
  BY <1>1, <1>6, UpdatePushesFirst DEF Sort
<1>7. ASSUME NEW key \in Filterable, RemoveFilter(key) PROVE PushesFirst
  <2>1. PICK u : u = [k \in {key} |-> Plain[k]]
    OBVIOUS
  <2>2. UpdateFilters(u) /\ DOMAIN u = {key} /\ key # "page" /\ key \in DOMAIN Plain
    BY <1>1, <1>7, <2>1 DEF RemoveFilter, Filterable
  <2>3. QED BY <2>2, UpdatePushesFirst
<1>8. ASSUME Reset PROVE PushesFirst
  BY <1>8 DEF Reset, PushesFirst, IsAddress, Plain
<1>9. QED BY <1>2, <1>3, <1>4, <1>5, <1>6, <1>7, <1>8 DEF Refine

LEMMA TurnPushes ==
  ASSUME ShopTypeOK, NEW step \in {"previous", "next"}, TurnPage(step),
         NEW url, url = view.url, NEW v, v = view'.url
  PROVE  /\ view.at = "shop" /\ view'.at = "shop" /\ UNCHANGED list
         /\ IsAddress(url) /\ IsAddress(v)
         /\ \A k \in DOMAIN Plain \ {"page"} : v[k] = url[k]
         /\ v.page \in 1 .. TotalPages(url)
         /\ v.page \in {CurrentPage(url) - 1, CurrentPage(url) + 1}
<1>1. PICK c, T : c = CurrentPage(url) /\ T = TotalPages(url)
  OBVIOUS
<1>2. view.at = "shop" /\ IsAddress(url)
  BY DEF TurnPage, ShopTypeOK
<1>3. T \in Nat \ {0} /\ c \in 1 .. T
  BY <1>1, <1>2, CatalogueIsTyped, PagesAreThere
<1>4. PICK p : /\ (p = c + 1 /\ c < T) \/ (p = c - 1 /\ c > 1)
               /\ UpdateFilters([page |-> p])
  BY <1>1 DEF TurnPage
<1>5. p \in 1 .. T /\ p \in {c - 1, c + 1}
  BY <1>3, <1>4
<1>6. PICK u : u = [page |-> p]
  OBVIOUS
<1>7. /\ view'.at = "shop" /\ UNCHANGED list
      /\ v = Spread([url EXCEPT !.page = 1], u)
  BY <1>4, <1>6 DEF UpdateFilters
<1>8. DOMAIN u = {"page"} /\ u.page = p /\ "page" \in DOMAIN Plain /\ p \in Int
  BY <1>5, <1>6 DEF Plain
<1>9. IsAddress(v) /\ v.page = p /\ \A k \in DOMAIN Plain \ {"page"} : v[k] = url[k]
  BY <1>2, <1>7, <1>8, UpdatedIsAddress
<1>10. QED BY <1>1, <1>2, <1>5, <1>7, <1>9

-------------------------------------------------------------------------------
(* Steps of the listing keep it typed.                                     *)
ListOK(q) ==
  /\ DOMAIN q = DOMAIN Empty /\ q.busy \in BOOLEAN /\ q.error \in BOOLEAN
  /\ q.data # None => IsCatalogue(q.data)

LEMMA EntriesStayTyped ==
  ASSUME NEW q, ListOK(q)
  PROVE  /\ ListOK(Fetching(q)) /\ ListOK(Failed(q))
         /\ \A r \in Mounted(q) : ListOK(r)
         /\ ListOK(Fetching(Empty))
<1>1. ASSUME NEW r, ListOK(r) PROVE ListOK(Fetching(r)) /\ ListOK(Failed(r))
  BY <1>1 DEF ListOK, Fetching, Failed, Empty
<1>2. ListOK(Empty)
  BY DEF ListOK, Empty
<1>3. QED BY <1>1, <1>2 DEF Mounted

LEMMA LoadedIsTyped ==
  ASSUME NEW d, IsCatalogue(d)
  PROVE  ListOK(Loaded(d))
  BY DEF ListOK, Loaded, Empty

LEMMA TypedByParts ==
  ShopTypeOK <=> /\ view.at \in {"elsewhere", "shop"}
                 /\ view.at = "shop" => IsAddress(view.url)
                 /\ ListOK(list)
  BY DEF ShopTypeOK, ListOK

LEMMA BrowseKeepsTyped ==
  ASSUME CatalogInv, ShopTypeOK, [Next]_vars
  PROVE  ShopTypeOK'
<1>1. ListOK(list)
  BY TypedByParts
<1>2. SUFFICES /\ view'.at \in {"elsewhere", "shop"}
               /\ view'.at = "shop" => IsAddress(view'.url)
               /\ ListOK(list')
  BY DEF ShopTypeOK, ListOK, IsAddress, IsCatalogue
<1>3. IsAddress(Plain)
  BY DEF IsAddress, Plain
<1>4. CASE UNCHANGED pageVars
  BY <1>1, <1>4 DEF ShopTypeOK, pageVars
<1>5. CASE Visit
  <2>1. CASE Leave
    BY <1>1, <2>1, EntriesStayTyped DEF Leave
  <2>2. ASSUME NEW url \in Entries, GoShopping(url) \/ Load(url)
        PROVE  /\ view'.at = "shop" /\ IsAddress(view'.url) /\ ListOK(list')
    BY <1>1, <2>2, EntriesStayTyped, EntriesAreAddresses DEF GoShopping, Load
  <2>3. QED BY <1>5, <2>1, <2>2 DEF Visit
<1>6. CASE Refine
  <2>1. CASE PushesFirst
    BY <1>1, <2>1 DEF PushesFirst
  <2>2. CASE \E step \in {"previous", "next"} : TurnPage(step)
    BY <1>1, <2>2, TurnPushes
  <2>3. QED BY <1>6, <2>1, <2>2, RefinePushes
<1>7. CASE Refetch
  BY <1>1, <1>7, EntriesStayTyped DEF Refetch, ShopTypeOK
<1>8. CASE ListAnswered
  <2>1. IsCatalogue(products)
    BY DEF CatalogInv, CatalogTypeOK
  <2>2. ListOK(list')
    BY <1>1, <1>8, <2>1, EntriesStayTyped, LoadedIsTyped DEF ListAnswered
  <2>3. QED BY <1>8, <2>2 DEF ListAnswered, ShopTypeOK
<1>9. QED BY <1>4, <1>5, <1>6, <1>7, <1>8 DEF Next, Browse, vars

LEMMA InitIsTyped ==
  ShopInit => ShopInv
<1>1. SUFFICES ASSUME ShopInit PROVE ShopInv
  OBVIOUS
<1>2. ShopTypeOK
  <2>1. ListOK(Empty)
    BY DEF ListOK, Empty
  <2>2. ListOK(Fetching(Empty))
    BY <2>1, EntriesStayTyped
  <2>3. view.at = "elsewhere" /\ ListOK(list)
    BY <1>1, <2>2 DEF ShopInit
  <2>4. QED BY <2>3, TypedByParts
<1>3. /\ products \in Seeded(0) /\ issued = Len(Seeds)
      /\ call = [c \in Calls |-> Idle] /\ renamed = FALSE
  BY <1>1 DEF ShopInit, Init
<1>4. PICK s : s = products
  OBVIOUS
<1>5. /\ IsCatalogue(s) /\ Ascending(s)
      /\ Len(Seeds) \in Nat \ {0}
      /\ \A n \in DOMAIN s : s[n].id \in 0 + 1 .. 0 + Len(Seeds)
  <2>1. 0 \in Nat /\ s \in Seeded(0)
    BY <1>3, <1>4
  <2>2. QED BY <2>1, SeededFresh
<1>6. /\ issued \in Nat /\ call \in [Calls -> {Idle} \cup Found]
      /\ \A n \in DOMAIN products : products[n].id <= issued
  BY <1>3, <1>4, <1>5
<1>7. CatalogInv
  <2>1. renamed \in BOOLEAN /\ IsCatalogue(products) /\ Ascending(products)
    BY <1>3, <1>4, <1>5
  <2>2. QED BY <1>6, <2>1, InvByParts
<1>8. QED BY <1>2, <1>7 DEF ShopInv

(* ShopInv: the catalogue and the browser's copy of it are typed, and      *)
(* unless a PUT gave a product another identifier each names one product,  *)
(* in the order in which they were generated.                              *)
THEOREM ShopSafety == Spec => []ShopInv
<1>1. ShopInv /\ [Next]_vars => ShopInv'
  BY NextKeepsCatalogue, BrowseKeepsTyped DEF ShopInv
<1>2. QED BY InitIsTyped, <1>1, PTL DEF Spec

(* ListingIsRight: whatever the address and whatever the cached list, each *)
(* product that passes the filters is on one page, at its place, if what   *)
(* they are sorted by compares, and nothing else is shown in any case.     *)
THEOREM ListingAlwaysRight == Spec => []ListingIsRight
<1>1. ShopInv => ListingIsRight
  BY TypedListingIsRight DEF ShopInv
<1>2. QED BY <1>1, ShopSafety, PTL

(* GoneStaysGone: no identifier that was deleted or lost is listed again,  *)
(* by any number of overlapping calls, but by a PUT whose body names it.   *)
THEOREM GoneIsGone == Spec => GoneStaysGone
<1>1. ShopInv /\ [Next]_vars
        => [\A i \in 1 .. issued : ~Listed(i) /\ Listed(i)' =>
              \E c \in Calls : /\ Running(c) /\ ~Running(c)'
                               /\ call[c].op = "update" /\ GivesId(call[c].change, i)]_catalogVars
  BY NextKeepsCatalogue DEF ShopInv, GoneStay
<1>2. QED BY <1>1, ShopSafety, PTL DEF Spec, GoneStaysGone

(* DeletesWhatItNames: an identifier leaves the catalogue by a deletion    *)
(* that names it, in a restart, or by a PUT that gives its product another.*)
THEOREM DeletionsAreExact == Spec => DeletesWhatItNames
<1>1. ShopInv /\ [Next]_vars
        => [\A i \in 1 .. issued : Listed(i) /\ ~Listed(i)' /\ issued' = issued =>
              \E c \in Calls : /\ Running(c) /\ ~Running(c)' /\ call[c].id = i
                               /\ \/ call[c].op = "delete"
                                  \/ call[c].op = "update" /\ GivesOther(call[c].change, i)]_catalogVars
  BY NextKeepsCatalogue DEF ShopInv, TakesNamed
<1>2. QED BY <1>1, ShopSafety, PTL DEF Spec, DeletesWhatItNames

-------------------------------------------------------------------------------
(* Turning pages.  Under the same filters there are as many pages as      *)
(* before, and of no products there is one, which is empty.                *)
LEMMA FirstPageIsFirst ==
  ASSUME IsCatalogue(Catalogue), NEW url, IsAddress(url), url.page = 1
  PROVE  CurrentPage(url) = 1
<1>1. TotalPages(url) \in Nat \ {0}
  BY PagesAreThere
<1>2. QED BY <1>1 DEF CurrentPage, Larger, Smaller

LEMMA NothingIsOnePage ==
  ASSUME Catalogue = <<>>, NEW url, IsAddress(url)
  PROVE  CurrentPage(url) = 1
<1>1. IsCatalogue(Catalogue) /\ DOMAIN Catalogue = {}
  <2>1. DOMAIN <<>> = {} /\ <<>> \in Seq(Range(<<>>))
    OBVIOUS
  <2>2. QED BY <2>1 DEF IsCatalogue
<1>2. Wanted(url) = {}
  BY <1>1 DEF Wanted
<1>3. Cardinality(Wanted(url)) = 0
  BY <1>2, FS_EmptySet
<1>4. TotalPages(url) = Larger(1, (PerPage - 1) \div PerPage)
  <2>1. TotalPages(url) = Larger(1, (0 + PerPage - 1) \div PerPage)
    BY <1>1, <1>3, PagesAreThere
  <2>2. 0 + PerPage - 1 = PerPage - 1
    BY PagesHoldSomething
  <2>3. QED BY <2>1, <2>2
<1>5. (PerPage - 1) \div PerPage = 0
  <2>1. PICK q : q = (PerPage - 1) \div PerPage
    OBVIOUS
  <2>2. PerPage \in Nat /\ PerPage > 0 /\ PerPage - 1 \in Nat
    BY PagesHoldSomething
  <2>3. q \in Nat /\ PerPage * q <= PerPage - 1
    BY <2>1, <2>2, QuotientFits
  <2>4. q = 0
    <3>1. SUFFICES ASSUME q >= 1 PROVE FALSE
      BY <2>3
    <3>2. PICK r : r = q - 1
      OBVIOUS
    <3>3. r \in Nat /\ q = r + 1
      BY <2>3, <3>1, <3>2
    <3>4. PerPage * q = PerPage * r + PerPage /\ PerPage * r \in Nat
      BY <2>2, <3>3
    <3>5. QED BY <2>2, <2>3, <3>4
  <2>5. QED BY <2>1, <2>4
<1>6. CurrentPage(url) \in 1 .. 1
  <2>1. TotalPages(url) = 1
    BY <1>4, <1>5 DEF Larger
  <2>2. CurrentPage(url) \in 1 .. TotalPages(url)
    BY <1>1, PagesAreThere
  <2>3. QED BY <2>1, <2>2
<1>7. QED BY <1>6

LEMMA SameFiltersSamePages ==
  ASSUME IsCatalogue(Catalogue), NEW url, IsAddress(url), NEW v, IsAddress(v),
         \A k \in DOMAIN Plain \ {"page"} : v[k] = url[k]
  PROVE  TotalPages(v) = TotalPages(url)
<1>1. Wanted(v) = Wanted(url)
  <2>1. {"term", "category", "min", "max", "inStock"} \subseteq DOMAIN Plain \ {"page"}
    BY DEF Plain
  <2>2. /\ v.term = url.term /\ v.category = url.category
        /\ v.min = url.min /\ v.max = url.max /\ v.inStock = url.inStock
    BY <2>1
  <2>3. \A p : Matches(p, v) <=> Matches(p, url)
    BY <2>2 DEF Matches
  <2>4. QED BY <2>3 DEF Wanted
<1>2. QED BY <1>1, PagesAreThere

LEMMA TurnsByOne ==
  ASSUME ShopTypeOK, NEW step \in {"previous", "next"}, TurnPage(step),
         NEW url, url = view.url, NEW v, v = view'.url
  PROVE  /\ Filters(url) = Filters(v)
         /\ CurrentPage(v) \in {CurrentPage(url) - 1, CurrentPage(url) + 1}
<1>1. /\ IsAddress(url) /\ IsAddress(v)
      /\ \A k \in DOMAIN Plain \ {"page"} : v[k] = url[k]
      /\ v.page \in 1 .. TotalPages(url)
      /\ v.page \in {CurrentPage(url) - 1, CurrentPage(url) + 1}
  BY TurnPushes
<1>2. TotalPages(url) \in Nat \ {0} /\ TotalPages(v) = TotalPages(url)
  BY <1>1, CatalogueIsTyped, PagesAreThere, SameFiltersSamePages
<1>3. CurrentPage(v) = v.page
  BY <1>1, <1>2 DEF CurrentPage, Larger, Smaller
<1>4. Filters(url) = Filters(v)
  BY <1>1 DEF Filters, IsAddress
<1>5. QED BY <1>1, <1>3, <1>4

LEMMA StepTurnsByOne ==
  ASSUME ShopInv, [Next]_vars, view.at = "shop", view'.at = "shop", view' # view,
         UNCHANGED list, NEW url, url = view.url, NEW v, v = view'.url
  PROVE  IF Filters(url) = Filters(v)
         THEN CurrentPage(v) \in {1, CurrentPage(url) - 1, CurrentPage(url) + 1}
         ELSE CurrentPage(v) = 1
<1>1. ShopTypeOK /\ IsCatalogue(Catalogue)
  BY CatalogueIsTyped DEF ShopInv
<1>2. CASE PushesFirst
  <2>1. IsAddress(v) /\ v.page = 1
    BY <1>2 DEF PushesFirst
  <2>2. CurrentPage(v) = 1
    BY <1>1, <2>1, FirstPageIsFirst
  <2>3. QED BY <2>2
<1>3. CASE \E step \in {"previous", "next"} : TurnPage(step)
  BY <1>1, <1>3, TurnsByOne
<1>4. CASE \E u \in Entries : Load(u)
  <2>1. PICK u \in Entries : Load(u)
    BY <1>4
  <2>2. v = u /\ IsAddress(v)
    BY <2>1, EntriesAreAddresses DEF Load
  <2>3. Catalogue = <<>>
    BY <2>1 DEF Load, Fetching, Empty, Catalogue
  <2>4. CurrentPage(v) = 1
    BY <2>2, <2>3, NothingIsOnePage
  <2>5. QED BY <2>4
<1>5. CASE Refine
  BY <1>1, <1>2, <1>3, <1>5, RefinePushes
<1>6. Refine \/ \E u \in Entries : Load(u)
  BY DEF Next, Browse, Visit, Leave, GoShopping, Refetch, ListAnswered, pageVars, vars
<1>7. QED BY <1>4, <1>5, <1>6

(* PagesTurnOneByOne: the buttons turn one page of what is on display, and *)
(* every other control of the listing goes to the first page.              *)
THEOREM PagesTurn == Spec => PagesTurnOneByOne
<1>1. ASSUME ShopInv, [Next]_vars
      PROVE  [view.at = "shop" /\ view'.at = "shop" /\ view' # view /\ UNCHANGED <<list>> =>
                LET here == CurrentPage(view.url)
                    there == CurrentPage(view'.url)
                IN  IF Filters(view.url) = Filters(view'.url)
                    THEN there \in {1, here - 1, here + 1}
                    ELSE there = 1]_vars
  <2>1. PICK url, v : url = view.url /\ v = view'.url
    OBVIOUS
  <2>2. SUFFICES ASSUME view.at = "shop", view'.at = "shop", view' # view, UNCHANGED <<list>>
                 PROVE  IF Filters(url) = Filters(v)
                        THEN CurrentPage(v) \in {1, CurrentPage(url) - 1, CurrentPage(url) + 1}
                        ELSE CurrentPage(v) = 1
    BY <2>1
  <2>3. QED BY <1>1, <2>1, <2>2, StepTurnsByOne
<1>2. QED BY <1>1, ShopSafety, PTL DEF Spec, PagesTurnOneByOne

===============================================================================
