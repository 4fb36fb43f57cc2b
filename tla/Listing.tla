-------------------------------- MODULE Listing --------------------------------
(***************************************************************************)
(* A reader pages through the catalog while staff and vendors edit it.     *)
(*                                                                         *)
(* The screen's filters live in the URL; every change of it asks the       *)
(* server, which answers from five statements of no common transaction:    *)
(* the number of products, the counts by category, the page of             *)
(* identifiers, their rows, and the number of matches.  The reader waits   *)
(* for each answer; Pages is about readers who do not.                     *)
(***************************************************************************)
EXTENDS Integers, FiniteSets

CONSTANTS
  Goods,          \* products: their identifiers, which are ordered
  Categories,
  Prices,
  PageSize,       \* 24 in the code
  Unset,          \* no such filter in the URL
  MaxEdits        \* bound: edits while one list is read

\* Identifiers are numbers, and there are finitely many products; a page shows
\* one product or more; no category is named like a filter that is not set.
ListingAssumption ==
  /\ Goods \subseteq Int /\ IsFiniteSet(Goods)
  /\ Prices \subseteq Int
  /\ PageSize \in Nat \ {0}
  /\ Unset \notin Categories
  /\ MaxEdits \in Nat

VARIABLES
  product,        \* products: their rows
  url,            \* what the address bar asks for
  answer,         \* the answer in the making, or the one on the screen
  collected,      \* pages read one after the other: the products they showed
  edited          \* how many edits since the first of them was asked for

vars == <<product, url, answer, collected, edited>>

NoCategory == "no category"
Sorts == {"newest", "price-asc", "price-desc"}
FirstPage == [category |-> Unset, maxPrice |-> Unset, sort |-> "newest", page |-> 1]

(***************************************************************************)
(* The statements.                                                         *)
(***************************************************************************)
\* The filters that the facets share with the list, and the category, which they do not.
Base(u) == {g \in Goods : /\ product[g].active
                          /\ u.maxPrice = Unset \/ product[g].price <= u.maxPrice}
Matching(u) == {g \in Base(u) : u.category = Unset \/ product[g].category = u.category}

\* Products of one key keep the order of their identifiers, which the library appends.
Key(g, sort) ==
  CASE sort = "price-asc"  -> product[g].price
    [] sort = "price-desc" -> -product[g].price
    [] OTHER               -> -g       \* identifiers stand for times of creation
Before(g, h, sort) ==
  \/ Key(g, sort) < Key(h, sort)
  \/ Key(g, sort) = Key(h, sort) /\ g < h

\* Fault: pages counted from zero.
SkippedFromZero(page) == page * PageSize

Skipped(page) == (page - 1) * PageSize

PageIds(u) ==
  {g \in Matching(u) :
     LET rank == Cardinality({h \in Matching(u) : Before(h, g, u.sort)})
     IN Skipped(u.page) <= rank /\ rank < Skipped(u.page) + PageSize}

CountOf(u, category) == Cardinality({g \in Base(u) : product[g].category = category})
Pages(total) == (total + PageSize - 1) \div PageSize

Nothing == [stage |-> "asked", all |-> 0, pills |-> <<>>, ids |-> {}, items |-> {}, total |-> 0]

Init ==
  /\ product \in [Goods -> [category : Categories \cup {NoCategory},
                            price : Prices, active : {TRUE}]]
  /\ url = FirstPage
  /\ answer = Nothing
  /\ collected = <<>>
  /\ edited = 0

(***************************************************************************)
(* query, statement by statement.                                          *)
(***************************************************************************)
At(stage) == answer.stage = stage /\ UNCHANGED <<product, url, edited>>

CountProducts ==
  /\ At("asked")
  /\ answer' = [answer EXCEPT !.stage = "counted", !.all = Cardinality(Base(url))]
  /\ UNCHANGED collected

GroupByCategory ==
  /\ At("counted")
  /\ answer' = [answer EXCEPT !.stage = "grouped",
       !.pills = [c \in {d \in Categories : CountOf(url, d) > 0} |-> CountOf(url, c)]]
  /\ UNCHANGED collected

SelectIds ==
  /\ At("grouped")
  /\ answer' = [answer EXCEPT !.stage = "selected", !.ids = PageIds(url)]
  /\ UNCHANGED collected

\* The rows of the page, as far as they still match.
SelectRows ==
  /\ At("selected")
  /\ answer' = [answer EXCEPT !.stage = "read", !.items = answer.ids \cap Matching(url)]
  /\ UNCHANGED collected

CountMatches ==
  /\ At("read")
  /\ answer' = [answer EXCEPT !.stage = "shown", !.total = Cardinality(Matching(url))]
  /\ collected' = [p \in DOMAIN collected \cup {url.page} |->
                     IF p = url.page THEN answer.items ELSE collected[p]]

(***************************************************************************)
(* The reader.                                                             *)
(***************************************************************************)
Shown == answer.stage = "shown"
TotalPages == Pages(answer.total)

\* A new question, and with it a new collection of pages.
Push(u) ==
  /\ Shown
  /\ u # url
  /\ url' = u
  /\ answer' = Nothing
  /\ collected' = <<>>
  /\ edited' = 0
  /\ UNCHANGED product

\* Every filter starts again from the first page.
UpdateFilter ==
  \/ \E c \in DOMAIN answer.pills \cup {Unset} : Push([url EXCEPT !.category = c, !.page = 1])
  \/ \E m \in Prices \cup {Unset} : Push([url EXCEPT !.maxPrice = m, !.page = 1])
  \/ \E s \in Sorts : Push([url EXCEPT !.sort = s, !.page = 1])
ClearFilters == Push(FirstPage)

\* The pages of one list go on with the collection.
TurnTo(p) ==
  /\ Shown
  /\ TotalPages > 1
  /\ url' = [url EXCEPT !.page = p]
  /\ answer' = Nothing
  /\ UNCHANGED <<product, collected, edited>>
Previous == url.page > 1 /\ TurnTo(url.page - 1)
NextPage == url.page < TotalPages /\ TurnTo(url.page + 1)

(***************************************************************************)
(* Staff and vendors.                                                      *)
(***************************************************************************)
Edit(g, row) ==
  /\ edited < MaxEdits
  /\ row # product[g]
  /\ product' = [product EXCEPT ![g] = row]
  /\ edited' = edited + 1
  /\ UNCHANGED <<url, answer, collected>>

\* updateProduct, which also publishes again what was withdrawn.
UpdateProduct(g) ==
  \/ \E c \in Categories : Edit(g, [product[g] EXCEPT !.category = c])
  \/ \E p \in Prices : Edit(g, [product[g] EXCEPT !.price = p])
  \/ Edit(g, [product[g] EXCEPT !.active = TRUE])
DeleteProduct(g) == Edit(g, [product[g] EXCEPT !.active = FALSE])

Next ==
  \/ CountProducts \/ GroupByCategory \/ SelectIds \/ SelectRows \/ CountMatches
  \/ UpdateFilter \/ ClearFilters \/ Previous \/ NextPage
  \/ \E g \in Goods : UpdateProduct(g) \/ DeleteProduct(g)

Spec == Init /\ [][Next]_vars

(***************************************************************************)
(* Properties.                                                             *)
(***************************************************************************)
Stages == {"asked", "counted", "grouped", "selected", "read", "shown"}

TypeOK ==
  /\ product \in [Goods -> [category : Categories \cup {NoCategory},
                            price : Prices, active : BOOLEAN]]
  /\ url \in [category : Categories \cup {Unset}, maxPrice : Prices \cup {Unset},
              sort : Sorts, page : Nat \ {0}]
  /\ DOMAIN answer = DOMAIN Nothing /\ answer.stage \in Stages
  /\ answer.stage # "asked" => answer.all \in Nat
  /\ DOMAIN answer.pills \subseteq Categories
  /\ answer.ids \subseteq Goods /\ answer.items \subseteq answer.ids
  /\ answer.stage \notin {"read", "shown"} => answer.items = {}
  /\ edited \in 0 .. MaxEdits

\* With every page read and nothing edited since the first, the pages are the
\* list: each match on exactly one of them, and in the order asked for.
PagesAreTheList ==
  DOMAIN collected = 1 .. TotalPages =>
    /\ UNION {collected[p] : p \in DOMAIN collected} = Matching(url)
    /\ \A p, q \in DOMAIN collected : p < q =>
         \A g \in collected[p], h \in collected[q] : Before(g, h, url.sort)

\* Neither a filter nor a turn of the page leads to an empty page of a list
\* that has products.
NoEmptyPage == answer.items = {} => answer.total = 0

\* What a category's pill says is what choosing it will list; the category of
\* the URL says it of the list on the screen.
PillsAreTrue ==
  /\ \A c \in DOMAIN answer.pills :
       answer.pills[c] = Cardinality(Matching([url EXCEPT !.category = c]))
  /\ url.category \in DOMAIN answer.pills => answer.pills[url.category] = answer.total
  /\ url.category = Unset => answer.all = answer.total

\* Reading a list page by page, under any filters and in any order, shows every
\* match once, and the counts next to it are those of the lists they lead to,
\* if nobody edits the catalog meanwhile.
BrowsingIsComplete ==
  Shown /\ edited = 0 => PagesAreTheList /\ NoEmptyPage /\ PillsAreTrue

(***************************************************************************)
(* Why it holds.                                                           *)
(***************************************************************************)
\* What each statement has answered is still so: the later a stage, the more.
Since(stages) == answer.stage \in stages
AnswerIsCurrent ==
  /\ Since(Stages \ {"asked"}) => answer.all = Cardinality(Base(url))
  /\ Since({"grouped", "selected", "read", "shown"}) =>
       answer.pills = [c \in {d \in Categories : CountOf(url, d) > 0} |-> CountOf(url, c)]
  /\ Since({"selected", "read", "shown"}) => answer.ids = PageIds(url)
  /\ Since({"read", "shown"}) => answer.items = PageIds(url)
  /\ Since({"shown"}) => answer.total = Cardinality(Matching(url))

\* The pages collected are those of the list, and the page asked for is one.
CollectedAreCurrent ==
  \A p \in DOMAIN collected :
    p \in Nat \ {0} /\ collected[p] = PageIds([url EXCEPT !.page = p])
PageExists == url.page = 1 \/ url.page <= Pages(Cardinality(Matching(url)))

IInv == TypeOK /\ (edited = 0 => AnswerIsCurrent /\ CollectedAreCurrent /\ PageExists)
================================================================================
