------------------------------- MODULE MCPages -------------------------------
(***************************************************************************)
(* A tab of the browser shows one page.  Each behaviour is of one of them, *)
(* or of the pages a link of it leads to.                                  *)
(***************************************************************************)
EXTENDS CatalogPage, SearchPage, OrderPages, SellPage, SellerDesk, ListingPages,
        SignInPages, ProfilePages

CONSTANTS c1, c2, q1, q2, bad, f0, f1, p1, p2, g1, g2, t1, t2, t3, a1, a2, o1, o2

\* A text that is sent as it is, one that is not and is a city's other name, and one
\* the validator refuses unless it is sanitized first.
PlainTexts == (Null :> Null) @@ (t1 :> t1) @@ (t2 :> t1) @@ (t3 :> t1)
CityNames == (Null :> Null) @@ (t1 :> t1) @@ (t2 :> t1) @@ (t3 :> t3)
Registered ==
  {[name |-> t1, phone |-> Null, city |-> t1, avatar |-> Null],
   [name |-> t2, phone |-> t1, city |-> t2, avatar |-> a1],
   [name |-> t1, phone |-> t1, city |-> Null, avatar |-> a2]}

Init ==
  \/ CatalogInit \/ SearchInit \/ OrdersInit \/ SellInit
  \/ DeskInit \/ ListingInit \/ SignInInit \/ ProfileInit

Next ==
  \/ CatalogNext \/ SearchNext \/ OrdersNext \/ SellNext
  \/ DeskNext \/ ListingNext \/ SignInNext \/ ProfileNext

Spec == Init /\ [][Next]_pageVars /\ CatalogFairness

\* The state of every page is of the kind its component keeps.
TypeOK ==
  \/ CatalogTypeOK \/ SearchTypeOK \/ OrdersTypeOK \/ SellTypeOK
  \/ DeskTypeOK \/ ListingTypeOK \/ SignInTypeOK \/ ProfileTypeOK
=============================================================================
