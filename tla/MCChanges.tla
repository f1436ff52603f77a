----------------------------- MODULE MCChanges -----------------------------
(* Model-checking instances of Changes. *)
EXTENDS Changes, TLC

CONSTANTS d1, d2, u1, u2

\* Pages as [at, price, stock, number]: pages `at` a distance are that much less similar.
Page(at, price, stock, number) ==
    [at |-> at, price |-> price, stock |-> stock, number |-> number]

Shop    == Page(0, 49, "in stock", 7)
Typo    == Page(1, 49, "in stock", 7)    \* trivial edits
Counted == Page(2, 49, "in stock", 8)    \* a number at the cosmetic threshold
Cheaper == Page(1, 39, "in stock", 7)
SoldOut == Page(1, 49, "sold out", 7)
Blocked == Page(60, 49, "in stock", 7)   \* another page, the same signals

AllPages == {Shop, Typo, Counted, Cheaper, SoldOut, Blocked}

Apart(a, b) == IF a.at < b.at THEN b.at - a.at ELSE a.at - b.at

AllRatio == [p \in AllPages \X AllPages |-> 100 - Apart(p[1], p[2])]
AllPrices == [p \in AllPages |-> {p.price}]
AllStock == [p \in AllPages |-> {p.stock}]
AllNumbers == [p \in AllPages |-> {p.price, p.number}]

Seen(urls, pages, times) == [url_canonical : urls, content : pages, observed_at : times]

\* One detector with two pages that may show anything, two that watch one page, and two
\* that watch a page each.
MCFeeds ==
    {d1 :> Seen({u1, u2}, AllPages, {1, 2}) @@ d2 :> {},
     d1 :> Seen({u1}, {Shop, Cheaper}, {1, 2}) @@ d2 :> Seen({u1}, {Shop, Cheaper}, {1, 2}),
     d1 :> Seen({u1}, {Shop, Typo, Counted, Cheaper}, {1, 2}) @@ d2 :> Seen({u2}, {Shop}, {1})}
=============================================================================
