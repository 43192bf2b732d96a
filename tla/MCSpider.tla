------------------------------ MODULE MCSpider ------------------------------
(* Small instances of Spider. *)
EXTENDS Spider

CONSTANTS s, a, b, n, x

\* Two pages and a stored one: s is a category page that links to itself and
\* to the article a, a links to n and n back to a, and n is the normalized form
\* of a (NormalizeURL drops "www."), which an earlier run has stored.
SmallUrls == {s, a, n}
\* The same with a second article, which is on Wikipedia and linked by s and a, so
\* that two senders meet on the channel and two pages at a link, and a page of
\* unknown type.
LargeUrls == {s, a, b, n, x}

Start == {s}
Stored == {n}
KindOf == [u \in Urls |-> CASE u = s -> "category" [] u = x -> "unknown"
                              [] OTHER -> "article"]
SiteOf == [u \in Urls |-> IF u = b THEN "wiki" ELSE "guardian"]
LinksFrom == [u \in Urls |-> Urls \cap (CASE u = s -> {s, a, b, x}
                                         [] u = a -> {b, n} [] OTHER -> {a})]
NormalForm == [u \in Urls |-> IF u = a THEN n ELSE u]
=============================================================================
