----------------------------- MODULE MCPlanning -----------------------------
(***************************************************************************)
(* A small instance of Preparation.                                          *)
(*                                                                         *)
(* The samples: two articles that leave little doubt, an OpenSearch sample of   *)
(* five with two terms, two languages and a wide span, and ten rows whose       *)
(* brand is just sure enough.  The calendar has months of three days, a window  *)
(* of more than two is searched by months, and two months are the most.        *)
(***************************************************************************)
EXTENDS Preparation, TLC

CONSTANTS print, blogs, online

Article(m1, m2, day, language, medium) ==
  [mentions |-> <<m1, m2>>, day |-> day, language |-> language, media |-> medium]
Plain(n, day) == [i \in 1..n |-> Article(0, 0, day, "en", None)]

MCSamples == {
  [kind |-> "csv_upload", articles |-> <<Article(3, 0, None, "en", None), Article(0, 0, None, "en", None)>>],
  [kind |-> "opensearch",
   articles |-> <<Article(1, 2, 0, "en", "x_twitter"), Article(2, 1, 90, "fr", None)>>
                  \o <<Article(0, 0, None, "fr", None)>> \o Plain(2, 7)],
  [kind |-> "csv_upload", articles |-> <<Article(4, 0, 0, "en", None), Article(3, 0, 5, "en", None)>> \o Plain(8, 3)]}

Doc(day, medium, home, language, tokens) ==
  [day |-> day, medium |-> medium, home |-> home, language |-> language, tokens |-> tokens]

MCCluster == {
  Doc(1, online, "dated", "en", 3), Doc(3, online, "dated", "en", 5), Doc(7, online, "dated", "en", 9),
  Doc(3, blogs, "dated", "en", 3), Doc(5, blogs, "standalone", "en", 5),
  Doc(4, print, "standalone", "en", 1), Doc(4, online, "dated", "fr", 1)}
=============================================================================
