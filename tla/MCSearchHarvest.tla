---------------------------- MODULE MCSearchHarvest ----------------------------
(* Short result lists, of one page and of two. *)
EXTENDS SearchHarvest, TLC

CONSTANTS t1, t2, a, b, s, u, n    \* ticks; rows: two sound, one stuck, one without a link, one that is no judgment

L(pages, total, split, failures, early) ==
  [pages |-> pages, total |-> total, split |-> split, fails |-> failures, stops |-> early, base |-> TRUE]

\* One page: of known and of unknown length, with a stuck row, without a row, at the cap, short of the total.
MCOnePage ==
  {L(<<<<a, u, b, n>>>>, 4, FALSE, 1, 4), L(<<<<a, s, n, b>>>>, None, FALSE, 1, 4),
   L(<<<<s, a, n>>>>, 3, FALSE, 1, 4), L(<<<<u, a>>>>, None, FALSE, 1, 4), L(<<<<>>>>, None, FALSE, 0, 4),
   L(<<<<a>>>>, 5, TRUE, 1, 4), L(<<<<a>>>>, 5, FALSE, 1, 4), L(<<<<a>>>>, 3, FALSE, 1, 2), L(<<<<s>>>>, 2, TRUE, 0, 0)}

\* Two pages whose total is shown.
MCTwoPages == {L(<<<<a, b>>, <<n>>>>, 3, FALSE, 0, 4), L(<<<<a, u>>, <<b>>>>, 3, FALSE, 0, 4)}

\* Of queries that a split has made.
MCChildren == {[l EXCEPT !.base = FALSE] : l \in {L(<<<<a, s, b>>>>, 3, FALSE, 1, 1)}}

MCLists == MCOnePage \cup MCTwoPages \cup MCChildren

\* Two pages of unknown length; a page with a row that is stuck.
MCUnknown == {L(<<<<a>>, <<b>>>>, None, TRUE, 0, 0)}
MCStuck   == {L(<<<<a, s, b>>>>, 3, FALSE, 0, 1)}
================================================================================
