------------------------------ MODULE MCPromotion ------------------------------
(* Captures of reports and of a court's own judgments, a few at a time. *)
EXTENDS Promotion, TLC

CONSTANTS
  j1, w1, w2, v1,
  pls, lhc,                             \* PakistanLawSite, a court's website
  stub, fuller, chrome,                 \* captures of one report: incomplete, complete, a bad page,
  plain, brief,                         \* long without the judges, short with them
  order, report, second,                \* a judgment as the court published it, and two reports of it
  bare, short, twice,                   \* court pages without a citation; a second order in a case
  c1, c2, c3, k1, k2, t1, t2, t3, t4, t5

MCPage == {stub, fuller, chrome, plain, brief, order, report, second, bare, short, twice}
MCProc == {j1, w1, w2}

P(source, cites, text, case, screen, found, size, judges) ==
  [source |-> source, cites |-> cites, text |-> text, case |-> case, screen |-> screen,
   found |-> found, size |-> size, whole |-> size > 1, judges |-> judges]

MCInfo ==
     stub   :> P(pls, <<c1>>, t1, None, "sound", "extracted", 1, FALSE)
  @@ fuller :> P(pls, <<c1>>, t2, None, "sound", "extracted", 2, TRUE)
  @@ chrome :> P(pls, <<c1>>, t3, None, "page", "extracted", 1, TRUE)
  @@ plain  :> P(pls, <<c1>>, t4, None, "sound", "extracted", 2, FALSE)
  @@ brief  :> P(pls, <<c1>>, t5, None, "sound", "extracted", 1, TRUE)
  @@ order  :> P(lhc, <<>>, t4, k1, "sound", "extracted", 2, TRUE)
  @@ report :> P(pls, <<c2>>, t4, k1, "sound", "extracted", 2, TRUE)
  @@ second :> P(lhc, <<c3, c2>>, t4, k1, "sound", "extracted", 2, TRUE)
  @@ bare   :> P(lhc, <<>>, t1, k2, "sound", "nocite", 1, TRUE)
  @@ short  :> P(lhc, <<>>, t2, None, "unfit", "nocite", 1, TRUE)
  @@ twice  :> P(lhc, <<>>, t5, k2, "sound", "extracted", 1, TRUE)

MCArrivals == {<<chrome>>, <<fuller, stub>>, <<plain, brief>>, <<brief, plain>>, <<order, report>>,
               <<report, second>>, <<bare, twice>>, <<short>>}
================================================================================
