------------------------------- MODULE MCEvidence -------------------------------
(* A document that two ingestors read while an analysis runs, results that  *)
(* are behind a redirect, two analyses that share pages of the web, a call  *)
(* whose event is no longer among the latest, and a document that two       *)
(* events have in common.                                                   *)
EXTENDS EvidenceCatalog, TLC

First(x) == "d1" :> x
Both(x, y) == "d1" :> x @@ "d2" :> y

Scene(media, lands, lengths, ingestors, analyses, web) ==
  [media |-> media, lands |-> lands, lengths |-> lengths,
   ingestors |-> ingestors, analyses |-> analyses, web |-> web]

TwoVersions == <<2, 1>>   \* a revised document is the shorter one

MCScenes ==
  {Scene(First("text"), First("d1"), TwoVersions, {"i1", "i2"}, {"a1"}, FALSE),
   Scene(First("visual"), First("page"), TwoVersions, {"i1"}, {"a1"}, TRUE),
   Scene(First("text"), First("d1"), TwoVersions, {}, {"a1", "a2"}, TRUE),
   Scene(Both("audio", "text"), Both("d1", "d2"), <<2>>, {"i1"}, {"a1"}, FALSE),
   Scene(Both("text", "text"), Both("d2", "d2"), <<2>>, {"i1", "i2"}, {}, FALSE)}
=============================================================================
