------------------------------ MODULE MCMonitoring ------------------------------
(* Reports that differ in one thing each.                                  *)
EXTENDS Monitoring

Report(summary, risks, catalysts, data, growth) ==
  [summary |-> summary, risks |-> risks, catalysts |-> catalysts,
   confidence |-> [data |-> data, thesis |-> data], metrics |-> [growth |-> growth]]

Quiet == Report("s", {}, {}, 700, 100)
FewReports == {Quiet, Report("t", {"r"}, {}, 700, 100), Report("s", {}, {"c"}, 740, 104)}
MCReports ==
  {Quiet, Report("t", {}, {}, 700, 100), Report("s", {"r"}, {}, 700, 100),
   Report("s", {}, {}, 720, 104), Report("s", {}, {"c"}, 740, 108)}
=============================================================================
