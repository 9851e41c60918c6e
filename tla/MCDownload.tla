----------------------------- MODULE MCDownload -----------------------------
(* Every client with three entries or four on two or three pages. *)
EXTENDS Download, TLC

AllKinds == {"flexera", "idefense", "rbs", "snyk", "redhat", "vfeed", "threat", "vulns", "files"}
Paged == <<{"a", "b"}, {"c"}>>
\* a full page, one that shifted meanwhile, and a short one
Shifted == <<{"a", "b"}, {"b", "c"}, {}>>
AllListed ==
  [k \in AllKinds |-> CASE k = "snyk" -> <<{"a", "b", "c"}>>
                        [] k = "redhat" -> Shifted
                        [] k = "flexera" -> <<{"a", "b"}, {"c", "d"}>>
                        [] k \in {"vfeed", "vulns", "files"} -> <<{"a"}, {"b"}, {"c"}>>
                        [] OTHER -> Paged]
=============================================================================
