----------------------------- MODULE VendorStore -----------------------------
(* What vulndb promises to those who export vendor data: of each provider they
   see one complete dataset, which only ever gives way to a newer complete one. *)
EXTENDS Integers

CONSTANTS Providers,
          Versions,     \* the versions an import may get
          Complete      \* the sets of CVEs of the datasets imported

VARIABLE view      \* version and CVEs of the data exported for each provider

NoData == [version |-> 0, cves |-> {}]
VInit == view = [p \in Providers |-> NoData]

Publish(p) ==
  \E new \in [version : Versions, cves : Complete] :
    /\ new.version > view[p].version
    /\ view' = [view EXCEPT ![p] = new]

VNext == \E p \in Providers : Publish(p)
VSpec == VInit /\ [][VNext]_view
=============================================================================
