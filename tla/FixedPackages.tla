---------------------------- MODULE FixedPackages ----------------------------
(* rpm/parse.go, rpm/checker.go and providers/redhat: when the Red Hat feed counts a
   package as fixed.  A feed gives each CVE the releases that fix it and the states
   of packages, each with a distribution that may be missing or no name at all.
   Names of packages are sequences of character codes.                       *)
EXTENDS Wfn, Versions

Point == 46
Hyphen == 45
Colon == 58
Src == <<115, 114, 99>>
NoArch == <<110, 111, 97, 114, 99, 104>>
Rpm == <<Point, 114, 112, 109>>

Places(s, c) == {k \in DOMAIN s : s[k] = c}
LastPlace(s, c) == Max(Places(s, c))
Before(s, k) == SubSeq(s, 1, k - 1)
After(s, k) == SubSeq(s, k + 1, Len(s))
ToLower(s) == [k \in DOMAIN s |-> IF s[k] \in 65 .. 90 THEN s[k] + 32 ELSE s[k]]

Unparsable == [ok |-> FALSE]
\* s cut in two at a character that is left out, if it is there
CutAt(s, k) == <<Before(s, k), After(s, k)>>
\* name-version and release, and then name and version
CutHyphen(nvr) == CutAt(nvr, LastPlace(nvr, Hyphen))
Label(ev, release) ==
  LET colons == Places(ev, Colon) IN
  IF colons = {} THEN <<<<>>, ev, release>> ELSE CutAt(ev, Min(colons)) \o <<release>>
\* rpm.Parse, of name-[epoch:]version-release.arch[.rpm]
Parse(pkg) ==
  LET named(nameVersion, release, arch) ==
        [ok |-> TRUE, name |-> ToLower(nameVersion[1]), label |-> Label(nameVersion[2], release),
         arch |-> IF arch \in {Src, NoArch} THEN <<>> ELSE arch]
      versioned(nvr, arch) ==
        IF Places(nvr[1], Hyphen) = {} THEN Unparsable ELSE named(CutHyphen(nvr[1]), nvr[2], arch)
      released(stem) ==
        IF Places(stem[1], Hyphen) = {} THEN Unparsable ELSE versioned(CutHyphen(stem[1]), stem[2])
      archived(s) ==
        IF Places(s, Point) = {} THEN Unparsable ELSE released(CutAt(s, LastPlace(s, Point)))
      isRpm == Len(pkg) >= 4 /\ After(pkg, Len(pkg) - 4) = Rpm
  IN  archived(IF isRpm THEN Before(pkg, Len(pkg) - 3) ELSE pkg)

-----------------------------------------------------------------------------
\* schema.IsFixed
IsFixed(state) == state = "not affected"

\* Faulty variant: only the very release that is named counts.
ReleaseCoversSame(fix, pkg) ==
  /\ fix.name = <<>> \/ pkg.name = <<>> \/ fix.name = pkg.name
  /\ fix.arch = <<>> \/ pkg.arch = <<>> \/ fix.arch = pkg.arch
  /\ LabelCompare(pkg.label, fix.label) = 0
\* affectedReleasePkgChecker.checkPkg
ReleaseCovers(fix, pkg) ==
  /\ fix.name = <<>> \/ pkg.name = <<>> \/ fix.name = pkg.name
  /\ fix.arch = <<>> \/ pkg.arch = <<>> \/ fix.arch = pkg.arch
  /\ LabelCompare(pkg.label, fix.label) >= 0

\* the distribution of an entry, whose part is taken as any
OfDistro(distro, entry) == Match(distro, [entry.distro EXCEPT !["part"] = ANY])

\* affectedReleaseCheckers: no package, or one that cannot be parsed, is every package
ReleaseFixes(entry, pkg, distro) ==
  LET fix == Parse(entry.package \o <<Point>> \o Src) IN
  /\ entry.cpe = "parsed"
  /\ entry.package # <<>> /\ fix.ok => ReleaseCovers(fix, pkg)
  /\ OfDistro(distro, entry)
\* packageStateCheckers: entries of packages that are not fixed are passed over
Counts(entry) == entry.state = "" \/ IsFixed(entry.state)
StateFixes(entry, pkg, distro) ==
  /\ entry.cpe = "parsed" /\ Counts(entry)
  /\ entry.package = <<>> \/ pkg.name = entry.package
  /\ OfDistro(distro, entry)

\* cveChecker.Check; a CVE without a checker fixes nothing
CveFixed(cve, pkg, distro) ==
  \/ \E e \in cve.releases : ReleaseFixes(e, pkg, distro)
  \/ \E e \in cve.states : StateFixes(e, pkg, distro)

\* CVEChecker and Feed.Checker: where one distribution that counts cannot be parsed, no
\* CVE of the whole feed has a checker, and neither the filter nor the list is made.
HasChecker(feed) ==
  \A id \in DOMAIN feed :
    /\ \A e \in feed[id].releases : e.cpe # "unparsable"
    /\ \A e \in feed[id].states : Counts(e) => e.cpe # "unparsable"

\* rpm.CheckAny and rpm.CheckAll, of what their checkers say
CheckAny(answers) == \E x \in answers : x
CheckAll(answers) == answers # {} /\ \A x \in answers : x

\* FilterFixedPackages, of a feed with a checker: what cannot be parsed is kept
FilterFixed(feed, pkgs, distro, cve) ==
  SelectSeq(pkgs, LAMBDA p : ~Parse(p).ok \/ cve \notin DOMAIN feed
                             \/ ~CveFixed(feed[cve], Parse(p), distro))

\* Feed.packageFeed: a release's package is parsed as it is, without an architecture
PackagesOf(cve) ==
  {Parse(e.package).name : e \in {x \in cve.releases : x.package # <<>> /\ Parse(x.package).ok}}
    \cup {e.package : e \in {x \in cve.states : x.package # <<>>}}
\* Feed.ListFixedCVEs
ListFixedCVEs(feed, pkg, distro) ==
  {id \in DOMAIN feed : /\ HasChecker(feed)
                        /\ pkg.name \in PackagesOf(feed[id])
                        /\ CveFixed(feed[id], pkg, distro)}

-----------------------------------------------------------------------------
\* name-[epoch:]version-release.arch
Format(name, label, arch) ==
  name \o <<Hyphen>> \o (IF label[1] = <<>> THEN <<>> ELSE label[1] \o <<Colon>>)
    \o label[2] \o <<Hyphen>> \o label[3] \o <<Point>> \o arch
(* The parts of a package's name are found again, hyphens and points in the name,
   points in version and release, and the .rpm behind it notwithstanding.      *)
ParsesBack(name, label, arch) ==
  LET p == [ok |-> TRUE, name |-> ToLower(name), label |-> label, arch |-> arch] IN
  Parse(Format(name, label, arch)) = p /\ Parse(Format(name, label, arch) \o Rpm) = p

(* Once a version of a package is fixed on a distribution, every newer one is: the
   order of labels must be transitive for that, epochs and tildes included.    *)
FixedStaysFixed(cve, pkg, newer, distro) ==
  (/\ CveFixed(cve, pkg, distro)
   /\ newer.name = pkg.name /\ newer.arch = pkg.arch /\ LabelCompare(newer.label, pkg.label) >= 0)
    => CveFixed(cve, newer, distro)

(* Of a feed with a checker, the list of a package's fixed CVEs has what the filter
   takes away for it, as long as one of the CVE's entries names the package: a name in
   capitals is not found, as installed names are lowered, nor a release without a point. *)
NamesIt(cve, pkg) ==
  \/ \E e \in cve.releases : /\ e.package # <<>> /\ Parse(e.package \o <<Point>> \o Src).ok
                             /\ Parse(e.package \o <<Point>> \o Src).name = pkg.name
                             /\ Point \in ToSet(Parse(e.package \o <<Point>> \o Src).label[3])
  \/ \E e \in cve.states : e.package = pkg.name
ListsWhatIsFiltered(feed, text, distro) ==
  Parse(text).ok /\ HasChecker(feed) =>
    LET listed == ListFixedCVEs(feed, Parse(text), distro)
        filtered == {id \in DOMAIN feed : FilterFixed(feed, <<text>>, distro, id) = <<>>}
    IN  /\ listed \subseteq filtered
        /\ \A id \in filtered : NamesIt(feed[id], Parse(text)) => id \in listed
=============================================================================
