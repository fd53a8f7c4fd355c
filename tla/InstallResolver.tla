--------------------------- MODULE InstallResolver ---------------------------
(***************************************************************************)
(* The install service of the landing site (landing/app/api/install) and   *)
(* the release workflows whose files it reads.                             *)
(*                                                                         *)
(* A visitor's GET is resolved in several fetches: the manifests of a      *)
(* channel are tried in order, then, when the manifest does not list the   *)
(* target, the assets of the release the manifest came from.  Meanwhile    *)
(* runs of the two workflows (standalone and GUI), several of one tag too  *)
(* (there is no concurrency group), create releases, send their files one  *)
(* by one and then the manifests.  gh release upload --clobber removes a   *)
(* file of the same name before it sends the new one, and a development    *)
(* release is deleted and created anew, so every fetch may find something  *)
(* else, and what was found may be gone when it is used.                   *)
(*                                                                         *)
(* A file is what its name tells: application, form, target, the run that  *)
(* built it (its version) and the release.  A manifest is the set of its   *)
(* entries, {} when the file is not there (none is published empty).       *)
(***************************************************************************)
EXTENDS Naturals, Sequences, FiniteSets

CONSTANTS
  Versions,     \* the pushed version tags, oldest first
  Jobs,         \* the workflow runs: <<application, release tag, run number>>
  Platforms,    \* the targets the workflows build
  Asked,        \* the values of ?target= that requests carry
  MaxRuns       \* bound on the runs that start

VARIABLES
  store,        \* GitHub: for each tag, the release and its files
  job,          \* for each workflow run: its step, what it has still to send
                \*   in it, and what it has removed to send it anew
  req           \* the request being answered

vars == <<store, job, req>>

-----------------------------------------------------------------------------

App == {"cli", "gui"}

Kind == {"latest_cli", "latest"}

Channel == {"latest", "development"}

TARGETS == {"linux-x86_64", "linux-aarch64", "darwin-x86_64",
            "darwin-aarch64", "windows-x86_64", "windows-aarch64"}

Mac == {"darwin-x86_64", "darwin-aarch64"}
Windows == {"windows-x86_64", "windows-aarch64"}

Tag == {"nightly", "xenage-standalone-dev", "xenage-gui-dev"} \cup
       {Versions[i] : i \in DOMAIN Versions}

\* Without a bundle that carries the updater's signature the GUI's run fails.
ASSUME PlatformsAssumption == Platforms \subseteq TARGETS /\ ~(Platforms \subseteq Windows)

ASSUME JobsAssumption == Jobs \subseteq App \X Tag \X Nat /\ MaxRuns \in Nat

\* What a run builds: standalone binaries, or installers (dmg, deb, msi) and
\* bundles for the GUI's updater (app.tar.gz, AppImage).
Item == [form : {"binary", "installer", "bundle"}, target : Platforms]

\* The name of an item in a release.  The GUI's bundle for a Mac is
\* "Xenage.GUI.app.tar.gz" (tauri.conf.json productName) whatever the
\* architecture and the version; all other names carry both.
Named(item, app, tag, n) ==
  IF item.form = "bundle" /\ item.target \in Mac
  THEN [app |-> app, form |-> "bundle", target |-> "darwin", tag |-> tag, n |-> 0]
  ELSE [app |-> app, form |-> item.form, target |-> item.target, tag |-> tag, n |-> n]

Asset == [app : App, form : {"binary", "installer", "bundle"},
          target : Platforms \cup {"darwin"}, tag : Tag, n : Nat]

NoAsset == [app |-> "none", form |-> "none", target |-> "none", tag |-> "none", n |-> 0]

\* manifest.platforms[target].url
Entry == [for : TARGETS, asset : Asset]

NoRelease == [up |-> FALSE, assets |-> {}, latest_cli |-> {}, latest |-> {}]

-----------------------------------------------------------------------------
(* The workflows: build-xenage-standalone.yml and build-xenage-gui.yml.    *)

Dev(tag) == tag \in {"xenage-standalone-dev", "xenage-gui-dev"}

Tagged(tag) == tag \notin {"nightly", "xenage-standalone-dev", "xenage-gui-dev"}

\* Mutant: the nightly release is created anew as well.
AllButVersions(tag) == ~Tagged(tag)
\* The releases a run deletes first if they are there.
Recreated(tag) == Dev(tag)

\* The manifest a workflow calls its own.
OwnFile(app) == IF app = "cli" THEN "latest_cli" ELSE "latest"

Publish(tag, file) == [tag |-> tag, file |-> file]

\* Mutant: the manifest is published before the files it lists.
ManifestFirst(app, tag) ==
  <<Publish(tag, "up"), Publish(tag, "latest")>>
    \o (IF app = "cli" THEN <<Publish(tag, "latest_cli")>> ELSE <<>>)
    \o <<Publish(tag, "assets")>>
    \o (IF Tagged(tag) THEN <<Publish("nightly", OwnFile(app))>> ELSE <<>>)

\* The steps of a run in their order.  The standalone workflow writes its
\* manifest under both names; a run for a version tag ends by replacing the
\* workflow's manifest in the nightly release.
Steps(app, tag) ==
  <<Publish(tag, "up"), Publish(tag, "assets"), Publish(tag, "latest")>>
    \o (IF app = "cli" THEN <<Publish(tag, "latest_cli")>> ELSE <<>>)
    \o (IF Tagged(tag) THEN <<Publish("nightly", OwnFile(app))>> ELSE <<>>)

\* The matrix fails as a whole: a run that publishes has every platform.
\* The bundles of Windows are no files of their own.
Built(app) ==
  IF app = "cli" THEN [form : {"binary"}, target : Platforms]
  ELSE [form : {"installer"}, target : Platforms]
         \cup [form : {"bundle"}, target : Platforms \ Windows]

\* The targets under which the workflow enters its signed files, by their
\* names: an app.tar.gz that names no architecture is taken for x86_64.
EntryFor(a) == IF a.target = "darwin" THEN "darwin-x86_64" ELSE a.target

Signed(j) ==
  LET names == {Named(item, j[1], j[2], j[3]) :
                  item \in {i \in Built(j[1]) : i.form # "installer"}}
  IN  {[for |-> EntryFor(a), asset |-> a] : a \in names}

Nothing == [form |-> "none", target |-> "none"]
TheFile == [form |-> "file", target |-> "none"]

CurrentStep(j) == Steps(j[1], j[2])[job[j].at]

\* A run begins by its first step; it may stop anywhere.
Running(j) == job[j].at <= Len(Steps(j[1], j[2]))
Started(j) == job[j].at > 1 \/ job[j].removed # Nothing
At(j, files) ==
  /\ Running(j)
  /\ CurrentStep(j).file \in files
  /\ Started(j) \/ Cardinality({k \in Jobs : Started(k)}) < MaxRuns

NextStep(j) == job' = [job EXCEPT ![j].at = @ + 1, ![j].removed = Nothing]

\* "ensure release exists": a development release is deleted first.
DeleteRelease(j) ==
  /\ At(j, {"up"}) /\ Recreated(j[2])
  /\ job[j].removed = Nothing
  /\ store[j[2]].up
  /\ store' = [store EXCEPT ![j[2]] = NoRelease]
  /\ job' = [job EXCEPT ![j].removed = TheFile]
  /\ UNCHANGED req

\* The release is created, or found and kept.  The run fails if another one
\* creates it between its deletion and here.
EnsureRelease(j) ==
  /\ At(j, {"up"})
  /\ Recreated(j[2]) => ~store[j[2]].up
  /\ store' = [store EXCEPT ![j[2]].up = TRUE]
  /\ NextStep(j)
  /\ req' = [req EXCEPT !.created = @ \/ (Tagged(j[2]) /\ ~store[j[2]].up)]

\* --clobber: a file of this name that is there is removed before the new one
\* is sent.  The order of the files is that of find.
RemoveFile(j) ==
  /\ At(j, {"assets"})
  /\ job[j].removed = Nothing
  /\ \E item \in job[j].left :
       LET a == Named(item, j[1], j[2], j[3]) IN
         /\ a \in store[j[2]].assets
         /\ store' = [store EXCEPT ![j[2]].assets = @ \ {a}]
         /\ job' = [job EXCEPT ![j].removed = item]
  /\ UNCHANGED req

\* A run fails here if its release is gone, or if another run has sent a file
\* of this name since it removed the old one.
SendFile(j) ==
  /\ At(j, {"assets"})
  /\ store[j[2]].up
  /\ \E item \in job[j].left :
       LET a == Named(item, j[1], j[2], j[3]) IN
         /\ job[j].removed \in {Nothing, item}
         /\ a \notin store[j[2]].assets
         /\ store' = [store EXCEPT ![j[2]].assets = @ \cup {a}]
         /\ IF job[j].left = {item}
            THEN job' = [job EXCEPT ![j] = [at |-> @.at + 1, left |-> {}, removed |-> Nothing]]
            ELSE job' = [job EXCEPT ![j].left = @ \ {item}, ![j].removed = Nothing]
  /\ UNCHANGED req

\* A manifest is replaced in the same way.
RemoveManifest(j) ==
  /\ At(j, Kind)
  /\ job[j].removed = Nothing
  /\ LET s == CurrentStep(j) IN
       /\ store[s.tag][s.file] # {}
       /\ store' = [store EXCEPT ![s.tag][s.file] = {}]
  /\ job' = [job EXCEPT ![j].removed = TheFile]
  /\ UNCHANGED req

\* The nightly release is created by the first run that finds none.
SendManifest(j) ==
  /\ At(j, Kind)
  /\ LET s == CurrentStep(j) IN
       /\ store[s.tag][s.file] = {}
       /\ store[s.tag].up \/ s.tag # j[2]
       /\ store' = [store EXCEPT ![s.tag].up = TRUE, ![s.tag][s.file] = Signed(j)]
  /\ NextStep(j)
  /\ UNCHANGED req

-----------------------------------------------------------------------------
(* resolver.ts                                                             *)

\* GitHub's /releases/latest/: the newest release that is no prerelease.
LatestRelease ==
  LET up == {i \in DOMAIN Versions : store[Versions[i]].up}
  IN IF up = {} THEN NoRelease
     ELSE store[Versions[CHOOSE i \in up : \A k \in up : k <= i]]

Url(release, file) == [release |-> release, file |-> file]

\* Mutant: both nightly manifests are tried before the latest release's.
NightlyFirst(kind, channel) ==
  CASE kind = "latest_cli" /\ channel = "latest" ->
         <<Url("nightly", "latest_cli"), Url("nightly", "latest"),
           Url("latest", "latest_cli"), Url("latest", "latest")>>
    [] kind = "latest_cli" /\ channel = "development" ->
         <<Url("xenage-standalone-dev", "latest_cli"), Url("nightly", "latest_cli")>>
    [] kind = "latest" -> <<Url("nightly", "latest"), Url("latest", "latest")>>

MANIFESTS(kind, channel) ==
  CASE kind = "latest_cli" /\ channel = "latest" ->
         <<Url("nightly", "latest_cli"), Url("latest", "latest_cli"),
           Url("nightly", "latest"), Url("latest", "latest")>>
    [] kind = "latest_cli" /\ channel = "development" ->
         <<Url("xenage-standalone-dev", "latest_cli"), Url("nightly", "latest_cli"),
           Url("xenage-standalone-dev", "latest"), Url("nightly", "latest")>>
    [] kind = "latest" /\ channel = "latest" ->
         <<Url("nightly", "latest"), Url("latest", "latest")>>
    [] kind = "latest" /\ channel = "development" ->
         <<Url("xenage-gui-dev", "latest"), Url("nightly", "latest")>>

FileAt(url) ==
  IF url.release = "latest" THEN LatestRelease[url.file]
  ELSE store[url.release][url.file]

parseChannel(raw) == IF raw = "development" THEN "development" ELSE "latest"

fallbackTargets(target) ==
  CASE target = "darwin-aarch64" -> <<target, "darwin-x86_64">>
    [] target = "windows-aarch64" -> <<target, "windows-x86_64">>
    [] OTHER -> <<target>>

\* The file of the first candidate the manifest lists, or NoAsset.
resolveAssetUrlFromManifest(manifest, target) ==
  LET candidates == fallbackTargets(target)
      listed == {i \in DOMAIN candidates : \E e \in manifest : e.for = candidates[i]}
  IN IF listed = {} THEN NoAsset
     ELSE LET i == CHOOSE k \in listed : \A l \in listed : k <= l
          IN (CHOOSE e \in manifest : e.for = candidates[i]).asset

\* The path segment after "download": the tag of the release, except that
\* /releases/latest/download/<file> yields the file's name, which no release
\* is tagged with.
releaseTagFromDownloadUrl(url) ==
  IF url.release = "latest" THEN url.file ELSE url.release

\* The target inferred from the name of a release's file.  For a standalone
\* download it is the prefix <os>_<arch>_xenage_, with .exe on Windows: the
\* GUI's installers <os>_<arch>_Xenage_GUI_... have it as well, since the guard
\* of inferCliTargetFromAssetName looks for "xenage gui" with a space.  For the
\* GUI it is the ending of a bundle, or of an installer for Windows.
inferTargetFromAssetName(a, kind) ==
  CASE kind = "latest_cli" /\ a.form = "binary" -> a.target
    [] kind = "latest_cli" /\ a.form = "installer" /\ a.target \notin Windows -> a.target
    [] kind = "latest" /\ a.form = "bundle" -> EntryFor(a)
    [] kind = "latest" /\ a.form = "installer" /\ a.target \in Windows -> a.target
    [] OTHER -> "none"

\* The files of the release the manifest came from that pass for the target.
ReleaseMatches(url, target, kind) ==
  LET tag == releaseTagFromDownloadUrl(url)
  IN IF tag \notin Tag THEN {}
     ELSE {a \in store[tag].assets : inferTargetFromAssetName(a, kind) = target}

-----------------------------------------------------------------------------
(* The request                                                             *)

NoRequest ==
  [step |-> "none", kind |-> "latest", channel |-> "latest", target |-> "none",
   raw |-> "none", at |-> 0, body |-> {}, status |-> 0, asset |-> NoAsset,
   covered |-> FALSE, created |-> FALSE, refused |-> FALSE]

\* Notes for the properties: whether the newest version carried the standalone
\* manifest when the request came; whether since then a version's release has
\* been created, and whether a manifest that is there was refused.
Start(kind, target, raw) ==
  [NoRequest EXCEPT !.step = "manifest", !.kind = kind, !.target = target,
     !.raw = raw, !.channel = parseChannel(raw), !.at = 1,
     !.covered = LatestRelease["latest_cli"] # {}]

Answer(status, asset) ==
  req' = [req EXCEPT !.step = "answered", !.status = status, !.asset = asset,
                     !.at = 0, !.body = {}]

\* A browser at "/" gets the page, curl gets install.sh, whose download is a
\* request for the standalone application.
proxy(isCurl, acceptsHtml) == IF isCurl /\ ~acceptsHtml THEN "script" ELSE "page"

Visit ==
  /\ req.step = "none"
  /\ \E isCurl \in BOOLEAN, acceptsHtml \in BOOLEAN :
       req' = [req EXCEPT !.step = proxy(isCurl, acceptsHtml)]
  /\ UNCHANGED <<store, job>>

\* install.sh asks for the target of the machine it runs on.
RunScript ==
  /\ req.step = "script"
  /\ \E target \in Asked \cap TARGETS, channel \in Channel :
       req' = Start("latest_cli", target, channel)
  /\ UNCHANGED <<store, job>>

\* A card of the page is a link to the GUI of its platform.
ClickCard ==
  /\ req.step = "page"
  /\ \E target \in Asked \cap TARGETS : req' = Start("latest", target, "latest")
  /\ UNCHANGED <<store, job>>

\* Any other client calls a route by itself, with or without ?channel=.
CallRoute ==
  /\ req.step = "none"
  /\ \E kind \in Kind, target \in Asked, raw \in {"development", "none"} :
       req' = IF target \in TARGETS THEN Start(kind, target, raw)
              ELSE [NoRequest EXCEPT !.step = "answered", !.kind = kind,
                      !.target = target, !.raw = raw,
                      !.channel = parseChannel(raw), !.status = 400]
  /\ UNCHANGED <<store, job>>

Manifest == MANIFESTS(req.kind, req.channel)[req.at]

\* Any answer that is not OK, because the file is not there, or is and GitHub
\* refuses (too many requests, out of service): the next manifest, or 404
\* after the last.
ManifestNotOk ==
  /\ req.step = "manifest"
  /\ LET seen == req.refused \/ FileAt(Manifest) # {} IN
       IF req.at < Len(MANIFESTS(req.kind, req.channel))
       THEN req' = [req EXCEPT !.at = @ + 1, !.refused = seen]
       ELSE req' = [req EXCEPT !.step = "answered", !.status = 404, !.at = 0,
                               !.refused = seen]
  /\ UNCHANGED <<store, job>>

\* The first manifest found decides; its body is still to be read.
ManifestFound ==
  /\ req.step = "manifest"
  /\ FileAt(Manifest) # {}
  /\ req' = [req EXCEPT !.step = "body", !.body = FileAt(Manifest)]
  /\ UNCHANGED <<store, job>>

\* await response.json(): redirect, or look at the release.
ManifestRead ==
  /\ req.step = "body"
  /\ LET found == resolveAssetUrlFromManifest(req.body, req.target)
     IN IF found # NoAsset THEN Answer(302, found)
        ELSE req' = [req EXCEPT !.step = "release", !.body = {}]
  /\ UNCHANGED <<store, job>>

\* The release's files are listed, in any order; the first match is taken once
\* the body is read.
ReleaseFound ==
  /\ req.step = "release"
  /\ LET matches == ReleaseMatches(Manifest, req.target, req.kind)
     IN \E a \in (IF matches = {} THEN {NoAsset} ELSE matches) :
          req' = [req EXCEPT !.step = "assets", !.asset = a]
  /\ UNCHANGED <<store, job>>

ReleaseRead ==
  /\ req.step = "assets"
  /\ Answer(IF req.asset = NoAsset THEN 404 ELSE 302, req.asset)
  /\ UNCHANGED <<store, job>>

\* The release is gone, or the API refuses.
ReleaseNotOk ==
  /\ req.step = "release"
  /\ Answer(404, NoAsset)
  /\ UNCHANGED <<store, job>>

\* fetch, or reading a body, throws.
FetchFails ==
  /\ req.step \in {"manifest", "body", "release", "assets"}
  /\ Answer(502, NoAsset)
  /\ UNCHANGED <<store, job>>

\* The next visitor.
NextRequest ==
  /\ req.step = "answered"
  /\ req' = NoRequest
  /\ UNCHANGED <<store, job>>

-----------------------------------------------------------------------------

Init ==
  /\ store = [t \in Tag |-> NoRelease]
  /\ job = [j \in Jobs |-> [at |-> 1, left |-> Built(j[1]), removed |-> Nothing]]
  /\ req = NoRequest

Workflow(j) ==
  \/ DeleteRelease(j)
  \/ EnsureRelease(j)
  \/ RemoveFile(j)
  \/ SendFile(j)
  \/ RemoveManifest(j)
  \/ SendManifest(j)

Resolve ==
  \/ ManifestNotOk
  \/ ManifestFound
  \/ ManifestRead
  \/ ReleaseFound
  \/ ReleaseRead
  \/ ReleaseNotOk
  \/ FetchFails

Next ==
  \/ \E j \in Jobs : Workflow(j)
  \/ Visit
  \/ RunScript
  \/ ClickCard
  \/ CallRoute
  \/ Resolve
  \/ NextRequest

Spec == Init /\ [][Next]_vars

-----------------------------------------------------------------------------

TypeOK ==
  /\ \A t \in Tag :
       /\ DOMAIN store[t] = DOMAIN NoRelease /\ store[t].up \in BOOLEAN
       /\ store[t].assets \subseteq Asset
       /\ \A file \in Kind : store[t][file] \subseteq Entry
  /\ \A j \in Jobs :
       /\ job[j].at \in 1..(Len(Steps(j[1], j[2])) + 1)
       /\ job[j].left \subseteq Built(j[1])
       /\ job[j].removed \in Item \cup {Nothing, TheFile}
  /\ DOMAIN req = DOMAIN NoRequest
  /\ req.step \in {"none", "script", "page", "manifest", "body", "release",
                   "assets", "answered"}
  /\ req.step \in {"manifest", "body", "release", "assets"} =>
       req.at \in DOMAIN MANIFESTS(req.kind, req.channel)

\* File a is there; or it is the bundle whose name all runs share and a run is
\* sending its files to the release (or failed while it did).
InPlace(a) ==
  \/ a \in store[a.tag].assets
  \/ /\ a.target = "darwin"
     /\ \E j \in Jobs : /\ j[1] = a.app /\ j[2] = a.tag /\ Running(j)
                        /\ CurrentStep(j).file = "assets" /\ job[j].removed # Nothing

\* A manifest of a version or of the nightly release names files that are in
\* place, in its own release and in the one it points to, whichever runs send,
\* replace and stop in between (upload release assets: files before manifests).
\* The development releases are left out: they are deleted under way.
ManifestsTrue ==
  /\ TypeOK
  /\ \A t \in {t \in Tag : ~Dev(t)} : \A e \in store[t].latest \cup store[t].latest_cli :
       InPlace(e.asset)

\* A redirect names a file that is in place when it is given, though the
\* manifest or the list of assets was fetched some steps before, unless it
\* leads to a development release (resolver.ts resolveDownloadUrl).
AssetThere ==
  [][req'.status = 302 /\ req.status # 302 /\ ~Dev(req'.asset.tag) =>
       InPlace(req'.asset)]_vars

\* While the newest version carries latest_cli.json, a standalone download of
\* the latest channel is redirected to a standalone build, even in the gap in
\* which the nightly manifest is being replaced, unless the network fails,
\* GitHub refuses a manifest that is there or another version is created under
\* way (resolver.ts MANIFESTS).
CliServed ==
  req.step = "answered" /\ req.kind = "latest_cli" /\ req.raw # "development"
    /\ req.target \in Platforms /\ req.covered /\ ~req.created /\ ~req.refused =>
      \/ req.status = 502
      \/ req.status = 302 /\ req.asset.app = "cli"

=============================================================================
