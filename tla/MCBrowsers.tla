----------------------------- MODULE MCBrowsers -----------------------------
(* Where a run's pages come from: Browser Use Cloud, a Chrome on this         *)
(* machine, the user's own through the extension, or HTTP alone; and the      *)
(* video of a run.  A behaviour is one of them; the others stay as they began. *)
EXTENDS CloudBrowser, LocalChrome, ExtensionTabs, ExtensionShim, NativeHost, Recording, FetchedPage

\* Addresses within and outside the grant, and documents.
Address(origin, scheme, credentials) == [origin |-> origin, scheme |-> scheme, credentials |-> credentials]
Addresses ==
  {Address("a", "https", FALSE), Address("a", "http", FALSE), Address("b", "https", FALSE), Address("a", "https", TRUE),
   Address("a", "data", FALSE)}
Documents == {<<1>>, <<2, 0, 1>>, <<0, 3>>}

VARIABLE part

vars == <<part, cloudVars, chromeVars, tabVars, shimVars, hostVars, filmVars, fetchVars>>

Init ==
  /\ part \in {"cloud", "chrome", "tabs", "shim", "host", "film", "fetch"}
  /\ CloudInit /\ ChromeInit /\ TabsInit /\ ShimInit /\ HostInit /\ FilmInit /\ FetchInit
  /\ part # "chrome" => contained = {}

Only(p) ==
  /\ part = p /\ UNCHANGED part
  /\ p # "cloud" => UNCHANGED cloudVars
  /\ p # "chrome" => UNCHANGED chromeVars
  /\ p # "tabs" => UNCHANGED tabVars
  /\ p # "shim" => UNCHANGED shimVars
  /\ p # "host" => UNCHANGED hostVars
  /\ p # "film" => UNCHANGED filmVars
  /\ p # "fetch" => UNCHANGED fetchVars

Work == (Only("cloud") /\ CloudTasks) \/ (Only("shim") /\ ShimWork) \/ (Only("fetch") /\ FetchWork)
Next ==
  \/ Only("cloud") /\ CloudNext
  \/ Only("chrome") /\ ChromeNext
  \/ Only("tabs") /\ TabsNext
  \/ Only("shim") /\ ShimNext
  \/ Only("host") /\ HostNext
  \/ Only("film") /\ FilmNext
  \/ Only("fetch") /\ FetchNext

Spec == Init /\ [][Next]_vars
\* The tasks that outlive a run, the shim's reader and the fetches go on by themselves.
FairSpec == Spec /\ WF_vars(Work)

----------------------------------------------------------------------------
\* A browser is the run's for as long as the run lasts and no longer: a start that
\* fails stops what it started, one task finishes it, no profile is swept from under a launch, none is
\* left behind by one that ended, and none returns an earlier Chrome's address
\* (browser_use_cloud.rs, local_chrome.rs).
BrowsersKept ==
  /\ CloudTypeOK /\ ChromeTypeOK
  /\ OneFinisher /\ FailedStartStopped /\ InUseNotSwept /\ NothingLeftBehind /\ NotAnEarlierChrome

\* The extension lets a run go: its tabs are given back or closed (background.js),
\* the extension hears of its end once and last (host.rs), and no tab is reported
\* destroyed twice (extension.rs).
ExtensionLetsGo ==
  TabsTypeOK /\ ShimTypeOK /\ HostTypeOK /\ ReleasedClean /\ ReleaseLast /\ DestroyedOnce

\* What a recording promises: no picture frames were held back for, and a whole
\* video at each path (recording.rs).
RecordingKept == HeldNeverFilmed /\ VideosWhole

\* What a fetched page promises: requests only within the grant, and spans that
\* are the blocks a quote is checked against (fetch/mod.rs).
FetchKept == RequestsWithinGrant /\ SpansAreTheBlocks

\* Whatever is in flight when a run is dropped or a command hangs: a cloud browser
\* is stopped or given up on, and never once it is kept; the extension's liveness
\* probe is answered, and a run is not stopped for closing its own last tab.
NothingHeldUp == NotAbandoned /\ KeptStaysUp /\ ProbesAnswered /\ OwnClosingIsNoStop
=============================================================================
