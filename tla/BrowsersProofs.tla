---------------------------- MODULE BrowsersProofs ----------------------------
(***************************************************************************)
(* Proofs about where a run's pages come from and the video of a run, for  *)
(* any number of tabs, connections, processes and messages under way.      *)
(* Each part has an inductive invariant of its own; MCBrowsers makes them  *)
(* one specification.  The last two parts are about what a run is set up   *)
(* with, for any settings and any price lists: whose keys go where, and    *)
(* what a call may cost at most.                                           *)
(***************************************************************************)
EXTENDS MCBrowsers, Providers, Wires, CloudBrowserProofs, FiniteSetTheorems, SequenceTheorems, TLAPS

----------------------------------------------------------------------------
(* The video of a run.                                                     *)

FilmTab == FilmTabs \cup {"none"}
Arrivals ==
  [kind : {"frame", "shot"}, tab : FilmTab, picture : {"held", "clean"}]
    \cup [kind : {"seen"}, tab : FilmTab, reveals : BOOLEAN] \cup [kind : {"measured"}, tab : FilmTab]

FilmTypes ==
  /\ sent \in Seq(Arrivals) /\ active \in FilmTab /\ recast \in FilmTab /\ casts \subseteq FilmTab
  /\ withheld \in BOOLEAN /\ (fph = "off" => sent = <<>>)

\* What answers the run is waiting for, while it goes: one at most.
Asked1 ==
  /\ \A i \in DOMAIN sent : (sent[i].kind = "seen" => agent = "looking") /\ (sent[i].kind = "measured" => agent = "switching")
  /\ \A i, j \in DOMAIN sent : sent[i].kind \in {"seen", "measured"} /\ sent[j].kind \in {"seen", "measured"} => i = j
  /\ \A i \in DOMAIN sent : sent[i].kind = "seen" /\ ~sent[i].reveals => active \notin showing

\* A picture taken while frames were held back arrives while they still are, or
\* before the run can be back on its tab.
HeldBack ==
  \A i \in DOMAIN sent : sent[i].kind = "frame" /\ sent[i].picture = "held" =>
    \/ withheld /\ \A j \in 1..(i - 1) : sent[j].kind = "seen" => sent[j].reveals
    \/ sent[i].tab # active /\ \A j \in 1..(i - 1) : sent[j].kind # "measured"

Stills ==
  /\ fph \in {"still", "shot"} => ~withheld
  /\ \A i \in DOMAIN sent : sent[i].kind = "shot" => sent[i].picture = "clean"

FilmInv ==
  /\ FilmTypes /\ (Going => Asked1 /\ HeldBack) /\ Stills
  /\ frame # "held" /\ HeldNeverFilmed
  /\ disk \in [Videos -> {"old", "new"}] /\ VideosWhole

LEMMA FilmStarts ==
  ASSUME FilmInit
  PROVE  FilmInv
<1>1. active \in FilmTabs
  BY FilmAssumption DEF FilmInit
<1>2. FilmTypes
  <2>1. <<>> \in Seq(Arrivals)
    OBVIOUS
  <2>2. withheld \in BOOLEAN /\ casts \subseteq FilmTab /\ recast \in FilmTab /\ sent = <<>>
    BY DEF FilmInit, FilmTab
  <2> QED BY <1>1, <2>1, <2>2 DEF FilmTypes, FilmTab
<1>3. (Going => Asked1 /\ HeldBack) /\ Stills
  BY DEF FilmInit, Going, Stills
<1> QED BY <1>2, <1>3 DEF FilmInit, FilmInv, HeldNeverFilmed, VideosWhole

\* What arrives, and what is left behind it.
LEMMA Arrives ==
  ASSUME NEW S, NEW q \in Seq(S), q # <<>>
  PROVE  /\ Tail(q) \in Seq(S) /\ Head(q) = q[1] /\ 1 \in DOMAIN q
         /\ \A i \in DOMAIN Tail(q) : i + 1 \in DOMAIN q /\ Tail(q)[i] = q[i + 1] /\ i \in Nat /\ i >= 1
OBVIOUS

LEMMA Sends ==
  ASSUME NEW S, NEW q \in Seq(S), NEW e \in S
  PROVE  /\ Append(q, e) \in Seq(S) /\ Len(q) + 1 \in DOMAIN Append(q, e) /\ Append(q, e)[Len(q) + 1] = e
         /\ \A i \in DOMAIN q : i \in DOMAIN Append(q, e) /\ Append(q, e)[i] = q[i] /\ i \in Nat /\ i >= 1 /\ i <= Len(q)
         /\ \A i \in DOMAIN Append(q, e) : i \in DOMAIN q \/ i = Len(q) + 1
         /\ Len(q) \in Nat
OBVIOUS

\* The files change only where a whole video is put in place.
LEMMA FilesKeep ==
  ASSUME FilmInv, Replace \/ UNCHANGED fileVars
  PROVE  disk' \in [Videos -> {"old", "new"}] /\ VideosWhole'
<1>1. disk \in [Videos -> {"old", "new"}] /\ VideosWhole
  BY DEF FilmInv
<1>2. CASE UNCHANGED fileVars
  BY <1>1, <1>2 DEF fileVars, VideosWhole
<1>3. CASE Replace
  <2>1. VideoAt \in Videos
    BY DEF VideoAt, Videos
  <2>2. \/ disk' = disk /\ outs' = outs
        \/ disk' = [disk EXCEPT ![VideoAt] = "new"] /\ outs' = outs \cup {VideoAt}
    BY <1>3 DEF Replace, CopyBeside, fileVars
  <2> QED BY <1>1, <2>1, <2>2 DEF VideosWhole
<1> QED BY <1>2, <1>3

\* A step that sends nothing and takes nothing, and holds no frame back or lets go.
LEMMA QueueStands ==
  ASSUME FilmInv, UNCHANGED <<sent, active, withheld, agent>>, showing' \subseteq showing, Going' => Going \/ sent = <<>>
  PROVE  Going' => Asked1' /\ HeldBack'
<1> SUFFICES ASSUME Going' PROVE Asked1' /\ HeldBack'
  OBVIOUS
<1>1. CASE sent = <<>>
  BY <1>1 DEF Asked1, HeldBack
<1>2. CASE Going
  <2>1. Asked1 /\ HeldBack
    BY <1>2 DEF FilmInv
  <2>2. Asked1'
    BY <2>1 DEF Asked1
  <2>3. HeldBack'
    BY <2>1 DEF HeldBack
  <2> QED BY <2>2, <2>3
<1> QED BY <1>1, <1>2

\* The steps that leave the queue and what the run sees alone.
LEMMA FilmQuietStep ==
  ASSUME FilmInv, UNCHANGED <<sent, active, withheld, agent>>, showing' \subseteq showing, Going' => Going \/ sent = <<>>,
         recast' \in FilmTab, casts' \subseteq FilmTab, fph' # "off" \/ fph = "off",
         fph' \in {"still", "shot"} => fph \in {"still", "shot"} \/ ~withheld,
         frame' = frame, film' \subseteq film \cup {frame}, Replace \/ UNCHANGED fileVars
  PROVE  FilmInv'
<1>1. FilmTypes' /\ Stills'
  BY DEF FilmInv, FilmTypes, Stills
<1>2. frame' # "held" /\ HeldNeverFilmed'
  BY DEF FilmInv, HeldNeverFilmed
<1> QED BY <1>1, <1>2, QueueStands, FilesKeep DEF FilmInv

LEMMA TickerKeeps ==
  ASSUME FilmInv, GoesQuiet \/ Tick \/ Cast \/ TickWrites \/ CastEnds \/ PageClears \/ StartWithMarks
  PROVE  FilmInv'
<1>0. FilmTypes
  BY DEF FilmInv
<1>1. UNCHANGED <<sent, active, withheld, agent>> /\ showing' \subseteq showing /\ frame' = frame /\ UNCHANGED fileVars
  BY DEF GoesQuiet, Tick, Cast, TickWrites, CastEnds, PageClears, StartWithMarks, pageVars
<1>2. /\ Going' => Going \/ sent = <<>>
      /\ fph' # "off" \/ fph = "off"
      /\ fph' \in {"still", "shot"} => fph \in {"still", "shot"} \/ ~withheld
  BY <1>0 DEF GoesQuiet, Tick, Cast, TickWrites, CastEnds, PageClears, StartWithMarks, Going, FilmTypes
<1>3. recast' \in FilmTab /\ casts' \subseteq FilmTab
  BY <1>0 DEF GoesQuiet, Tick, Cast, TickWrites, CastEnds, PageClears, StartWithMarks, FilmTypes, tickerVars, FilmTab
<1>4. film' \subseteq film \cup {frame}
  BY DEF GoesQuiet, Tick, Cast, TickWrites, CastEnds, PageClears, StartWithMarks, tickerVars
<1> QED BY <1>1, <1>2, <1>3, <1>4, FilmQuietStep

LEMMA EndingKeeps ==
  ASSUME FilmInv, Finish \/ CloseFilm \/ EncodeAll \/ Replace \/ ProcessKilled
  PROVE  FilmInv'
<1>0. FilmTypes
  BY DEF FilmInv
<1>1. UNCHANGED <<sent, active, withheld, agent>> /\ showing' \subseteq showing /\ frame' = frame /\ (Replace \/ UNCHANGED fileVars)
  BY DEF Finish, CloseFilm, EncodeAll, Replace, ProcessKilled, pageVars
<1>2. /\ ~Going' /\ fph' # "off"
      /\ fph' \in {"still", "shot"} => fph \in {"still", "shot"} \/ ~withheld
  BY DEF Finish, CloseFilm, EncodeAll, Replace, ProcessKilled, Going, AfterVideo, VideoAt
<1>3. recast' \in FilmTab /\ casts' \subseteq FilmTab
  BY <1>0 DEF Finish, CloseFilm, EncodeAll, Replace, ProcessKilled, FilmTypes, tickerVars
<1>4. film' \subseteq film \cup {frame}
  BY DEF Finish, CloseFilm, EncodeAll, Replace, ProcessKilled, tickerVars
<1> QED BY <1>1, <1>2, <1>3, <1>4, FilmQuietStep

\* The steps of the run that change what it knows and not what is under way.
LEMMA RunKeeps ==
  ASSUME FilmInv, RunTypes \/ KeysLand \/ ShowResult
  PROVE  FilmInv'
<1>0. FilmTypes
  BY DEF FilmInv
<1>1. /\ UNCHANGED <<fph, tickerVars, frame, sent, active, fileVars>>
      /\ withheld' = withheld \/ (Going /\ withheld' = TRUE)
  BY DEF RunTypes, KeysLand, ShowResult
<1>2. Going => Asked1' /\ HeldBack'
  <2> SUFFICES ASSUME Going PROVE Asked1' /\ HeldBack'
    OBVIOUS
  <2>1. Asked1 /\ HeldBack /\ agent \in {"idle", "typing"}
    BY DEF FilmInv, RunTypes, KeysLand, ShowResult
  <2>2. \A i \in DOMAIN sent : sent[i].kind \notin {"seen", "measured"}
    BY <2>1 DEF Asked1
  <2>3. Asked1'
    BY <1>1, <2>2 DEF Asked1
  <2>4. HeldBack'
    <3> SUFFICES ASSUME NEW i \in DOMAIN sent, sent[i].kind = "frame", sent[i].picture = "held"
                 PROVE  \/ withheld' /\ \A j \in 1..(i - 1) : sent[j].kind = "seen" => sent[j].reveals
                        \/ sent[i].tab # active /\ \A j \in 1..(i - 1) : sent[j].kind # "measured"
      BY <1>1 DEF HeldBack
    <3> QED BY <1>1, <2>1 DEF HeldBack
  <2> QED BY <2>3, <2>4
<1>3. Stills' /\ FilmTypes'
  <2>1. withheld' \in BOOLEAN /\ recast' = recast /\ casts' = casts
    BY <1>0, <1>1 DEF FilmTypes, tickerVars
  <2>2. FilmTypes'
    BY <1>0, <1>1, <2>1 DEF FilmTypes
  <2>3. fph \in {"still", "shot"} => withheld' = withheld
    BY <1>1 DEF Going
  <2>4. Stills'
    BY <1>1, <2>3 DEF FilmInv, Stills
  <2> QED BY <2>2, <2>4
<1>4. frame' # "held" /\ HeldNeverFilmed'
  BY <1>1 DEF FilmInv, HeldNeverFilmed, tickerVars
<1> QED BY <1>1, <1>2, <1>3, <1>4, FilesKeep DEF FilmInv, Going

\* The steps that send: a picture or an answer joins the queue.
LEMMA SendingKeeps ==
  ASSUME FilmInv, NEW m \in Arrivals, sent' = Append(sent, m), UNCHANGED <<tickerVars, frame, showing, active, withheld, fileVars>>,
         fph' = fph \/ (fph = "still" /\ fph' = "shot"), fph # "off",
         m.kind = "shot" => m.picture = "clean",
         m.kind = "frame" /\ m.picture = "held" => withheld /\ m.tab \in showing,
         m.kind \in {"frame", "shot"} => agent' = agent,
         m.kind \in {"seen", "measured"} => agent = "idle",
         m.kind = "seen" => agent' = "looking" /\ (~m.reveals => active \notin showing),
         m.kind = "measured" => agent' = "switching"
  PROVE  FilmInv'
<1>0. FilmTypes
  BY DEF FilmInv
<1>10. m.kind \in {"frame", "shot", "seen", "measured"}
  BY DEF Arrivals
<1>1. sent \in Seq(Arrivals)
  BY <1>0 DEF FilmTypes
<1> DEFINE n == Len(sent) + 1
<1>2. /\ sent' \in Seq(Arrivals) /\ n \in DOMAIN sent' /\ sent'[n] = m
      /\ \A i \in DOMAIN sent : i \in DOMAIN sent' /\ sent'[i] = sent[i] /\ i \in Nat /\ i >= 1 /\ i < n
      /\ \A i \in DOMAIN sent' : i \in DOMAIN sent \/ i = n
      /\ n \in Nat /\ DOMAIN sent = 1..(n - 1)
  BY <1>1, Sends
<1>3. FilmTypes' /\ Stills'
  <2>1. FilmTypes'
    BY <1>0, <1>2 DEF FilmTypes, tickerVars
  <2>2. Stills'
    BY <1>2 DEF FilmInv, Stills
  <2> QED BY <2>1, <2>2
<1>4. Going' => Asked1' /\ HeldBack'
  <2> SUFFICES ASSUME Going' PROVE Asked1' /\ HeldBack'
    OBVIOUS
  <2>1. Asked1 /\ HeldBack
    BY DEF FilmInv, Going
  <2> HIDE DEF n
  <2>2. Asked1'
    <3>1. m.kind \in {"seen", "measured"} => \A i \in DOMAIN sent : sent[i].kind \notin {"seen", "measured"}
      BY <2>1 DEF Asked1
    <3>2. \A i \in DOMAIN sent' : (sent'[i].kind = "seen" => agent' = "looking") /\ (sent'[i].kind = "measured" => agent' = "switching")
      <4> SUFFICES ASSUME NEW i \in DOMAIN sent'
                   PROVE  (sent'[i].kind = "seen" => agent' = "looking") /\ (sent'[i].kind = "measured" => agent' = "switching")
        OBVIOUS
      <4>1. CASE i = n
        BY <1>2, <4>1
      <4>2. CASE i \in DOMAIN sent
        BY <1>2, <1>10, <2>1, <3>1, <4>2 DEF Asked1
      <4> QED BY <1>2, <4>1, <4>2
    <3>3. \A i, j \in DOMAIN sent' : sent'[i].kind \in {"seen", "measured"} /\ sent'[j].kind \in {"seen", "measured"} => i = j
      BY <1>2, <2>1, <3>1 DEF Asked1
    <3>4. \A i \in DOMAIN sent' : sent'[i].kind = "seen" /\ ~sent'[i].reveals => active \notin showing
      BY <1>2, <2>1 DEF Asked1
    <3> QED BY <3>2, <3>3, <3>4 DEF Asked1
  <2>3. HeldBack'
    <3> SUFFICES ASSUME NEW i \in DOMAIN sent', sent'[i].kind = "frame", sent'[i].picture = "held"
                 PROVE  \/ withheld /\ \A j \in 1..(i - 1) : sent'[j].kind = "seen" => sent'[j].reveals
                        \/ sent'[i].tab # active /\ \A j \in 1..(i - 1) : sent'[j].kind # "measured"
      BY DEF HeldBack
    <3>1. CASE i \in DOMAIN sent
      <4>1. sent'[i] = sent[i] /\ \A j \in 1..(i - 1) : sent'[j] = sent[j]
        BY <1>2, <3>1
      <4> QED BY <2>1, <3>1, <4>1 DEF HeldBack
    <3>2. CASE i = n
      <4>1. withheld /\ m.tab \in showing /\ m.kind = "frame"
        BY <1>2, <3>2
      <4>2. \A j \in 1..(i - 1) : j \in DOMAIN sent /\ sent'[j] = sent[j]
        BY <1>2, <3>2
      <4>3. CASE \A j \in DOMAIN sent : sent[j].kind = "seen" => sent[j].reveals
        BY <4>1, <4>2, <4>3
      <4>4. CASE \E j \in DOMAIN sent : sent[j].kind = "seen" /\ ~sent[j].reveals
        <5>1. PICK j \in DOMAIN sent : sent[j].kind = "seen" /\ ~sent[j].reveals
          BY <4>4
        <5>2. active \notin showing
          BY <2>1, <5>1 DEF Asked1
        <5>3. \A l \in DOMAIN sent : sent[l].kind # "measured"
          BY <2>1, <5>1 DEF Asked1
        <5> QED BY <1>2, <3>2, <4>1, <4>2, <5>2, <5>3
      <4> QED BY <4>3, <4>4
    <3> QED BY <1>2, <3>1, <3>2
  <2> QED BY <2>2, <2>3
<1>5. frame' # "held" /\ HeldNeverFilmed'
  BY DEF FilmInv, HeldNeverFilmed, tickerVars
<1> QED BY <1>3, <1>4, <1>5, FilesKeep DEF FilmInv

LEMMA SendersKeep ==
  ASSUME FilmInv, RunLooks \/ RunSwitches \/ Paints \/ (Still /\ fph' = "shot")
  PROVE  FilmInv'
<1>0. FilmTypes /\ Stills
  BY DEF FilmInv
<1>1. CASE RunLooks
  <2> DEFINE m == [kind |-> "seen", tab |-> active, reveals |-> active \in showing]
  <2>1. m \in Arrivals
    BY <1>0 DEF Arrivals, FilmTypes
  <2>2. /\ sent' = Append(sent, m) /\ fph' = fph /\ fph # "off" /\ agent = "idle" /\ agent' = "looking"
        /\ UNCHANGED <<tickerVars, frame, showing, active, withheld, fileVars>>
    BY <1>1 DEF RunLooks, Going
  <2>3. m.kind = "seen" /\ (~m.reveals => active \notin showing)
    OBVIOUS
  <2> HIDE DEF m
  <2> QED BY <2>1, <2>2, <2>3, SendingKeeps
<1>2. CASE RunSwitches
  <2> DEFINE m == [kind |-> "measured", tab |-> active]
  <2>1. m \in Arrivals /\ m.kind = "measured"
    BY <1>0 DEF Arrivals, FilmTypes
  <2>2. /\ sent' = Append(sent, m) /\ fph' = fph /\ fph # "off" /\ agent = "idle" /\ agent' = "switching"
        /\ UNCHANGED <<tickerVars, frame, showing, active, withheld, fileVars>>
    BY <1>2 DEF RunSwitches, Going
  <2> HIDE DEF m
  <2> QED BY <2>1, <2>2, SendingKeeps
<1>3. CASE Paints
  <2>1. PICK tab \in casts : sent' = Append(sent, [kind |-> "frame", tab |-> tab, picture |-> Picture(tab)])
    BY <1>3 DEF Paints
  <2> DEFINE m == [kind |-> "frame", tab |-> tab, picture |-> Picture(tab)]
  <2>2. tab \in FilmTab /\ Picture(tab) \in {"held", "clean"} /\ (Picture(tab) = "held" => withheld /\ tab \in showing)
    BY <1>0 DEF FilmTypes, Picture
  <2>3. m \in Arrivals /\ m.kind = "frame" /\ (m.picture = "held" => withheld /\ m.tab \in showing)
    BY <2>2 DEF Arrivals
  <2>4. /\ sent' = Append(sent, m) /\ fph' = fph /\ fph # "off" /\ agent' = agent
        /\ UNCHANGED <<tickerVars, frame, showing, active, withheld, fileVars>>
    BY <1>3, <2>1 DEF Paints
  <2> HIDE DEF m
  <2> QED BY <2>3, <2>4, SendingKeeps
<1>4. CASE Still /\ fph' = "shot"
  <2> DEFINE m == [kind |-> "shot", tab |-> active, picture |-> Picture(active)]
  <2>1. /\ sent' = Append(sent, m) /\ fph = "still" /\ agent' = agent
        /\ UNCHANGED <<tickerVars, frame, showing, active, withheld, fileVars>>
    BY <1>4 DEF Still
  <2>2. Picture(active) = "clean"
    BY <1>0, <2>1 DEF Stills, Picture
  <2>3. m \in Arrivals /\ m.kind = "shot" /\ m.picture = "clean"
    BY <1>0, <2>2 DEF Arrivals, FilmTypes
  <2> HIDE DEF m
  <2> QED BY <1>4, <2>1, <2>3, SendingKeeps
<1> QED BY <1>1, <1>2, <1>3, <1>4

\* The steps that take what arrives: the rest of the queue moves up.
LEMMA QueueMovesUp ==
  ASSUME FilmInv, sent # <<>>, sent' = Tail(sent), Going, fph' = fph, UNCHANGED showing,
         \/ Head(sent).kind \in {"frame", "shot"} /\ UNCHANGED <<active, withheld, agent>>
         \/ Head(sent).kind = "seen" /\ withheld' = Head(sent).reveals /\ UNCHANGED active
         \/ Head(sent).kind = "measured" /\ UNCHANGED withheld
  PROVE  Asked1' /\ HeldBack'
<1>1. sent \in Seq(Arrivals) /\ Asked1 /\ HeldBack
  BY DEF FilmInv, FilmTypes
<1>2. /\ Head(sent) = sent[1] /\ 1 \in DOMAIN sent
      /\ \A i \in DOMAIN sent' : i + 1 \in DOMAIN sent /\ sent'[i] = sent[i + 1] /\ i \in Nat /\ i >= 1
      /\ \A i \in DOMAIN sent' : \A j \in 1..(i - 1) : j \in DOMAIN sent'
  BY <1>1, Arrives
<1>3. Head(sent).kind \in {"seen", "measured"} => \A i \in DOMAIN sent' : sent'[i].kind \notin {"seen", "measured"}
  <2> SUFFICES ASSUME sent[1].kind \in {"seen", "measured"}, NEW i \in DOMAIN sent', sent'[i].kind \in {"seen", "measured"}
               PROVE  FALSE
    BY <1>2
  <2>1. sent[i + 1].kind \in {"seen", "measured"} /\ i + 1 \in DOMAIN sent /\ i + 1 # 1
    BY <1>2
  <2> QED BY <1>1, <1>2, <2>1 DEF Asked1
<1>4. Asked1'
  <2>1. CASE Head(sent).kind \in {"seen", "measured"}
    BY <1>3, <2>1 DEF Asked1
  <2>2. CASE Head(sent).kind \in {"frame", "shot"}
    <3>0. active' = active /\ agent' = agent /\ withheld' = withheld
      BY <2>2
    <3>1. \A i \in DOMAIN sent' : (sent'[i].kind = "seen" => agent' = "looking") /\ (sent'[i].kind = "measured" => agent' = "switching")
      BY <1>1, <1>2, <3>0 DEF Asked1
    <3>2. \A i \in DOMAIN sent' : sent'[i].kind = "seen" /\ ~sent'[i].reveals => active' \notin showing'
      BY <1>1, <1>2, <3>0 DEF Asked1
    <3>3. \A i, j \in DOMAIN sent' : sent'[i].kind \in {"seen", "measured"} /\ sent'[j].kind \in {"seen", "measured"} => i = j
      <4> SUFFICES ASSUME NEW i \in DOMAIN sent', NEW j \in DOMAIN sent',
                          sent'[i].kind \in {"seen", "measured"}, sent'[j].kind \in {"seen", "measured"}
                   PROVE  i = j
        OBVIOUS
      <4>1. i + 1 = j + 1
        BY <1>1, <1>2 DEF Asked1
      <4> QED BY <1>2, <4>1
    <3> QED BY <3>1, <3>2, <3>3 DEF Asked1
  <2> QED BY <2>1, <2>2
<1>5. HeldBack'
  <2> SUFFICES ASSUME NEW i \in DOMAIN sent', sent'[i].kind = "frame", sent'[i].picture = "held"
               PROVE  \/ withheld' /\ \A j \in 1..(i - 1) : sent'[j].kind = "seen" => sent'[j].reveals
                      \/ sent'[i].tab # active' /\ \A j \in 1..(i - 1) : sent'[j].kind # "measured"
    BY DEF HeldBack
  <2>1. /\ i + 1 \in DOMAIN sent /\ sent[i + 1].kind = "frame" /\ sent[i + 1].picture = "held" /\ sent'[i] = sent[i + 1]
        /\ i \in Nat /\ i >= 1
    BY <1>2
  <2>2. \A j \in 1..(i - 1) : sent'[j] = sent[j + 1] /\ j + 1 \in 1..i /\ j \in DOMAIN sent'
    BY <1>2, <2>1
  <2>3. \/ withheld /\ \A j \in 1..i : sent[j].kind = "seen" => sent[j].reveals
        \/ sent[i + 1].tab # active /\ \A j \in 1..i : sent[j].kind # "measured"
    BY <1>1, <2>1 DEF HeldBack
  <2>4. 1 \in 1..i
    BY <2>1
  <2>5. CASE Head(sent).kind \in {"frame", "shot"}
    BY <2>1, <2>2, <2>3, <2>5
  <2>6. CASE Head(sent).kind = "seen"
    <3>0. active' = active /\ withheld' = sent[1].reveals
      BY <1>2, <2>6
    <3>1. \A j \in 1..(i - 1) : sent'[j].kind \notin {"seen", "measured"}
      BY <1>3, <2>2, <2>6
    <3> QED BY <1>2, <2>1, <2>3, <2>4, <2>6, <3>0, <3>1
  <2>7. CASE Head(sent).kind = "measured"
    <3>1. \A j \in 1..(i - 1) : sent'[j].kind \notin {"seen", "measured"}
      BY <1>3, <2>2, <2>7
    <3>2. withheld
      BY <1>2, <2>3, <2>4, <2>7
    <3> QED BY <2>7, <3>1, <3>2
  <2> QED BY <2>5, <2>6, <2>7
<1> QED BY <1>4, <1>5

LEMMA TakersKeep ==
  ASSUME FilmInv, Reveals \/ SwitchTab \/ FrameArrives \/ Shot \/ Still
  PROVE  FilmInv'
<1>0. FilmTypes /\ Stills /\ frame # "held" /\ HeldNeverFilmed
  BY DEF FilmInv
<1>1. CASE Still
  <2>1. CASE fph' = "shot"
    BY <1>1, <2>1, SendersKeep
  <2>2. CASE fph' # "shot"
    <3>1. /\ UNCHANGED <<sent, active, withheld, agent, fileVars, tickerVars, frame>> /\ fph = "still" /\ fph' = "done" /\ showing' = showing
      BY <1>1, <2>2 DEF Still
    <3>2. recast' \in FilmTab /\ casts' \subseteq FilmTab /\ film' \subseteq film \cup {frame}
      BY <1>0, <3>1 DEF FilmTypes, tickerVars
    <3> QED BY <3>1, <3>2, FilmQuietStep DEF Going
  <2> QED BY <2>1, <2>2
<1>2. CASE Shot /\ sent' = sent
  <2>1. /\ UNCHANGED <<sent, active, withheld, agent, fileVars, frame, film, recast, casts>> /\ fph = "shot" /\ fph' = "done" /\ showing' = showing
    <3>1. ~(sent # <<>> /\ sent' = Tail(sent))
      <4> SUFFICES ASSUME sent # <<>>, sent' = Tail(sent) PROVE FALSE
        OBVIOUS
      <4>1. sent \in Seq(Arrivals) /\ Len(sent) \in Nat /\ Len(sent) # 0
        BY <1>0 DEF FilmTypes
      <4>2. Len(Tail(sent)) = Len(sent) - 1
        BY <4>1
      <4> QED BY <1>2, <4>1, <4>2
    <3> QED BY <1>2, <3>1 DEF Shot
  <2>2. recast' \in FilmTab /\ casts' \subseteq FilmTab /\ film' \subseteq film \cup {frame}
    BY <1>0, <2>1 DEF FilmTypes
  <2> QED BY <2>1, <2>2, FilmQuietStep DEF Going
<1>3. CASE (Shot /\ sent' # sent) \/ Reveals \/ SwitchTab \/ FrameArrives
  <2>1. /\ sent # <<>> /\ sent' = Tail(sent) /\ UNCHANGED <<showing, recast, casts, fileVars>>
        /\ Head(sent).kind \in {"frame", "shot", "seen", "measured"}
    BY <1>3 DEF Shot, Reveals, SwitchTab, FrameArrives, tickerVars
  <2>2. /\ sent' \in Seq(Arrivals) /\ Head(sent) \in Arrivals /\ Head(sent) = sent[1] /\ 1 \in DOMAIN sent
        /\ \A i \in DOMAIN sent' : i + 1 \in DOMAIN sent /\ sent'[i] = sent[i + 1]
    BY <1>0, <2>1, Arrives DEF FilmTypes
  <2>3. fph' # "off" /\ (Going' <=> Going) /\ (fph' \in {"still", "shot"} => fph' = fph) /\ (Going => fph' = fph)
    <3>1. fph # "off"
      BY <1>0, <2>1 DEF FilmTypes
    <3> QED BY <1>3, <3>1 DEF Shot, Reveals, SwitchTab, FrameArrives, Going
  <2>4. active' \in FilmTab /\ withheld' \in BOOLEAN /\ (~Going => withheld' = withheld)
    <3>1. Head(sent).kind = "seen" => Head(sent).reveals \in BOOLEAN
      BY <2>2 DEF Arrivals
    <3> QED BY <1>0, <1>3, <3>1 DEF Shot, Reveals, SwitchTab, FrameArrives, FilmTypes, FilmTab
  <2>5. FilmTypes'
    BY <1>0, <2>1, <2>2, <2>3, <2>4 DEF FilmTypes
  <2>6. Stills'
    BY <1>0, <2>2, <2>3, <2>4 DEF Stills, Going
  <2>7. Going' => Asked1' /\ HeldBack'
    <3> SUFFICES ASSUME Going PROVE Asked1' /\ HeldBack'
      BY <2>3
    <3>1. \/ Head(sent).kind \in {"frame", "shot"} /\ UNCHANGED <<active, withheld, agent>>
          \/ Head(sent).kind = "seen" /\ withheld' = Head(sent).reveals /\ UNCHANGED active
          \/ Head(sent).kind = "measured" /\ UNCHANGED withheld
      BY <1>3 DEF Shot, Reveals, SwitchTab, FrameArrives
    <3> QED BY <2>1, <2>3, <3>1, QueueMovesUp
  <2>8. frame' # "held" /\ HeldNeverFilmed'
    <3>1. CASE Reveals \/ SwitchTab
      BY <1>0, <3>1 DEF Reveals, SwitchTab, tickerVars, HeldNeverFilmed
    <3>2. CASE FrameArrives
      <4>1. film' = film /\ Head(sent).kind = "frame"
        BY <3>2 DEF FrameArrives
      <4>2. CASE frame' = frame
        BY <1>0, <4>1, <4>2 DEF HeldNeverFilmed
      <4>3. CASE frame' # frame
        <5>1. Going /\ sent[1].tab = active /\ ~withheld /\ frame' = sent[1].picture
          BY <2>2, <3>2, <4>3 DEF FrameArrives, Keeps
        <5>2. sent[1].kind = "frame" /\ HeldBack
          BY <2>2, <4>1, <5>1 DEF FilmInv
        <5>3. sent[1].picture # "held"
          BY <2>2, <5>1, <5>2 DEF HeldBack
        <5> QED BY <1>0, <4>1, <5>1, <5>3 DEF HeldNeverFilmed
      <4> QED BY <4>2, <4>3
    <3>3. CASE Shot
      <4>1. frame' = frame
        BY <3>3 DEF Shot
      <4>2. film' = film \/ (film' = {Head(sent).picture} /\ Head(sent).kind = "shot")
        BY <3>3 DEF Shot
      <4>3. Head(sent).kind = "shot" => Head(sent).picture = "clean"
        BY <1>0, <2>2 DEF Stills
      <4> QED BY <1>0, <4>1, <4>2, <4>3 DEF HeldNeverFilmed
    <3> QED BY <1>3, <3>1, <3>2, <3>3
  <2> QED BY <2>1, <2>5, <2>6, <2>7, <2>8, FilesKeep DEF FilmInv
<1> QED BY <1>1, <1>2, <1>3

LEMMA FilmStep ==
  ASSUME FilmInv, [FilmNext]_filmVars
  PROVE  FilmInv'
<1>1. CASE FilmNext
  BY <1>1, TickerKeeps, EndingKeeps, RunKeeps, SendersKeep, TakersKeep DEF FilmNext, FilmEnds
<1>2. CASE UNCHANGED filmVars
  <2>1. UNCHANGED <<fph, recast, casts, frame, film, sent, showing, active, withheld, agent, disk, outs>>
    BY <1>2 DEF filmVars
  <2>2. recast' \in FilmTab /\ casts' \subseteq FilmTab /\ film' \subseteq film \cup {frame} /\ UNCHANGED fileVars
    BY <2>1 DEF FilmInv, FilmTypes, fileVars
  <2> QED BY <2>1, <2>2, FilmQuietStep DEF Going
<1> QED BY <1>1, <1>2

----------------------------------------------------------------------------
(* The native host.                                                        *)

\* A run whose end the extension was told has said all it will say.
HostInv ==
  /\ HostTypeOK /\ toChrome \in Seq(HostRuns \X {"line", "release"})
  /\ \A i \in DOMAIN toChrome : toChrome[i][2] = "release" => conns[toChrome[i][1]].at = "ended"
  /\ ReleaseLast

LEMMA HostStarts ==
  ASSUME HostInit
  PROVE  HostInv
<1>1. HostTypeOK
  BY HostAssumption DEF HostInit, HostTypeOK
<1>2. toChrome = <<>> /\ <<>> \in Seq(HostRuns \X {"line", "release"})
  BY DEF HostInit
<1> QED BY <1>1, <1>2 DEF HostInv, ReleaseLast

\* The steps of a host itself: its listing changes, and what runs say does not.
LEMMA ListingKeeps ==
  ASSUME HostInv, NEW h \in Hosts, UNCHANGED <<conns, toChrome>>, record' \in {record, h, 0}, socket' \in {socket, h, 0},
         NEW at1 \in {"unstarted", "greeted", "listening", "serving", "ending", "owns", "gone", "refused"}, Moves(h, at1)
  PROVE  HostInv'
<1>1. HostTypeOK'
  BY DEF HostInv, HostTypeOK, Moves
<1> QED BY <1>1 DEF HostInv, ReleaseLast

\* A connection's own step.
LEMMA ConnKeeps ==
  ASSUME HostInv, NEW r \in HostRuns, NEW c \in [at : {"none", "open", "hung_up", "ended"}, sent : 0..MaxLines, relayed : 0..MaxLines],
         conns' = [conns EXCEPT ![r] = c], UNCHANGED <<hosts, record, socket>>, conns[r].at # "ended",
         \/ toChrome' = toChrome
         \/ toChrome' = Append(toChrome, <<r, "line">>)
         \/ toChrome' = Append(toChrome, <<r, "release">>) /\ c.at = "ended"
  PROVE  HostInv'
<1> DEFINE S == HostRuns \X {"line", "release"}
<1>1. HostTypeOK'
  BY DEF HostInv, HostTypeOK
<1>2. /\ toChrome \in Seq(S) /\ ReleaseLast
      /\ \A i \in DOMAIN toChrome : toChrome[i][2] = "release" => conns[toChrome[i][1]].at = "ended"
      /\ \A i \in DOMAIN toChrome : toChrome[i][1] \in HostRuns
  <2>1. toChrome \in Seq(S)
    BY DEF HostInv
  <2>2. \A i \in DOMAIN toChrome : toChrome[i] \in S
    BY <2>1
  <2> QED BY <2>1, <2>2 DEF HostInv
<1>3. conns \in [HostRuns -> [at : {"none", "open", "hung_up", "ended"}, sent : 0..MaxLines, relayed : 0..MaxLines]]
  BY DEF HostInv, HostTypeOK
<1>4. \A i \in DOMAIN toChrome : toChrome[i][2] = "release" => toChrome[i][1] # r
  BY <1>2
<1>5. \A o \in HostRuns : o # r => conns'[o] = conns[o]
  BY <1>3
<1>6. conns'[r] = c
  BY <1>3
<1>7. CASE toChrome' = toChrome
  <2>1. \A i \in DOMAIN toChrome' : toChrome'[i][2] = "release" => conns'[toChrome'[i][1]].at = "ended"
    BY <1>2, <1>4, <1>5, <1>7
  <2>2. ReleaseLast'
    BY <1>2, <1>7 DEF ReleaseLast
  <2> QED BY <1>1, <1>2, <1>7, <2>1, <2>2 DEF HostInv
<1>8. CASE toChrome' # toChrome
  <2>1. PICK what \in {"line", "release"} : toChrome' = Append(toChrome, <<r, what>>) /\ (what = "release" => c.at = "ended")
    BY <1>8
  <2> DEFINE e == <<r, what>>
             n == Len(toChrome) + 1
  <2>2. e \in S /\ e[1] = r /\ e[2] = what
    OBVIOUS
  <2> HIDE DEF e
  <2>3. toChrome' = Append(toChrome, e)
    BY <2>1 DEF e
  <2>4. /\ toChrome' \in Seq(S) /\ n \in DOMAIN toChrome' /\ toChrome'[n] = e
        /\ \A i \in DOMAIN toChrome : i \in DOMAIN toChrome' /\ toChrome'[i] = toChrome[i] /\ i \in Nat /\ i >= 1 /\ i < n
        /\ \A i \in DOMAIN toChrome' : i \in DOMAIN toChrome \/ i = n
        /\ n \in Nat
    BY <1>2, <2>2, <2>3, Sends
  <2> HIDE DEF n, S
  <2>5. \A i \in DOMAIN toChrome' : toChrome'[i][2] = "release" => conns'[toChrome'[i][1]].at = "ended"
    BY <1>2, <1>4, <1>5, <1>6, <2>1, <2>2, <2>4
  <2>6. ReleaseLast'
    <3> SUFFICES ASSUME NEW i \in DOMAIN toChrome', NEW j \in DOMAIN toChrome',
                        toChrome'[i][2] = "release", toChrome'[j][1] = toChrome'[i][1], i # j
                 PROVE  j < i
      BY DEF ReleaseLast
    <3>1. CASE i = n
      BY <2>4, <3>1
    <3>2. CASE i \in DOMAIN toChrome
      <4>1. toChrome[i][2] = "release" /\ toChrome[i][1] # r
        BY <1>4, <2>4, <3>2
      <4>2. j # n
        BY <2>2, <2>4, <3>2, <4>1
      <4>3. j \in DOMAIN toChrome /\ toChrome[j][1] = toChrome[i][1]
        BY <2>4, <3>2, <4>2
      <4> QED BY <1>2, <3>2, <4>1, <4>3 DEF ReleaseLast
    <3> QED BY <2>4, <3>1, <3>2
  <2> QED BY <1>1, <2>4, <2>5, <2>6 DEF HostInv, S
<1> QED BY <1>7, <1>8

LEMMA HostStep ==
  ASSUME HostInv, [HostNext]_hostVars
  PROVE  HostInv'
<1>1. ASSUME NEW h \in Hosts,
             Greet(h) \/ Refuse(h) \/ Listen(h) \/ ListRecord(h) \/ StdinEnds(h) \/ HostKilled(h) \/ DropListing(h) \/ RemoveListing(h)
      PROVE  HostInv'
  <2>1. \E at1 \in {"unstarted", "greeted", "listening", "serving", "ending", "owns", "gone", "refused"} : Moves(h, at1)
    BY <1>1 DEF Greet, Refuse, Listen, ListRecord, StdinEnds, HostKilled, DropListing, RemoveListing
  <2>2. UNCHANGED <<conns, toChrome>> /\ record' \in {record, h, 0} /\ socket' \in {socket, h, 0}
    BY <1>1 DEF Greet, Refuse, Listen, ListRecord, StdinEnds, HostKilled, DropListing, RemoveListing
  <2> QED BY <2>1, <2>2, ListingKeeps
<1>2. ASSUME NEW r \in HostRuns, Dial(r) \/ Say(r) \/ HangUp(r) \/ RelayLine(r) \/ ReleaseConn(r)
      PROVE  HostInv'
  <2> DEFINE C == [at : {"none", "open", "hung_up", "ended"}, sent : 0..MaxLines, relayed : 0..MaxLines]
  <2>1. conns \in [HostRuns -> C] /\ conns[r] \in C /\ MaxLines \in Nat
    BY HostAssumption DEF HostInv, HostTypeOK
  <2>2. \A at1 \in {"none", "open", "hung_up", "ended"} : [conns[r] EXCEPT !.at = at1] \in C
    BY <2>1
  <2>3. \A k \in 0..MaxLines : [conns[r] EXCEPT !.sent = k] \in C /\ [conns[r] EXCEPT !.relayed = k] \in C
    BY <2>1
  <2>4. CASE Dial(r)
    <3>1. conns' = [conns EXCEPT ![r] = [conns[r] EXCEPT !.at = "open"]] /\ conns[r].at # "ended" /\ UNCHANGED <<hosts, record, socket, toChrome>>
      BY <2>1, <2>4 DEF Dial
    <3> QED BY <2>2, <3>1, ConnKeeps
  <2>5. CASE HangUp(r)
    <3>1. conns' = [conns EXCEPT ![r] = [conns[r] EXCEPT !.at = "hung_up"]] /\ conns[r].at # "ended" /\ UNCHANGED <<hosts, record, socket, toChrome>>
      BY <2>1, <2>5 DEF HangUp
    <3> QED BY <2>2, <3>1, ConnKeeps
  <2>6. CASE Say(r)
    <3> DEFINE k == conns[r].sent + 1
    <3>1. k \in 0..MaxLines
      BY <2>1, <2>6 DEF Say
    <3>2. conns' = [conns EXCEPT ![r] = [conns[r] EXCEPT !.sent = k]] /\ conns[r].at # "ended" /\ UNCHANGED <<hosts, record, socket, toChrome>>
      BY <2>1, <2>6 DEF Say
    <3> HIDE DEF k
    <3> QED BY <2>3, <3>1, <3>2, ConnKeeps
  <2>7. CASE RelayLine(r)
    <3> DEFINE k == conns[r].relayed + 1
    <3>1. k \in 0..MaxLines
      BY <2>1, <2>7 DEF RelayLine
    <3>2. /\ conns' = [conns EXCEPT ![r] = [conns[r] EXCEPT !.relayed = k]] /\ conns[r].at # "ended" /\ UNCHANGED <<hosts, record, socket>>
          /\ toChrome' = Append(toChrome, <<r, "line">>)
      BY <2>1, <2>7 DEF RelayLine
    <3> HIDE DEF k
    <3> QED BY <2>3, <3>1, <3>2, ConnKeeps
  <2>8. CASE ReleaseConn(r)
    <3>1. /\ conns' = [conns EXCEPT ![r] = [conns[r] EXCEPT !.at = "ended"]] /\ conns[r].at # "ended" /\ UNCHANGED <<hosts, record, socket>>
          /\ toChrome' = Append(toChrome, <<r, "release">>) /\ [conns[r] EXCEPT !.at = "ended"].at = "ended"
      BY <2>1, <2>8 DEF ReleaseConn
    <3> QED BY <2>2, <3>1, ConnKeeps
  <2> QED BY <1>2, <2>4, <2>5, <2>6, <2>7, <2>8
<1>3. CASE UNCHANGED hostVars
  BY <1>3 DEF hostVars, HostInv, HostTypeOK, ReleaseLast
<1> QED BY <1>1, <1>2, <1>3 DEF HostNext

----------------------------------------------------------------------------
(* The shim.                                                               *)

Commands == [kind : Kinds, tab : ShimTabs, at : Ats, ok : BOOLEAN]
LineEvents == {"reply", "popup", "frame", "frame_gone", "detached", "target_closed", "removed", "stop"}
Lines == [event : LineEvents, tab : ShimTabs, id : Nat, ok : BOOLEAN]
Over == {"gone", "gone_again"}

\* A line that brings a tab to the run, and a command that has one to keep.
Brings(line, cs) == line.event = "popup" \/ (line.event = "reply" /\ line.ok /\ cs[line.id].kind \in {"create", "attach"})
Holding(c) == c.at = "got" /\ c.ok /\ c.kind \in {"create", "attach"}

\* A tab comes to the run once, and is on its way, about to be kept, kept or
\* over: never two of these.
ComesOnce ==
  /\ \A k \in DOMAIN inbox : Brings(inbox[k], commands) =>
       /\ chromeTabs[inbox[k].tab] # "new" /\ inbox[k].tab \notin attached /\ told[inbox[k].tab] \notin Over
       /\ \A i \in DOMAIN commands : Holding(commands[i]) => commands[i].tab # inbox[k].tab
       /\ \A l \in DOMAIN inbox : Brings(inbox[l], commands) /\ inbox[l].tab = inbox[k].tab => l = k
  /\ \A i \in DOMAIN commands : Holding(commands[i]) =>
       /\ chromeTabs[commands[i].tab] # "new" /\ commands[i].tab \notin attached /\ told[commands[i].tab] \notin Over
       /\ \A j \in DOMAIN commands : Holding(commands[j]) /\ commands[j].tab = commands[i].tab => i = j
  /\ \A t \in ShimTabs : t \in attached \/ told[t] \in Over => chromeTabs[t] # "new"
  /\ \A t \in attached : told[t] \notin Over

\* A reply under way is its command's only one, and the command waits for it.
OneReply ==
  /\ \A k \in DOMAIN inbox : inbox[k].event = "reply" =>
       inbox[k].id \in DOMAIN commands /\ commands[inbox[k].id].at = "asked" /\ commands[inbox[k].id].tab = inbox[k].tab
  /\ \A k, l \in DOMAIN inbox : inbox[k].event = "reply" /\ inbox[l].event = "reply" /\ inbox[k].id = inbox[l].id => k = l

ShimTypes ==
  /\ commands \in Seq(Commands) /\ inbox \in Seq(Lines)
  /\ attached \subseteq ShimTabs /\ foreign \subseteq ShimTabs /\ autoAttach \in BOOLEAN
  /\ chromeTabs \in [ShimTabs -> {"new", "held", "loose", "gone"}]
  /\ events \in 0..MaxEvents /\ told \in [ShimTabs -> {"unknown", "known", "gone", "gone_again"}]
  /\ closed \in {"no", "lost", "cancelled", "foreign_frame"}

ShimInv == ShimTypes /\ (closed = "no" => ComesOnce /\ OneReply) /\ DestroyedOnce

LEMMA ShimPromises ==
  ASSUME ShimInv
  PROVE  ShimTypeOK /\ DestroyedOnce
<1>1. \A i \in DOMAIN commands : commands[i] \in Commands
  BY DEF ShimInv, ShimTypes
<1>2. \A i \in DOMAIN commands : commands[i].kind \in Kinds /\ commands[i].at \in Ats /\ commands[i].tab \in ShimTabs
  BY <1>1 DEF Commands
<1> QED BY <1>2 DEF ShimInv, ShimTypes, ShimTypeOK

LEMMA ShimStarts ==
  ASSUME ShimInit
  PROVE  ShimInv
<1>1. <<>> \in Seq(Commands) /\ <<>> \in Seq(Lines)
  OBVIOUS
<1>2. ShimTypes
  <2>1. autoAttach \in BOOLEAN /\ attached \subseteq ShimTabs /\ foreign \subseteq ShimTabs
    BY DEF ShimInit
  <2>2. events \in 0..MaxEvents
    BY ShimAssumption DEF ShimInit
  <2>3. chromeTabs \in [ShimTabs -> {"new", "held", "loose", "gone"}] /\ told \in [ShimTabs -> {"unknown", "known", "gone", "gone_again"}]
    BY DEF ShimInit
  <2>4. commands \in Seq(Commands) /\ inbox \in Seq(Lines) /\ closed = "no"
    BY <1>1 DEF ShimInit
  <2> QED BY <2>1, <2>2, <2>3, <2>4 DEF ShimTypes
<1>3. ComesOnce /\ OneReply /\ DestroyedOnce
  BY DEF ShimInit, ComesOnce, OneReply, DestroyedOnce, Over
<1> QED BY <1>2, <1>3 DEF ShimInv

\* A step that leaves no tab newly on its way, kept or over.
LEMMA ShimQuiet ==
  ASSUME ShimInv, ShimTypes', closed' = "no", closed = "no", UNCHANGED <<attached, chromeTabs>>,
         \A t \in ShimTabs : told'[t] \in Over <=> told[t] \in Over,
         \A k \in DOMAIN inbox' : inbox'[k] = inbox[k] /\ k \in DOMAIN inbox, OneReply',
         \A k \in DOMAIN inbox' : Brings(inbox'[k], commands') => Brings(inbox[k], commands),
         \A i \in DOMAIN commands' : Holding(commands'[i]) => i \in DOMAIN commands /\ Holding(commands[i]) /\ commands'[i].tab = commands[i].tab
  PROVE  ComesOnce'
<1>0. ComesOnce /\ ShimTypes
  BY DEF ShimInv
<1>1. \A k \in DOMAIN inbox : inbox[k].tab \in ShimTabs
  <2>1. \A k \in DOMAIN inbox : inbox[k] \in Lines
    BY <1>0 DEF ShimTypes
  <2> QED BY <2>1 DEF Lines
<1>2. \A i \in DOMAIN commands : commands[i].tab \in ShimTabs
  <2>1. \A i \in DOMAIN commands : commands[i] \in Commands
    BY <1>0 DEF ShimTypes
  <2> QED BY <2>1 DEF Commands
<1>3. ASSUME NEW k \in DOMAIN inbox', Brings(inbox'[k], commands')
      PROVE  /\ chromeTabs'[inbox'[k].tab] # "new" /\ inbox'[k].tab \notin attached' /\ told'[inbox'[k].tab] \notin Over
             /\ \A i \in DOMAIN commands' : Holding(commands'[i]) => commands'[i].tab # inbox'[k].tab
             /\ \A l \in DOMAIN inbox' : Brings(inbox'[l], commands') /\ inbox'[l].tab = inbox'[k].tab => l = k
  <2>1. k \in DOMAIN inbox /\ inbox'[k] = inbox[k] /\ Brings(inbox[k], commands) /\ inbox[k].tab \in ShimTabs
    BY <1>1, <1>3
  <2> QED BY <1>0, <1>2, <2>1 DEF ComesOnce
<1>4. ASSUME NEW i \in DOMAIN commands', Holding(commands'[i])
      PROVE  /\ chromeTabs'[commands'[i].tab] # "new" /\ commands'[i].tab \notin attached' /\ told'[commands'[i].tab] \notin Over
             /\ \A j \in DOMAIN commands' : Holding(commands'[j]) /\ commands'[j].tab = commands'[i].tab => i = j
  <2>1. i \in DOMAIN commands /\ Holding(commands[i]) /\ commands'[i].tab = commands[i].tab /\ commands[i].tab \in ShimTabs
    BY <1>2, <1>4
  <2> QED BY <1>0, <2>1 DEF ComesOnce
<1>5. \A t \in ShimTabs : t \in attached' \/ told'[t] \in Over => chromeTabs'[t] # "new"
  BY <1>0 DEF ComesOnce
<1>6. \A t \in attached' : told'[t] \notin Over
  BY <1>0 DEF ComesOnce, ShimTypes
<1> QED BY <1>3, <1>4, <1>5, <1>6 DEF ComesOnce

\* One command moves on; the others stay as they were.
LEMMA CommandMoves ==
  ASSUME ShimTypes, NEW i \in DOMAIN commands, NEW c \in Commands, commands' = [commands EXCEPT ![i] = c]
  PROVE  /\ commands' \in Seq(Commands) /\ DOMAIN commands' = DOMAIN commands /\ commands'[i] = c
         /\ \A j \in DOMAIN commands : j # i => commands'[j] = commands[j]
<1>1. commands \in Seq(Commands)
  BY DEF ShimTypes
<1> QED BY <1>1

\* `Known` and `Destroyed`, tab by tab.
LEMMA TellsOf ==
  ASSUME ShimTypes, NEW tab \in ShimTabs
  PROVE  /\ Known(tab) \in [ShimTabs -> {"unknown", "known", "gone", "gone_again"}]
         /\ Destroyed(tab) \in [ShimTabs -> {"unknown", "known", "gone", "gone_again"}]
         /\ \A t \in ShimTabs : (Known(tab)[t] \in Over <=> told[t] \in Over) /\ (Known(tab)[t] = "gone_again" <=> told[t] = "gone_again")
         /\ \A t \in ShimTabs : t # tab => Destroyed(tab)[t] = told[t]
         /\ told[tab] \notin Over => Destroyed(tab)[tab] = "gone"
BY DEF ShimTypes, Known, Destroyed, Over

LEMMA CommandingKeeps ==
  ASSUME ShimInv, NEW kind \in Kinds, NEW tab \in ShimTabs, Command(kind, tab)
  PROVE  ShimInv'
<1>0. ShimTypes /\ closed = "no" /\ ComesOnce /\ OneReply /\ DestroyedOnce
  BY DEF ShimInv, Command
<1>1. PICK c : c \in Commands /\ c.at # "got" /\ commands' = Append(commands, c)
  <2>1. \A at1 \in Ats, b \in BOOLEAN : /\ [kind |-> kind, tab |-> tab, at |-> at1, ok |-> b] \in Commands
                                       /\ [kind |-> kind, tab |-> tab, at |-> at1, ok |-> b].at = at1
    BY DEF Commands
  <2>2. \E at1 \in {"asked", "replied"}, b \in BOOLEAN : commands' = Append(commands, [kind |-> kind, tab |-> tab, at |-> at1, ok |-> b])
    <3>1. CASE InPlace(kind, tab)
      BY <3>1 DEF Command, Reply
    <3>2. CASE ~InPlace(kind, tab)
      BY <3>2 DEF Command
    <3> QED BY <3>1, <3>2
  <2>3. PICK at1 \in {"asked", "replied"}, b \in BOOLEAN : commands' = Append(commands, [kind |-> kind, tab |-> tab, at |-> at1, ok |-> b])
    BY <2>2
  <2> QED BY <2>1, <2>3 DEF Ats
<1>2. /\ commands' \in Seq(Commands)
      /\ \A i \in DOMAIN commands : i \in DOMAIN commands' /\ commands'[i] = commands[i]
      /\ \A i \in DOMAIN commands' : i \in DOMAIN commands \/ commands'[i] = c
  <2>1. commands \in Seq(Commands)
    BY <1>0 DEF ShimTypes
  <2> QED BY <1>1, <2>1, Sends
<1>3. UNCHANGED <<attached, foreign, inbox, chromeTabs, events, closed>>
  BY DEF Command
<1>4. told' = told \/ told' = Known(tab)
  BY DEF Command
<1>5. /\ told' \in [ShimTabs -> {"unknown", "known", "gone", "gone_again"}]
      /\ \A t \in ShimTabs : told'[t] \in Over <=> told[t] \in Over
      /\ \A t \in ShimTabs : told'[t] = "gone_again" <=> told[t] = "gone_again"
  BY <1>0, <1>4, TellsOf DEF ShimTypes
<1>6. autoAttach' \in BOOLEAN
  BY <1>0 DEF Command, ShimTypes
<1>7. ShimTypes'
  BY <1>0, <1>2, <1>3, <1>5, <1>6 DEF ShimTypes
<1>8. OneReply'
  BY <1>0, <1>2, <1>3 DEF OneReply
<1>9. DestroyedOnce'
  BY <1>0, <1>5 DEF DestroyedOnce
<1>10. \A k \in DOMAIN inbox : Brings(inbox[k], commands') => Brings(inbox[k], commands)
  BY <1>0, <1>2 DEF Brings, OneReply
<1>11. \A i \in DOMAIN commands' : Holding(commands'[i]) => i \in DOMAIN commands /\ Holding(commands[i]) /\ commands'[i].tab = commands[i].tab
  BY <1>1, <1>2 DEF Holding
<1>12. ComesOnce'
  BY <1>0, <1>3, <1>5, <1>7, <1>8, <1>10, <1>11, ShimQuiet
<1> QED BY <1>7, <1>8, <1>9, <1>12 DEF ShimInv

LEMMA CommandEndKeeps ==
  ASSUME ShimInv, NEW i \in DOMAIN commands, CommandEnds(i)
  PROVE  ShimInv'
<1>0. ShimTypes /\ (closed = "no" => ComesOnce /\ OneReply) /\ DestroyedOnce
  BY DEF ShimInv
<1>1. commands[i] \in Commands /\ commands[i].tab \in ShimTabs
  <2>1. commands[i] \in Commands
    BY <1>0 DEF ShimTypes
  <2> QED BY <2>1 DEF Commands
<1> DEFINE c == [commands[i] EXCEPT !.at = "replied"]
<1>2. c \in Commands /\ c.at = "replied" /\ c.kind = commands[i].kind /\ c.tab = commands[i].tab
  BY <1>1 DEF Commands, Ats
<1>3. commands' = [commands EXCEPT ![i] = c] /\ commands[i].at = "got"
  BY DEF CommandEnds
<1> HIDE DEF c
<1>4. /\ commands' \in Seq(Commands) /\ DOMAIN commands' = DOMAIN commands /\ commands'[i] = c
      /\ \A j \in DOMAIN commands : j # i => commands'[j] = commands[j]
  BY <1>0, <1>2, <1>3, CommandMoves
<1>5. UNCHANGED <<autoAttach, foreign, inbox, chromeTabs, events, closed>>
  BY DEF CommandEnds
<1>6. \/ Holding(commands[i]) /\ attached' = attached \cup {commands[i].tab} /\ (told' = told \/ told' = Known(commands[i].tab))
      \/ UNCHANGED <<attached, told>>
  BY DEF CommandEnds, Holding
<1>7. /\ told' \in [ShimTabs -> {"unknown", "known", "gone", "gone_again"}]
      /\ \A t \in ShimTabs : told'[t] \in Over <=> told[t] \in Over
      /\ \A t \in ShimTabs : told'[t] = "gone_again" <=> told[t] = "gone_again"
  BY <1>0, <1>1, <1>6, TellsOf DEF ShimTypes
<1>8. ShimTypes'
  <2>1. attached' \subseteq ShimTabs
    BY <1>0, <1>1, <1>6 DEF ShimTypes
  <2> QED BY <1>0, <1>4, <1>5, <1>7, <2>1 DEF ShimTypes
<1>9. DestroyedOnce'
  BY <1>0, <1>7 DEF DestroyedOnce
<1>10. ASSUME closed = "no"
       PROVE  ComesOnce' /\ OneReply'
  <2>0. ComesOnce /\ OneReply
    BY <1>0, <1>10
  <2>1. OneReply'
    BY <1>2, <1>3, <1>4, <1>5, <2>0 DEF OneReply
  <2>2. \A k \in DOMAIN inbox : Brings(inbox[k], commands') => Brings(inbox[k], commands)
    BY <1>2, <1>4, <2>0 DEF Brings, OneReply
  <2>3. \A j \in DOMAIN commands' : Holding(commands'[j]) => j \in DOMAIN commands /\ Holding(commands[j]) /\ commands'[j].tab = commands[j].tab /\ j # i
    BY <1>2, <1>4 DEF Holding
  <2>4. CASE UNCHANGED <<attached, told>>
    <3>1. ComesOnce'
      BY <1>5, <1>7, <1>8, <1>10, <2>1, <2>2, <2>3, <2>4, ShimQuiet
    <3> QED BY <2>1, <3>1
  <2>5. CASE Holding(commands[i]) /\ attached' = attached \cup {commands[i].tab}
    <3> DEFINE tab == commands[i].tab
    <3>1. /\ chromeTabs[tab] # "new" /\ tab \notin attached /\ told[tab] \notin Over
          /\ \A k \in DOMAIN inbox : Brings(inbox[k], commands) => inbox[k].tab # tab
          /\ \A j \in DOMAIN commands : Holding(commands[j]) /\ j # i => commands[j].tab # tab
      BY <2>0, <2>5 DEF ComesOnce
    <3>2. \A k \in DOMAIN inbox : inbox[k].tab \in ShimTabs
      <4>1. \A k \in DOMAIN inbox : inbox[k] \in Lines
        BY <1>0 DEF ShimTypes
      <4> QED BY <4>1 DEF Lines
    <3>3. \A j \in DOMAIN commands : commands[j].tab \in ShimTabs
      <4>1. \A j \in DOMAIN commands : commands[j] \in Commands
        BY <1>0 DEF ShimTypes
      <4> QED BY <4>1 DEF Commands
    <3> HIDE DEF tab
    <3>4. attached' = attached \cup {tab} /\ attached \subseteq ShimTabs /\ tab \in ShimTabs
      BY <1>0, <1>1, <2>5 DEF tab, ShimTypes
    <3>5. \A k \in DOMAIN inbox' : Brings(inbox'[k], commands') =>
            /\ chromeTabs'[inbox'[k].tab] # "new" /\ inbox'[k].tab \notin attached' /\ told'[inbox'[k].tab] \notin Over
            /\ \A j \in DOMAIN commands' : Holding(commands'[j]) => commands'[j].tab # inbox'[k].tab
            /\ \A l \in DOMAIN inbox' : Brings(inbox'[l], commands') /\ inbox'[l].tab = inbox'[k].tab => l = k
      BY <1>5, <1>7, <2>0, <2>2, <2>3, <3>1, <3>2, <3>4 DEF ComesOnce
    <3>6. \A j \in DOMAIN commands' : Holding(commands'[j]) =>
            /\ chromeTabs'[commands'[j].tab] # "new" /\ commands'[j].tab \notin attached' /\ told'[commands'[j].tab] \notin Over
            /\ \A l \in DOMAIN commands' : Holding(commands'[l]) /\ commands'[l].tab = commands'[j].tab => j = l
      BY <1>5, <1>7, <2>0, <2>3, <3>1, <3>3, <3>4 DEF ComesOnce
    <3>7. \A t \in ShimTabs : t \in attached' \/ told'[t] \in Over => chromeTabs'[t] # "new"
      BY <1>5, <1>7, <2>0, <3>1, <3>4 DEF ComesOnce
    <3>8. \A t \in attached' : told'[t] \notin Over
      BY <1>7, <2>0, <3>1, <3>4 DEF ComesOnce
    <3> QED BY <2>1, <3>5, <3>6, <3>7, <3>8 DEF ComesOnce
  <2> QED BY <1>6, <2>4, <2>5
<1> QED BY <1>5, <1>8, <1>9, <1>10 DEF ShimInv

\* A line joins those under way: one that brings a tab brings one that had not come.
LEMMA LineJoins ==
  ASSUME ShimInv, closed = "no", NEW m \in Lines, inbox' = Append(inbox, m), UNCHANGED <<commands, attached, autoAttach, foreign, told, closed>>,
         chromeTabs' \in [ShimTabs -> {"new", "held", "loose", "gone"}], events' \in 0..MaxEvents,
         \A t \in ShimTabs : chromeTabs[t] # "new" => chromeTabs'[t] # "new",
         Brings(m, commands) => chromeTabs[m.tab] = "new" /\ chromeTabs'[m.tab] # "new",
         m.event = "reply" => /\ m.id \in DOMAIN commands /\ commands[m.id].at = "asked" /\ commands[m.id].tab = m.tab
                              /\ \A k \in DOMAIN inbox : inbox[k].id # m.id
  PROVE  ShimInv'
<1>0. ShimTypes /\ ComesOnce /\ OneReply /\ DestroyedOnce
  BY DEF ShimInv
<1> DEFINE n == Len(inbox) + 1
<1>1. /\ inbox' \in Seq(Lines) /\ n \in DOMAIN inbox' /\ inbox'[n] = m
      /\ \A k \in DOMAIN inbox : k \in DOMAIN inbox' /\ inbox'[k] = inbox[k]
      /\ \A k \in DOMAIN inbox' : k \in DOMAIN inbox \/ k = n
  <2>1. inbox \in Seq(Lines)
    BY <1>0 DEF ShimTypes
  <2> QED BY <2>1, Sends
<1> HIDE DEF n
<1>2. ShimTypes'
  BY <1>0, <1>1 DEF ShimTypes
<1>3. OneReply'
  <2>1. \A k \in DOMAIN inbox' : inbox'[k].event = "reply" =>
          inbox'[k].id \in DOMAIN commands /\ commands[inbox'[k].id].at = "asked" /\ commands[inbox'[k].id].tab = inbox'[k].tab
    BY <1>0, <1>1 DEF OneReply
  <2>2. \A k, l \in DOMAIN inbox' : inbox'[k].event = "reply" /\ inbox'[l].event = "reply" /\ inbox'[k].id = inbox'[l].id => k = l
    BY <1>0, <1>1 DEF OneReply
  <2> QED BY <2>1, <2>2 DEF OneReply
<1>4. \A k \in DOMAIN inbox : inbox[k].tab \in ShimTabs
  <2>1. \A k \in DOMAIN inbox : inbox[k] \in Lines
    BY <1>0 DEF ShimTypes
  <2> QED BY <2>1 DEF Lines
<1>5. \A i \in DOMAIN commands : commands[i].tab \in ShimTabs
  <2>1. \A i \in DOMAIN commands : commands[i] \in Commands
    BY <1>0 DEF ShimTypes
  <2> QED BY <2>1 DEF Commands
<1>6. m.tab \in ShimTabs
  BY DEF Lines
<1>7. Brings(m, commands) =>
        /\ m.tab \notin attached /\ told[m.tab] \notin Over
        /\ \A i \in DOMAIN commands : Holding(commands[i]) => commands[i].tab # m.tab
        /\ \A k \in DOMAIN inbox : Brings(inbox[k], commands) => inbox[k].tab # m.tab
  BY <1>0, <1>6 DEF ComesOnce
<1>8. \A k \in DOMAIN inbox' : Brings(inbox'[k], commands) =>
        /\ chromeTabs'[inbox'[k].tab] # "new" /\ inbox'[k].tab \notin attached /\ told[inbox'[k].tab] \notin Over
        /\ \A i \in DOMAIN commands : Holding(commands[i]) => commands[i].tab # inbox'[k].tab
        /\ \A l \in DOMAIN inbox' : Brings(inbox'[l], commands) /\ inbox'[l].tab = inbox'[k].tab => l = k
  <2> SUFFICES ASSUME NEW k \in DOMAIN inbox', Brings(inbox'[k], commands)
               PROVE  /\ chromeTabs'[inbox'[k].tab] # "new" /\ inbox'[k].tab \notin attached /\ told[inbox'[k].tab] \notin Over
                      /\ \A i \in DOMAIN commands : Holding(commands[i]) => commands[i].tab # inbox'[k].tab
                      /\ \A l \in DOMAIN inbox' : Brings(inbox'[l], commands) /\ inbox'[l].tab = inbox'[k].tab => l = k
    OBVIOUS
  <2>1. CASE k = n
    BY <1>1, <1>7, <2>1
  <2>2. CASE k \in DOMAIN inbox
    BY <1>0, <1>1, <1>4, <1>7, <2>2 DEF ComesOnce
  <2> QED BY <1>1, <2>1, <2>2
<1>9. ComesOnce'
  BY <1>0, <1>5, <1>8 DEF ComesOnce
<1> QED BY <1>0, <1>2, <1>3, <1>9 DEF ShimInv, DestroyedOnce

LEMMA AnswersKeep ==
  ASSUME ShimInv, NEW i \in DOMAIN commands, NEW ok \in BOOLEAN, Answers(i, ok)
  PROVE  ShimInv'
<1>0. ShimTypes
  BY DEF ShimInv
<1>1. commands[i] \in Commands /\ commands[i].tab \in ShimTabs /\ i \in Nat
  <2>1. commands[i] \in Commands /\ i \in Nat
    BY <1>0 DEF ShimTypes
  <2> QED BY <2>1 DEF Commands
<1> DEFINE m == Line("reply", commands[i].tab, i, ok)
<1>2. m \in Lines /\ m.event = "reply" /\ m.tab = commands[i].tab /\ m.id = i /\ m.ok = ok
  BY <1>1 DEF Line, Lines, LineEvents
<1>3. inbox' = Append(inbox, m) /\ UNCHANGED <<commands, attached, autoAttach, foreign, events, told, closed>> /\ closed = "no"
  BY DEF Answers
<1> HIDE DEF m
<1>4. Brings(m, commands) <=> Comes(i, ok)
  BY <1>2 DEF Brings, Comes
<1>5. commands[i].at = "asked" /\ \A k \in DOMAIN inbox : inbox[k].id # i
  BY DEF Answers, Waiting
<1>6. /\ Comes(i, ok) => chromeTabs[commands[i].tab] = "new" /\ chromeTabs' = [chromeTabs EXCEPT ![commands[i].tab] = "held"]
      /\ ~Comes(i, ok) => chromeTabs' = chromeTabs
  BY DEF Answers
<1>7. /\ chromeTabs' \in [ShimTabs -> {"new", "held", "loose", "gone"}]
      /\ \A t \in ShimTabs : chromeTabs[t] # "new" => chromeTabs'[t] # "new"
      /\ Comes(i, ok) => chromeTabs'[commands[i].tab] # "new"
  BY <1>0, <1>1, <1>6 DEF ShimTypes
<1>8. events' \in 0..MaxEvents
  BY <1>0, <1>3 DEF ShimTypes
<1> QED BY <1>1, <1>2, <1>3, <1>4, <1>5, <1>6, <1>7, <1>8, LineJoins

LEMMA TellingKeeps ==
  ASSUME ShimInv, NEW tab \in ShimTabs, (\E event \in TabEvents : Tells(event, tab)) \/ TellsStop(tab)
  PROVE  ShimInv'
<1>0. ShimTypes
  BY DEF ShimInv
<1>1. \A e \in LineEvents, b \in BOOLEAN : LET m == Line(e, tab, 0, b) IN m \in Lines /\ m.event = e /\ m.tab = tab
  BY DEF Line, Lines
<1>2. CASE TellsStop(tab)
  <2>1. PICK b \in BOOLEAN : inbox' = Append(inbox, Line("stop", tab, 0, b))
    BY <1>2 DEF TellsStop
  <2> DEFINE m == Line("stop", tab, 0, b)
  <2>2. m \in Lines /\ m.event = "stop" /\ m.tab = tab /\ inbox' = Append(inbox, m)
    BY <1>1, <2>1 DEF LineEvents
  <2> HIDE DEF m
  <2>3. UNCHANGED <<commands, attached, autoAttach, foreign, chromeTabs, events, told, closed>> /\ closed = "no"
    BY <1>2 DEF TellsStop
  <2>4. ~Brings(m, commands)
    BY <2>2 DEF Brings
  <2>5. chromeTabs' \in [ShimTabs -> {"new", "held", "loose", "gone"}] /\ events' \in 0..MaxEvents
    BY <1>0, <2>3 DEF ShimTypes
  <2> QED BY <2>2, <2>3, <2>4, <2>5, LineJoins
<1>3. CASE \E event \in TabEvents : Tells(event, tab)
  <2>1. PICK event \in TabEvents : Tells(event, tab)
    BY <1>3
  <2>2. /\ event[1] \in LineEvents \ {"reply"} /\ event[3] \in {"held", "loose", "gone"}
        /\ event[1] = "popup" => event[2] = "new"
    BY DEF TabEvents, LineEvents
  <2>3. PICK b \in BOOLEAN : inbox' = Append(inbox, Line(event[1], tab, 0, b))
    BY <2>1 DEF Tells
  <2> DEFINE m == Line(event[1], tab, 0, b)
  <2>4. m \in Lines /\ m.event = event[1] /\ m.tab = tab /\ inbox' = Append(inbox, m)
    BY <1>1, <2>2, <2>3
  <2> HIDE DEF m
  <2>5. /\ UNCHANGED <<commands, attached, autoAttach, foreign, told, closed>> /\ closed = "no" /\ chromeTabs[tab] = event[2]
        /\ chromeTabs' = [chromeTabs EXCEPT ![tab] = event[3]] /\ events' = events + 1 /\ events < MaxEvents
    BY <2>1 DEF Tells
  <2>6. /\ chromeTabs' \in [ShimTabs -> {"new", "held", "loose", "gone"}] /\ chromeTabs'[tab] # "new"
        /\ \A t \in ShimTabs : chromeTabs[t] # "new" => chromeTabs'[t] # "new"
    BY <1>0, <2>2, <2>5 DEF ShimTypes
  <2>7. events' \in 0..MaxEvents
    BY <1>0, <2>5, ShimAssumption DEF ShimTypes
  <2>8. Brings(m, commands) => chromeTabs[m.tab] = "new" /\ chromeTabs'[m.tab] # "new"
    BY <2>2, <2>4, <2>5, <2>6 DEF Brings
  <2> QED BY <2>2, <2>4, <2>5, <2>6, <2>7, <2>8, LineJoins
<1> QED BY <1>2, <1>3

\* The connection closes: whatever waited has its error.
LEMMA ClosingKeeps ==
  ASSUME ShimInv, NEW why \in {"lost", "cancelled", "foreign_frame"}, Ends(why), UNCHANGED <<attached, autoAttach, chromeTabs, events, told>>,
         foreign' \subseteq ShimTabs, inbox' \in Seq(Lines)
  PROVE  ShimInv'
<1>0. ShimTypes /\ DestroyedOnce
  BY DEF ShimInv
<1>4. closed' = why
  BY DEF Ends
<1>5. PICK b \in BOOLEAN : commands' = [i \in DOMAIN commands |-> IF commands[i].at = "asked"
                                         THEN [commands[i] EXCEPT !.at = "got", !.ok = b] ELSE commands[i]]
  <2>1. FALSE \in BOOLEAN
    OBVIOUS
  <2> QED BY <2>1, Zenon DEF Ends
<1>1. \A i \in DOMAIN commands : commands'[i] \in Commands
  <2> SUFFICES ASSUME NEW i \in DOMAIN commands PROVE commands'[i] \in Commands
    OBVIOUS
  <2>1. commands[i] \in Commands
    BY <1>0 DEF ShimTypes
  <2>2. [commands[i] EXCEPT !.at = "got", !.ok = b] \in Commands
    BY <2>1 DEF Commands, Ats
  <2>3. commands'[i] = commands[i] \/ commands'[i] = [commands[i] EXCEPT !.at = "got", !.ok = b]
    BY <1>5
  <2> QED BY <2>1, <2>2, <2>3
<1>2. commands' \in Seq(Commands)
  <2>1. commands \in Seq(Commands) /\ DOMAIN commands = 1..Len(commands) /\ Len(commands) \in Nat
    BY <1>0 DEF ShimTypes
  <2>2. commands' = [i \in 1..Len(commands) |-> commands'[i]]
    BY <1>5, <2>1
  <2> DEFINE n == Len(commands)
  <2>3. n \in Nat /\ commands' = [i \in 1..n |-> commands'[i]] /\ \A i \in 1..n : commands'[i] \in Commands
    BY <1>1, <2>1, <2>2
  <2> HIDE DEF n
  <2> QED BY <2>3
<1>3. ShimTypes'
  BY <1>0, <1>2, <1>4 DEF ShimTypes
<1> QED BY <1>0, <1>3, <1>4 DEF ShimInv, DestroyedOnce

\* The reader takes the first line, and the rest move up: the tab the line
\* brought is about to be kept, or kept, or the line brought none.
LEMMA LineTaken ==
  ASSUME ShimInv, closed = "no", inbox # <<>>, inbox' = Tail(inbox), UNCHANGED <<chromeTabs, events, closed>>, ShimTypes', OneReply',
         \A k \in DOMAIN inbox' : Brings(inbox'[k], commands') => Brings(inbox'[k], commands),
         \A i \in DOMAIN commands' : Holding(commands'[i]) => i \in DOMAIN commands /\ commands'[i].tab = commands[i].tab
             /\ (Holding(commands[i]) \/ (Brings(Head(inbox), commands) /\ commands[i].tab = Head(inbox).tab /\ i = Head(inbox).id
                                          /\ attached' = attached)),
         \A t \in attached' : t \in attached \/ (Brings(Head(inbox), commands) /\ t = Head(inbox).tab /\ commands' = commands),
         \A t \in ShimTabs : told'[t] \in Over => told[t] \in Over \/ (t \in attached /\ t \notin attached')
  PROVE  ComesOnce'
<1>0. ShimTypes /\ ComesOnce
  BY DEF ShimInv
<1>1. /\ Head(inbox) = inbox[1] /\ 1 \in DOMAIN inbox
      /\ \A k \in DOMAIN inbox' : k + 1 \in DOMAIN inbox /\ inbox'[k] = inbox[k + 1] /\ k \in Nat /\ k >= 1
  <2>1. inbox \in Seq(Lines)
    BY <1>0 DEF ShimTypes
  <2> QED BY <2>1, Arrives
<1>2. \A k \in DOMAIN inbox : inbox[k].tab \in ShimTabs
  <2>1. \A k \in DOMAIN inbox : inbox[k] \in Lines
    BY <1>0 DEF ShimTypes
  <2> QED BY <2>1 DEF Lines
<1>3. \A i \in DOMAIN commands : commands[i].tab \in ShimTabs
  <2>1. \A i \in DOMAIN commands : commands[i] \in Commands
    BY <1>0 DEF ShimTypes
  <2> QED BY <2>1 DEF Commands
<1>4. attached \subseteq ShimTabs /\ attached' \subseteq ShimTabs
  BY <1>0 DEF ShimTypes
<1>5. ASSUME NEW k \in DOMAIN inbox', Brings(inbox'[k], commands')
      PROVE  /\ chromeTabs'[inbox'[k].tab] # "new" /\ inbox'[k].tab \notin attached' /\ told'[inbox'[k].tab] \notin Over
             /\ \A i \in DOMAIN commands' : Holding(commands'[i]) => commands'[i].tab # inbox'[k].tab
             /\ \A l \in DOMAIN inbox' : Brings(inbox'[l], commands') /\ inbox'[l].tab = inbox'[k].tab => l = k
  <2>1. /\ k + 1 \in DOMAIN inbox /\ inbox'[k] = inbox[k + 1] /\ Brings(inbox[k + 1], commands) /\ k + 1 # 1
        /\ inbox[k + 1].tab \in ShimTabs /\ k \in Nat
    BY <1>1, <1>2, <1>5
  <2>2. /\ chromeTabs[inbox[k + 1].tab] # "new" /\ inbox[k + 1].tab \notin attached /\ told[inbox[k + 1].tab] \notin Over
        /\ \A i \in DOMAIN commands : Holding(commands[i]) => commands[i].tab # inbox[k + 1].tab
        /\ \A l \in DOMAIN inbox : Brings(inbox[l], commands) /\ inbox[l].tab = inbox[k + 1].tab => l = k + 1
    BY <1>0, <2>1 DEF ComesOnce
  <2>3. Brings(Head(inbox), commands) => Head(inbox).tab # inbox[k + 1].tab
    BY <1>1, <2>1, <2>2
  <2>4. chromeTabs'[inbox'[k].tab] # "new" /\ inbox'[k].tab \notin attached' /\ told'[inbox'[k].tab] \notin Over
    BY <2>1, <2>2, <2>3
  <2>5. \A i \in DOMAIN commands' : Holding(commands'[i]) => commands'[i].tab # inbox'[k].tab
    BY <2>1, <2>2, <2>3
  <2>6. \A l \in DOMAIN inbox' : Brings(inbox'[l], commands') /\ inbox'[l].tab = inbox'[k].tab => l = k
    <3> SUFFICES ASSUME NEW l \in DOMAIN inbox', Brings(inbox'[l], commands'), inbox'[l].tab = inbox'[k].tab
                 PROVE  l = k
      OBVIOUS
    <3>1. l + 1 = k + 1
      BY <1>1, <2>1, <2>2
    <3> QED BY <1>1, <2>1, <3>1
  <2> QED BY <2>4, <2>5, <2>6
<1>6. ASSUME NEW i \in DOMAIN commands', Holding(commands'[i])
      PROVE  /\ chromeTabs'[commands'[i].tab] # "new" /\ commands'[i].tab \notin attached' /\ told'[commands'[i].tab] \notin Over
             /\ \A j \in DOMAIN commands' : Holding(commands'[j]) /\ commands'[j].tab = commands'[i].tab => i = j
  <2>1. i \in DOMAIN commands /\ commands'[i].tab = commands[i].tab /\ commands[i].tab \in ShimTabs
    BY <1>3, <1>6
  <2>2. CASE Holding(commands[i])
    <3>1. /\ chromeTabs[commands[i].tab] # "new" /\ commands[i].tab \notin attached /\ told[commands[i].tab] \notin Over
          /\ \A j \in DOMAIN commands : Holding(commands[j]) /\ commands[j].tab = commands[i].tab => i = j
      BY <1>0, <2>1, <2>2 DEF ComesOnce
    <3>2. Brings(Head(inbox), commands) => commands[i].tab # Head(inbox).tab
      BY <1>0, <1>1, <2>1, <2>2 DEF ComesOnce
    <3> QED BY <2>1, <3>1, <3>2
  <2>3. CASE Brings(Head(inbox), commands) /\ commands[i].tab = Head(inbox).tab /\ i = Head(inbox).id /\ attached' = attached
    <3>1. /\ chromeTabs[Head(inbox).tab] # "new" /\ Head(inbox).tab \notin attached /\ told[Head(inbox).tab] \notin Over
          /\ \A j \in DOMAIN commands : Holding(commands[j]) => commands[j].tab # Head(inbox).tab
      BY <1>0, <1>1, <2>3 DEF ComesOnce
    <3> QED BY <2>1, <2>3, <3>1
  <2> QED BY <1>6, <2>2, <2>3
<1>7. \A t \in ShimTabs : t \in attached' \/ told'[t] \in Over => chromeTabs'[t] # "new"
  BY <1>0, <1>1, <1>4 DEF ComesOnce
<1>8. \A t \in attached' : told'[t] \notin Over
  BY <1>0, <1>1, <1>4 DEF ComesOnce
<1> QED BY <1>5, <1>6, <1>7, <1>8 DEF ComesOnce

LEMMA TakingKeeps ==
  ASSUME ShimInv, ReaderTakes
  PROVE  ShimInv'
<1> DEFINE line == Head(inbox)
<1>0. ShimTypes /\ closed = "no" /\ ComesOnce /\ OneReply /\ DestroyedOnce /\ inbox # <<>> /\ inbox' = Tail(inbox) /\ UNCHANGED <<chromeTabs, events>>
  BY DEF ShimInv, ReaderTakes
<1>1. /\ inbox' \in Seq(Lines) /\ line = inbox[1] /\ 1 \in DOMAIN inbox /\ line \in Lines
      /\ \A k \in DOMAIN inbox' : k + 1 \in DOMAIN inbox /\ inbox'[k] = inbox[k + 1] /\ k \in Nat /\ k >= 1
  <2>1. inbox \in Seq(Lines)
    BY <1>0 DEF ShimTypes
  <2>2. inbox[1] \in Lines
    BY <1>0, <2>1
  <2> QED BY <1>0, <2>1, <2>2, Arrives
<1>2. line.tab \in ShimTabs /\ line.ok \in BOOLEAN
  BY <1>1 DEF Lines
<1>3. \/ line.event = "reply" /\ TakeReply(line)
      \/ line.event = "popup" /\ TakePopup(line)
      \/ TakeFrame(line) \/ TakeForeign(line) \/ TakeGone(line) \/ TakeStop
  BY DEF ReaderTakes
<1> HIDE DEF line
<1>4. CASE TakeStop
  <2>1. Ends("cancelled") /\ UNCHANGED <<attached, autoAttach, foreign, told>>
    BY <1>4 DEF TakeStop
  <2>2. foreign' \subseteq ShimTabs
    BY <1>0, <2>1 DEF ShimTypes
  <2> QED BY <1>0, <1>1, <2>1, <2>2, ClosingKeeps
<1>5. CASE TakeForeign(line)
  <2>1. Ends("foreign_frame") /\ UNCHANGED <<attached, autoAttach, told>> /\ foreign' = foreign \ {line.tab}
    BY <1>5 DEF TakeForeign
  <2>2. foreign' \subseteq ShimTabs
    BY <1>0, <2>1 DEF ShimTypes
  <2> QED BY <1>0, <1>1, <2>1, <2>2, ClosingKeeps
<1>6. ASSUME UNCHANGED <<commands, closed>>
      PROVE  OneReply'
  <2>1. \A k \in DOMAIN inbox' : inbox'[k].event = "reply" =>
          inbox'[k].id \in DOMAIN commands' /\ commands'[inbox'[k].id].at = "asked" /\ commands'[inbox'[k].id].tab = inbox'[k].tab
    BY <1>0, <1>1, <1>6 DEF OneReply
  <2>2. \A k, l \in DOMAIN inbox' : inbox'[k].event = "reply" /\ inbox'[l].event = "reply" /\ inbox'[k].id = inbox'[l].id => k = l
    <3> SUFFICES ASSUME NEW k \in DOMAIN inbox', NEW l \in DOMAIN inbox', inbox'[k].event = "reply", inbox'[l].event = "reply", inbox'[k].id = inbox'[l].id
                 PROVE  k = l
      OBVIOUS
    <3>1. k + 1 = l + 1
      BY <1>0, <1>1 DEF OneReply
    <3> QED BY <1>1, <3>1
  <2> QED BY <2>1, <2>2 DEF OneReply
<1>7. CASE line.event = "popup" /\ TakePopup(line)
  <2>1. /\ attached' = attached \cup {line.tab} /\ UNCHANGED <<autoAttach, foreign, commands, closed>>
        /\ told' = told \/ told' = Known(line.tab)
    BY <1>7 DEF TakePopup, Open
  <2>2. /\ told' \in [ShimTabs -> {"unknown", "known", "gone", "gone_again"}]
        /\ \A t \in ShimTabs : told'[t] \in Over <=> told[t] \in Over
        /\ \A t \in ShimTabs : told'[t] = "gone_again" <=> told[t] = "gone_again"
    BY <1>0, <1>2, <2>1, TellsOf DEF ShimTypes
  <2>3. ShimTypes'
    BY <1>0, <1>1, <1>2, <2>1, <2>2 DEF ShimTypes
  <2>4. Brings(line, commands)
    BY <1>7 DEF Brings
  <2>5. ComesOnce'
    <3>1. \A t \in attached' : t \in attached \/ (Brings(line, commands) /\ t = line.tab /\ commands' = commands)
      BY <2>1, <2>4
    <3>2. OneReply'
      BY <1>6, <2>1
    <3>3. \A t \in ShimTabs : told'[t] \in Over => told[t] \in Over \/ (t \in attached /\ t \notin attached')
      BY <2>2
    <3>4. /\ \A k \in DOMAIN inbox' : Brings(inbox'[k], commands') => Brings(inbox'[k], commands)
          /\ \A i \in DOMAIN commands' : Holding(commands'[i]) => i \in DOMAIN commands /\ commands'[i].tab = commands[i].tab /\ Holding(commands[i])
      BY <2>1
    <3> QED BY <1>0, <2>1, <2>3, <3>1, <3>2, <3>3, <3>4, LineTaken DEF line
  <2> QED BY <1>0, <1>6, <2>1, <2>2, <2>3, <2>5 DEF ShimInv, DestroyedOnce
<1>8. CASE TakeFrame(line)
  <2>1. UNCHANGED <<attached, autoAttach, told, commands, closed>> /\ foreign' \in {foreign \cup {line.tab}, foreign \ {line.tab}}
    BY <1>8 DEF TakeFrame, Open
  <2>2. ShimTypes'
    BY <1>0, <1>1, <1>2, <2>1 DEF ShimTypes
  <2>3. ComesOnce'
    BY <1>0, <1>6, <2>1, <2>2, LineTaken
  <2> QED BY <1>0, <1>6, <2>1, <2>2, <2>3 DEF ShimInv, DestroyedOnce
<1>9. CASE TakeGone(line)
  <2>1. /\ attached' = attached \ {line.tab} /\ UNCHANGED <<autoAttach, commands, closed>> /\ foreign' \in {foreign, foreign \ {line.tab}}
        /\ told' = told \/ (line.tab \in attached /\ told' = Destroyed(line.tab))
    BY <1>9 DEF TakeGone, Open
  <2>2. line.tab \in attached => told[line.tab] \notin Over
    BY <1>0 DEF ComesOnce
  <2>3. /\ told' \in [ShimTabs -> {"unknown", "known", "gone", "gone_again"}]
        /\ \A t \in ShimTabs : told'[t] \in Over => told[t] \in Over \/ (t \in attached /\ t \notin attached')
        /\ \A t \in ShimTabs : told'[t] # "gone_again"
    <3>1. CASE told' = told
      BY <1>0, <3>1 DEF ShimTypes, DestroyedOnce
    <3>2. CASE line.tab \in attached /\ told' = Destroyed(line.tab)
      <4>1. /\ told' \in [ShimTabs -> {"unknown", "known", "gone", "gone_again"}]
            /\ \A t \in ShimTabs : t # line.tab => told'[t] = told[t]
            /\ told'[line.tab] = "gone"
        BY <1>0, <1>2, <2>2, <3>2, TellsOf
      <4>2. \A t \in ShimTabs : told'[t] # "gone_again"
        BY <1>0, <4>1 DEF DestroyedOnce
      <4>3. line.tab \in attached /\ line.tab \notin attached'
        BY <2>1, <3>2
      <4>4. \A t \in ShimTabs : told'[t] \in Over => told[t] \in Over \/ (t \in attached /\ t \notin attached')
        BY <4>1, <4>3
      <4> QED BY <4>1, <4>2, <4>4
    <3> QED BY <2>1, <3>1, <3>2
  <2>4. ShimTypes'
    BY <1>0, <1>1, <2>1, <2>3 DEF ShimTypes
  <2>5. ComesOnce'
    BY <1>0, <1>6, <2>1, <2>3, <2>4, LineTaken
  <2> QED BY <1>0, <1>6, <2>1, <2>3, <2>4, <2>5 DEF ShimInv, DestroyedOnce
<1>10. CASE line.event = "reply" /\ TakeReply(line)
  <2> DEFINE i == line.id
             c == [commands[i] EXCEPT !.at = "got", !.ok = line.ok]
  <2>1. i \in DOMAIN commands /\ commands[i].at = "asked" /\ commands[i].tab = line.tab
    BY <1>0, <1>1, <1>10 DEF OneReply
  <2>2. commands[i] \in Commands
    BY <1>0, <2>1 DEF ShimTypes
  <2>3. c \in Commands /\ c.at = "got" /\ c.ok = line.ok /\ c.kind = commands[i].kind /\ c.tab = commands[i].tab
    BY <1>2, <2>2 DEF Commands, Ats
  <2>4. commands' = [commands EXCEPT ![i] = c] /\ UNCHANGED <<attached, autoAttach, foreign, told, closed>>
    <3>1. commands' = [[commands EXCEPT ![i].at = "got"] EXCEPT ![i].ok = line.ok]
      BY <1>10 DEF TakeReply
    <3>2. [[commands EXCEPT ![i].at = "got"] EXCEPT ![i].ok = line.ok] = [commands EXCEPT ![i] = c]
      BY <2>1
    <3> QED BY <1>10, <3>1, <3>2 DEF TakeReply
  <2> HIDE DEF i, c
  <2>5. /\ commands' \in Seq(Commands) /\ DOMAIN commands' = DOMAIN commands /\ commands'[i] = c
        /\ \A j \in DOMAIN commands : j # i => commands'[j] = commands[j]
    BY <1>0, <2>1, <2>3, <2>4, CommandMoves
  <2>6. ShimTypes'
    BY <1>0, <1>1, <2>4, <2>5 DEF ShimTypes
  <2>7. \A k \in DOMAIN inbox' : inbox'[k].event = "reply" => inbox'[k].id \in DOMAIN commands /\ inbox'[k].id # i
    BY <1>0, <1>1, <1>10 DEF OneReply, i
  <2>8. OneReply'
    <3>1. \A k \in DOMAIN inbox' : inbox'[k].event = "reply" =>
            inbox'[k].id \in DOMAIN commands' /\ commands'[inbox'[k].id].at = "asked" /\ commands'[inbox'[k].id].tab = inbox'[k].tab
      BY <1>0, <1>1, <2>5, <2>7 DEF OneReply
    <3>2. \A k, l \in DOMAIN inbox' : inbox'[k].event = "reply" /\ inbox'[l].event = "reply" /\ inbox'[k].id = inbox'[l].id => k = l
      <4> SUFFICES ASSUME NEW k \in DOMAIN inbox', NEW l \in DOMAIN inbox', inbox'[k].event = "reply", inbox'[l].event = "reply", inbox'[k].id = inbox'[l].id
                   PROVE  k = l
        OBVIOUS
      <4>1. k + 1 = l + 1
        BY <1>0, <1>1 DEF OneReply
      <4> QED BY <1>1, <4>1
    <3> QED BY <3>1, <3>2 DEF OneReply
  <2>9. \A k \in DOMAIN inbox' : Brings(inbox'[k], commands') => Brings(inbox'[k], commands)
    BY <2>5, <2>7 DEF Brings
  <2>10. Holding(c) => Brings(line, commands)
    BY <1>10, <2>3 DEF Holding, Brings, i
  <2>11. \A j \in DOMAIN commands' : Holding(commands'[j]) => j \in DOMAIN commands /\ commands'[j].tab = commands[j].tab
             /\ (Holding(commands[j]) \/ (Brings(line, commands) /\ commands[j].tab = line.tab /\ j = line.id /\ attached' = attached))
    BY <2>1, <2>3, <2>4, <2>5, <2>10 DEF i
  <2>12. ComesOnce'
    BY <1>0, <2>4, <2>6, <2>8, <2>9, <2>11, LineTaken DEF line
  <2> QED BY <1>0, <2>4, <2>6, <2>8, <2>12 DEF ShimInv, DestroyedOnce
<1> QED BY <1>3, <1>4, <1>5, <1>7, <1>8, <1>9, <1>10

LEMMA ShimStep ==
  ASSUME ShimInv, [ShimNext]_shimVars
  PROVE  ShimInv'
<1>1. CASE ReaderLoses
  <2>1. Ends("lost") /\ UNCHANGED <<attached, autoAttach, foreign, inbox, chromeTabs, events, told>>
    BY <1>1 DEF ReaderLoses
  <2>2. foreign' \subseteq ShimTabs /\ inbox' \in Seq(Lines)
    BY <2>1 DEF ShimInv, ShimTypes
  <2> QED BY <2>1, <2>2, ClosingKeeps
<1>2. CASE ShimNext /\ ~ReaderLoses
  <2>1. ASSUME NEW i \in DOMAIN commands, Answers(i, TRUE)
        PROVE  ShimInv'
    <3>1. \E ok \in BOOLEAN : Answers(i, ok)
      <4>1. TRUE \in BOOLEAN
        OBVIOUS
      <4> QED BY <2>1, <4>1, Zenon
    <3> QED BY <3>1, AnswersKeep
  <2> QED BY <1>2, <2>1, TakingKeeps, CommandEndKeeps, CommandingKeeps, AnswersKeep, TellingKeeps DEF ShimNext, ShimWork
<1>3. CASE UNCHANGED shimVars
  BY <1>3 DEF shimVars, ShimInv, ShimTypes, ComesOnce, OneReply, DestroyedOnce
<1> QED BY <1>1, <1>2, <1>3

----------------------------------------------------------------------------
(* The extension's tabs.                                                   *)

TaskOps == {"newTab", "adopt", "popup", "close", "release", "teardown"}
TaskAts == {"create", "get", "group", "attach", "remove", "remember", "next", "detach", "close", "closed", "disown"}
Tasks == [op : TaskOps, conn : Conns, tab : AllTabs \cup {NoTab}, at : TaskAts, left : SUBSET AllTabs]

\* Where an operation is, its tab is one it may be there with.
TaskOK(t) ==
  /\ t \in Tasks /\ (t.op = "close" <=> t.at = "remove") /\ (t.at = "get" => t.op = "adopt") /\ (t.op = "popup" => t.tab \in FreshTabs /\ t.at = "attach")
  /\ t.at \in {"create", "get", "group", "attach", "remove"} \/ t.op # "release" => t.left = {}
  /\ t.at \in {"get", "disown"} => t.tab \in UserTabs
  /\ t.at \in {"group", "attach", "detach", "close", "closed"} => t.tab \in AllTabs
  /\ t.at \in {"group", "attach"} => /\ t.tab \in FreshTabs => made[t.tab] # Nobody
                                     /\ t.tab \in open => t.tab \in held[t.conn]

\* What a run owns or debugs is open and among its tabs, and its tabs were made.
Rightly ==
  /\ runs \cap released = {}
  /\ \A tab \in AllTabs, c \in Conns : owners[tab] = c \/ debugged[tab] = c => tab \in open /\ tab \in held[c]
  /\ \A c \in Conns, tab \in FreshTabs : tab \in held[c] => made[tab] # Nobody

\* An operation that will see to a tab altogether, and one that will disown it.
Cleans(t, tab) ==
  \/ t.at = "remember" \/ tab \in t.left
  \/ t.tab = tab /\ (t.at \in {"detach", "close"} \/ (t.at \in {"group", "attach"} /\ t.op # "popup"))
Cared(ts, c, tab) == \E t \in ts : t.conn = c /\ Cleans(t, tab)
Dropped(ts, c, tab) == \E t \in ts : t.conn = c /\ t.tab = tab /\ t.at = "disown"

\* Whatever a released run still has, one of its operations will let go.
Claims ==
  \A c \in released, tab \in AllTabs :
    /\ debugged[tab] = c \/ (tab \in held[c] /\ tab \in open /\ tab \in FreshTabs) => Cared(tasks, c, tab)
    /\ owners[tab] = c => Cared(tasks, c, tab) \/ Dropped(tasks, c, tab)

TabsInv == TabsTypeOK /\ Rightly /\ (\A t \in tasks : TaskOK(t)) /\ Claims

LEMMA TabsPromises ==
  ASSUME TabsInv
  PROVE  TabsTypeOK /\ ReleasedClean
<1>1. ASSUME NEW c \in released, \A t \in tasks : t.conn # c
      PROVE  /\ \A tab \in AllTabs : owners[tab] # c /\ debugged[tab] # c
             /\ held[c] \cap open \subseteq UserTabs
  <2>1. \A tab \in AllTabs : ~Cared(tasks, c, tab) /\ ~Dropped(tasks, c, tab)
    BY <1>1 DEF Cared, Dropped
  <2>2. held[c] \subseteq AllTabs
    BY DEF TabsInv, TabsTypeOK
  <2>3. \A tab \in AllTabs : owners[tab] # c /\ debugged[tab] # c /\ ~(tab \in held[c] /\ tab \in open /\ tab \in FreshTabs)
    BY <2>1 DEF TabsInv, Claims
  <2> QED BY <2>2, <2>3 DEF AllTabs
<1> QED BY <1>1 DEF TabsInv, ReleasedClean

LEMMA TabsStarts ==
  ASSUME TabsInit
  PROVE  TabsInv
<1>1. TabsTypeOK
  BY DEF TabsInit, TabsTypeOK, AllTabs
<1>2. Rightly
  BY TabsAssumption DEF TabsInit, Rightly
<1>3. (\A t \in tasks : TaskOK(t)) /\ Claims
  BY DEF TabsInit, Claims
<1> QED BY <1>1, <1>2, <1>3 DEF TabsInv

\* An operation moves on: all but where it is stays.
LEMMA Moved ==
  ASSUME NEW t \in Tasks, NEW at1 \in TaskAts
  PROVE  LET u == [t EXCEPT !.at = at1]
         IN  u \in Tasks /\ u.op = t.op /\ u.conn = t.conn /\ u.tab = t.tab /\ u.left = t.left /\ u.at = at1
BY DEF Tasks

LEMMA NewTask ==
  ASSUME NEW op \in TaskOps, NEW c \in Conns, NEW tab \in AllTabs \cup {NoTab}, NEW at1 \in TaskAts, NEW left \in SUBSET AllTabs
  PROVE  LET u == Task(op, c, tab, at1, left)
         IN  u \in Tasks /\ u.op = op /\ u.conn = c /\ u.tab = tab /\ u.left = left /\ u.at = at1
BY DEF Tasks, Task

\* What an operation was entitled to stays so while Chrome's tabs come and go.
LEMMA TasksStand ==
  ASSUME TabsInv, \A tab \in FreshTabs : made[tab] # Nobody => made'[tab] # Nobody,
         \A tab \in open' : tab \in open \/ (tab \in FreshTabs /\ made[tab] = Nobody),
         \A c \in Conns : \A tab \in held[c] : tab \in held'[c] \/ tab \notin open'
  PROVE  \A t \in tasks : TaskOK(t)'
<1> SUFFICES ASSUME NEW t \in tasks PROVE TaskOK(t)'
  OBVIOUS
<1>1. TaskOK(t) /\ t.conn \in Conns
  BY DEF TabsInv, TaskOK, Tasks
<1>2. t.at \in {"group", "attach"} => /\ t.tab \in FreshTabs => made'[t.tab] # Nobody
                                      /\ t.tab \in open' => t.tab \in held'[t.conn]
  BY <1>1 DEF TaskOK
<1> QED BY <1>1, <1>2 DEF TaskOK

\* A step keeps the claims when what it newly gives a released run is cared for,
\* and whoever cared for a tab still does or the run has let it go.
LEMMA ClaimsKeep ==
  ASSUME TabsInv, released' = released,
         \A c \in released, tab \in AllTabs :
           /\ debugged'[tab] = c => debugged[tab] = c \/ Cared(tasks, c, tab) \/ Cared(tasks', c, tab)
           /\ tab \in held'[c] /\ tab \in open' /\ tab \in FreshTabs => (tab \in held[c] /\ tab \in open) \/ Cared(tasks', c, tab)
           /\ owners'[tab] = c => owners[tab] = c \/ Cared(tasks', c, tab)
           /\ Cared(tasks, c, tab) => \/ Cared(tasks', c, tab)
                                      \/ debugged'[tab] # c /\ owners'[tab] # c /\ ~(tab \in held'[c] /\ tab \in open')
                                      \/ debugged'[tab] # c /\ tab \notin FreshTabs /\ Dropped(tasks', c, tab)
           /\ Dropped(tasks, c, tab) => Dropped(tasks', c, tab) \/ owners'[tab] # c
  PROVE  Claims'
<1>1. Claims
  BY DEF TabsInv
<1> SUFFICES ASSUME NEW c \in released, NEW tab \in AllTabs
             PROVE  /\ debugged'[tab] = c \/ (tab \in held'[c] /\ tab \in open' /\ tab \in FreshTabs) => Cared(tasks', c, tab)
                    /\ owners'[tab] = c => Cared(tasks', c, tab) \/ Dropped(tasks', c, tab)
  BY DEF Claims
<1> QED BY <1>1 DEF Claims

\* A step that only adds operations.
LEMMA AskedKeeps ==
  ASSUME TabsInv, UNCHANGED <<released, held, adopted, owners, stopped, open, debugged, made>>, runs' \subseteq Conns, runs' \cap released = {},
         closing' \subseteq AllTabs, NEW next, tasks' = tasks \cup next, \A u \in next : TaskOK(u)
  PROVE  TabsInv'
<1>0. TabsTypeOK /\ Rightly /\ (\A t \in tasks : TaskOK(t))
  BY DEF TabsInv
<1>1. \A t \in tasks' : TaskOK(t)'
  BY <1>0 DEF TaskOK
<1>2. TabsTypeOK'
  <2>1. \A t \in tasks' : t.conn \in Conns
    BY <1>1 DEF TaskOK, Tasks
  <2> QED BY <1>0, <2>1 DEF TabsTypeOK
<1>3. Rightly'
  BY <1>0 DEF Rightly
<1>4. \A c, tab : (Cared(tasks, c, tab) => Cared(tasks', c, tab)) /\ (Dropped(tasks, c, tab) => Dropped(tasks', c, tab))
  BY DEF Cared, Dropped
<1>5. Claims'
  BY <1>4, ClaimsKeep
<1> QED BY <1>1, <1>2, <1>3, <1>5 DEF TabsInv

LEMMA AskingKeeps ==
  ASSUME TabsInv, NEW c \in Conns, Hello(c) \/ NewTab(c) \/ \E tab \in AllTabs : Adopt(c, tab) \/ CloseTab(c, tab)
  PROVE  TabsInv'
<1>0. TabsTypeOK /\ Rightly
  BY DEF TabsInv
<1>1. runs \subseteq Conns /\ runs \cap released = {} /\ closing \subseteq AllTabs
  BY <1>0 DEF TabsTypeOK, Rightly
<1>2. CASE Hello(c)
  <2>1. /\ UNCHANGED <<released, held, adopted, owners, closing, stopped, open, debugged, made>> /\ runs' = runs \cup {c} /\ c \notin released
        /\ tasks' = tasks \cup {}
    BY <1>2 DEF Hello
  <2> QED BY <1>1, <2>1, AskedKeeps
<1>3. CASE NewTab(c)
  <2> DEFINE u == Task("newTab", c, NoTab, "create", {})
  <2>1. u \in Tasks /\ u.op = "newTab" /\ u.at = "create" /\ u.left = {}
    BY NewTask DEF TaskOps, TaskAts
  <2>2. UNCHANGED <<runs, released, held, adopted, owners, closing, stopped, open, debugged, made>> /\ tasks' = tasks \cup {u}
    BY <1>3 DEF NewTab
  <2> HIDE DEF u
  <2>3. TaskOK(u)
    BY <2>1 DEF TaskOK
  <2> QED BY <1>1, <2>2, <2>3, AskedKeeps
<1>4. ASSUME NEW tab \in AllTabs, Adopt(c, tab)
      PROVE  TabsInv'
  <2> DEFINE u == Task("adopt", c, tab, "get", {})
  <2>1. u \in Tasks /\ u.op = "adopt" /\ u.at = "get" /\ u.left = {} /\ u.tab = tab
    BY NewTask DEF TaskOps, TaskAts
  <2>2. UNCHANGED <<runs, released, held, adopted, owners, closing, stopped, open, debugged, made>> /\ tasks' = tasks \cup {u} /\ tab \in UserTabs
    BY <1>4 DEF Adopt
  <2> HIDE DEF u
  <2>3. TaskOK(u)
    BY <2>1, <2>2 DEF TaskOK
  <2> QED BY <1>1, <2>2, <2>3, AskedKeeps
<1>5. ASSUME NEW tab \in AllTabs, CloseTab(c, tab)
      PROVE  TabsInv'
  <2> DEFINE u == Task("close", c, tab, "remove", {})
  <2>1. u \in Tasks /\ u.op = "close" /\ u.at = "remove" /\ u.left = {} /\ u.tab = tab
    BY NewTask DEF TaskOps, TaskAts
  <2>2. UNCHANGED <<runs, released, held, adopted, owners, stopped, open, debugged, made>> /\ tasks' = tasks \cup {u} /\ closing' = closing \cup {tab}
    BY <1>5 DEF CloseTab
  <2> HIDE DEF u
  <2>3. TaskOK(u)
    BY <2>1 DEF TaskOK
  <2> QED BY <1>1, <2>2, <2>3, AskedKeeps
<1> QED BY <1>2, <1>3, <1>4, <1>5

LEMMA ReleaseKeeps ==
  ASSUME TabsInv, NEW c \in Conns, Release(c)
  PROVE  TabsInv'
<1>0. TabsTypeOK /\ Rightly /\ (\A t \in tasks : TaskOK(t)) /\ Claims
  BY DEF TabsInv
<1> DEFINE u == Task("release", c, NoTab, "remember", {})
<1>1. u \in Tasks /\ u.op = "release" /\ u.at = "remember" /\ u.conn = c
  BY NewTask DEF TaskOps, TaskAts
<1>2. /\ UNCHANGED <<held, adopted, owners, closing, stopped, open, debugged, made>> /\ tasks' = tasks \cup {u}
      /\ runs' = runs \ {c} /\ released' = released \cup {c}
  BY DEF Release
<1> HIDE DEF u
<1>3. \A t \in tasks' : TaskOK(t)'
  BY <1>0, <1>1, <1>2 DEF TaskOK
<1>4. TabsTypeOK'
  <2>1. \A t \in tasks' : t.conn \in Conns
    BY <1>3 DEF TaskOK, Tasks
  <2> QED BY <1>0, <1>2, <2>1 DEF TabsTypeOK
<1>5. Rightly'
  BY <1>0, <1>2 DEF Rightly
<1>6. \A tab : Cared(tasks', c, tab)
  BY <1>1, <1>2 DEF Cared, Cleans
<1>7. \A o, tab : (Cared(tasks, o, tab) => Cared(tasks', o, tab)) /\ (Dropped(tasks, o, tab) => Dropped(tasks', o, tab))
  BY <1>2 DEF Cared, Dropped
<1>8. Claims'
  BY <1>0, <1>2, <1>6, <1>7 DEF Claims
<1> QED BY <1>3, <1>4, <1>5, <1>8 DEF TabsInv

\* An operation's step that leaves the tabs alone: another takes its place, and
\* its care.
LEMMA StepKeeps ==
  ASSUME TabsInv, NEW task \in tasks, NEW next, tasks' = (tasks \ {task}) \cup next, UNCHANGED <<runs, released, held, adopted, owners, stopped, open, made>>,
         \A u \in next : TaskOK(u) /\ u.conn = task.conn, closing' \subseteq AllTabs,
         debugged' \in [AllTabs -> Conns \cup {Nobody}],
         \A tab \in AllTabs : debugged'[tab] \notin {debugged[tab], Nobody} => debugged'[tab] = task.conn /\ task.tab = tab /\ tab \in open /\ task.at = "attach",
         \A tab \in AllTabs : Cleans(task, tab) /\ task.conn \in released =>
           \/ \E u \in next : Cleans(u, tab)
           \/ debugged'[tab] # task.conn /\ tab \notin FreshTabs /\ \E u \in next : u.tab = tab /\ u.at = "disown"
           \/ debugged'[tab] # task.conn /\ owners[tab] # task.conn /\ ~(tab \in held[task.conn] /\ tab \in open),
         task.at # "disown"
  PROVE  TabsInv'
<1>0. TabsTypeOK /\ Rightly /\ (\A t \in tasks : TaskOK(t)) /\ Claims
  BY DEF TabsInv
<1>1. \A t \in tasks' : TaskOK(t)'
  BY <1>0 DEF TaskOK
<1>2. TaskOK(task) /\ task.conn \in Conns
  BY <1>0 DEF TaskOK, Tasks
<1>3. TabsTypeOK'
  <2>1. \A t \in tasks' : t.conn \in Conns
    BY <1>1 DEF TaskOK, Tasks
  <2> QED BY <1>0, <2>1 DEF TabsTypeOK
<1>4. Rightly'
  <2>1. \A tab \in AllTabs, c \in Conns : debugged'[tab] = c => tab \in open /\ tab \in held[c]
    <3> SUFFICES ASSUME NEW tab \in AllTabs, NEW c \in Conns, debugged'[tab] = c
                 PROVE  tab \in open /\ tab \in held[c]
      OBVIOUS
    <3>1. CASE debugged'[tab] = debugged[tab]
      BY <1>0, <3>1 DEF Rightly
    <3>2. CASE debugged'[tab] # debugged[tab]
      <4>1. c = task.conn /\ task.tab = tab /\ tab \in open /\ task.at = "attach"
        BY <3>2, TabsAssumption
      <4> QED BY <1>2, <4>1 DEF TaskOK
    <3> QED BY <3>1, <3>2
  <2> QED BY <1>0, <2>1 DEF Rightly
<1>5. ASSUME NEW c \in released, NEW tab \in AllTabs
      PROVE  /\ debugged'[tab] = c => debugged[tab] = c \/ Cared(tasks, c, tab) \/ Cared(tasks', c, tab)
             /\ Cared(tasks, c, tab) => \/ Cared(tasks', c, tab)
                                        \/ debugged'[tab] # c /\ owners'[tab] # c /\ ~(tab \in held'[c] /\ tab \in open')
                                        \/ debugged'[tab] # c /\ tab \notin FreshTabs /\ Dropped(tasks', c, tab)
             /\ Dropped(tasks, c, tab) => Dropped(tasks', c, tab) \/ owners'[tab] # c
  <2>0. c \in Conns
    BY <1>0 DEF TabsTypeOK
  <2>1. debugged'[tab] = c => debugged[tab] = c \/ Cared(tasks, c, tab)
    <3> SUFFICES ASSUME debugged'[tab] = c, debugged[tab] # c PROVE Cared(tasks, c, tab)
      OBVIOUS
    <3>1. c = task.conn /\ task.tab = tab /\ tab \in open /\ task.at = "attach"
      BY <2>0, TabsAssumption
    <3>2. CASE task.op # "popup"
      BY <3>1, <3>2 DEF Cared, Cleans
    <3>3. CASE task.op = "popup"
      <4>1. tab \in FreshTabs /\ tab \in held[c]
        BY <1>2, <3>1, <3>3 DEF TaskOK
      <4> QED BY <1>0, <3>1, <4>1 DEF Claims
    <3> QED BY <3>2, <3>3
  <2>2. ASSUME Cared(tasks, c, tab), ~Cared(tasks', c, tab)
        PROVE  \/ debugged'[tab] # c /\ owners'[tab] # c /\ ~(tab \in held'[c] /\ tab \in open')
               \/ debugged'[tab] # c /\ tab \notin FreshTabs /\ Dropped(tasks', c, tab)
    <3>1. task.conn = c /\ Cleans(task, tab) /\ ~\E u \in next : Cleans(u, tab)
      BY <2>2 DEF Cared
    <3>2. CASE debugged'[tab] # task.conn /\ tab \notin FreshTabs /\ \E u \in next : u.tab = tab /\ u.at = "disown"
      BY <3>1, <3>2 DEF Dropped
    <3>3. CASE debugged'[tab] # task.conn /\ owners[tab] # task.conn /\ ~(tab \in held[task.conn] /\ tab \in open)
      BY <3>1, <3>3
    <3> QED BY <3>1, <3>2, <3>3
  <2>3. Dropped(tasks, c, tab) => Dropped(tasks', c, tab)
    BY DEF Dropped
  <2> QED BY <2>1, <2>2, <2>3
<1>6. Claims'
  BY <1>5, ClaimsKeep
<1> QED BY <1>1, <1>3, <1>4, <1>6 DEF TabsInv

\* The same, with one operation after it or none.
LEMMA StepsTo ==
  ASSUME TabsInv, NEW task \in tasks, NEW u, tasks' = (tasks \ {task}) \cup {u}, UNCHANGED <<runs, released, held, adopted, owners, stopped, open, made>>,
         TaskOK(u), u.conn = task.conn, closing' \subseteq AllTabs,
         debugged' \in [AllTabs -> Conns \cup {Nobody}],
         \A tab \in AllTabs : debugged'[tab] \in {debugged[tab], Nobody},
         \A tab \in AllTabs : Cleans(task, tab) /\ task.conn \in released =>
           \/ Cleans(u, tab)
           \/ debugged'[tab] # task.conn /\ tab \notin FreshTabs /\ u.tab = tab /\ u.at = "disown"
           \/ debugged'[tab] # task.conn /\ owners[tab] # task.conn /\ ~(tab \in held[task.conn] /\ tab \in open),
         task.at # "disown"
  PROVE  TabsInv'
<1> DEFINE next == {u}
<1>1. tasks' = (tasks \ {task}) \cup next /\ u \in next /\ \A x \in next : TaskOK(x) /\ x.conn = task.conn
  OBVIOUS
<1> HIDE DEF next
<1>2. \A tab \in AllTabs : Cleans(task, tab) /\ task.conn \in released =>
           \/ \E x \in next : Cleans(x, tab)
           \/ debugged'[tab] # task.conn /\ tab \notin FreshTabs /\ \E x \in next : x.tab = tab /\ x.at = "disown"
           \/ debugged'[tab] # task.conn /\ owners[tab] # task.conn /\ ~(tab \in held[task.conn] /\ tab \in open)
  BY <1>1
<1> QED BY <1>1, <1>2, StepKeeps

LEMMA StepEnds ==
  ASSUME TabsInv, NEW task \in tasks, tasks' = tasks \ {task}, UNCHANGED <<runs, released, held, adopted, owners, stopped, open, made>>,
         closing' \subseteq AllTabs, debugged' \in [AllTabs -> Conns \cup {Nobody}],
         \A tab \in AllTabs : debugged'[tab] \notin {debugged[tab], Nobody} => debugged'[tab] = task.conn /\ task.tab = tab /\ tab \in open /\ task.at = "attach",
         \A tab \in AllTabs : ~Cleans(task, tab), task.at # "disown"
  PROVE  TabsInv'
<1> DEFINE next == {}
<1>1. tasks' = (tasks \ {task}) \cup next /\ \A x \in next : FALSE
  OBVIOUS
<1> HIDE DEF next
<1> QED BY <1>1, StepKeeps

\* `Finally`: the operation ends, or is undone.
LEMMA Undone ==
  ASSUME TabsInv, NEW task \in tasks, task.at \in {"group", "attach"}, Finally(task)
  PROVE  \E next : /\ tasks' = (tasks \ {task}) \cup next /\ \A u \in next : TaskOK(u) /\ u.conn = task.conn
                   /\ task.conn \in released => \E u \in next : u.at = "detach" /\ u.tab = task.tab
<1>1. TaskOK(task) /\ task \in Tasks /\ task.conn \in Conns /\ task.tab \in AllTabs
  BY DEF TabsInv, TaskOK, Tasks
<1> DEFINE u == Task("teardown", task.conn, task.tab, "detach", {})
<1>2. u \in Tasks /\ u.op = "teardown" /\ u.conn = task.conn /\ u.tab = task.tab /\ u.at = "detach" /\ u.left = {}
  BY <1>1, NewTask DEF TaskOps, TaskAts
<1>3. task.conn \in released => tasks' = (tasks \ {task}) \cup {u}
  BY DEF Finally, Replace1
<1>4. task.conn \notin released => tasks' = (tasks \ {task}) \cup {}
  BY DEF Finally, Replace1
<1> HIDE DEF u
<1>5. TaskOK(u)
  BY <1>1, <1>2 DEF TaskOK
<1> QED BY <1>2, <1>3, <1>4, <1>5

LEMMA TaskFacts ==
  ASSUME TabsInv, NEW task \in tasks
  PROVE  TaskOK(task) /\ task \in Tasks /\ task.conn \in Conns /\ task.left \subseteq AllTabs /\ task.op \in TaskOps
BY DEF TabsInv, TaskOK, Tasks

LEMMA AdoptingKeeps ==
  ASSUME TabsInv, NEW task \in tasks, Grouped(task) \/ Attached(task) \/ PopupAttached(task)
  PROVE  TabsInv'
<1>0. TabsTypeOK /\ Rightly
  BY DEF TabsInv
<1>1. TaskOK(task) /\ task \in Tasks /\ task.conn \in Conns
  BY TaskFacts
<1>2. UNCHANGED <<runs, released, held, adopted, owners, closing, stopped, open, made>> /\ closing' \subseteq AllTabs
  BY <1>0 DEF Grouped, Attached, PopupAttached, TabsTypeOK
<1>3. /\ debugged' \in [AllTabs -> Conns \cup {Nobody}]
      /\ \A tab \in AllTabs : debugged'[tab] \notin {debugged[tab], Nobody} => debugged'[tab] = task.conn /\ task.tab = tab /\ tab \in open /\ task.at = "attach"
  <2>1. \/ debugged' = debugged
        \/ debugged' = [debugged EXCEPT ![task.tab] = task.conn] /\ task.tab \in open /\ task.at = "attach"
    BY DEF Grouped, Attached, PopupAttached
  <2> QED BY <1>0, <1>1, <2>1 DEF TabsTypeOK
<1>4. task.at \in {"group", "attach"}
  BY DEF Grouped, Attached, PopupAttached
<1>5. \A tab \in AllTabs : Cleans(task, tab) => tab = task.tab /\ task.op # "popup"
  BY <1>1, <1>4 DEF Cleans, TaskOK
<1>6. CASE Finally(task)
  <2>1. PICK next : /\ tasks' = (tasks \ {task}) \cup next /\ \A u \in next : TaskOK(u) /\ u.conn = task.conn
                    /\ task.conn \in released => \E u \in next : u.at = "detach" /\ u.tab = task.tab
    BY <1>4, <1>6, Undone
  <2>2. \A tab \in AllTabs : Cleans(task, tab) /\ task.conn \in released => \E u \in next : Cleans(u, tab)
    BY <1>5, <2>1 DEF Cleans
  <2> QED BY <1>2, <1>3, <1>4, <2>1, <2>2, StepKeeps
<1>7. CASE Goes(task, "attach") /\ Grouped(task)
  <2> DEFINE u == [task EXCEPT !.at = "attach"]
  <2>1. u \in Tasks /\ u.op = task.op /\ u.conn = task.conn /\ u.tab = task.tab /\ u.left = task.left /\ u.at = "attach"
    BY <1>1, Moved DEF TaskAts
  <2>2. tasks' = (tasks \ {task}) \cup {u} /\ task.at = "group"
    BY <1>7 DEF Goes, Replace1, Grouped
  <2> HIDE DEF u
  <2>3. TaskOK(u)
    BY <1>1, <2>1, <2>2 DEF TaskOK
  <2>4. \A tab \in AllTabs : Cleans(task, tab) => Cleans(u, tab)
    BY <1>5, <2>1 DEF Cleans
  <2>5. debugged' = debugged
    BY <1>7 DEF Grouped
  <2> QED BY <1>2, <1>3, <1>4, <2>1, <2>2, <2>3, <2>4, <2>5, StepsTo
<1>8. CASE PopupAttached(task)
  <2>1. tasks' = tasks \ {task} /\ task.op = "popup"
    BY <1>8 DEF PopupAttached, Replace1
  <2> QED BY <1>2, <1>3, <1>4, <1>5, <2>1, StepEnds
<1> QED BY <1>6, <1>7, <1>8 DEF Grouped, Attached

LEMMA ReleasingKeeps ==
  ASSUME TabsInv, NEW task \in tasks, Remembered(task) \/ NextTab(task) \/ Detached(task)
  PROVE  TabsInv'
<1>0. TabsTypeOK /\ Rightly
  BY DEF TabsInv
<1>1. TaskOK(task) /\ task \in Tasks /\ task.conn \in Conns /\ task.left \subseteq AllTabs
  BY TaskFacts
<1>2. UNCHANGED <<runs, released, held, adopted, owners, stopped, open, made>>
  BY DEF Remembered, NextTab, Detached
<1>3. CASE Remembered(task)
  <2> DEFINE L == held[task.conn]
             u == Task("release", task.conn, NoTab, "next", L)
  <2>0. L \in SUBSET AllTabs /\ "release" \in TaskOps /\ "next" \in TaskAts
    BY <1>0, <1>1 DEF TabsTypeOK, TaskOps, TaskAts
  <2> HIDE DEF L
  <2>8. u \in Tasks /\ u.op = "release" /\ u.conn = task.conn /\ u.left = L /\ u.at = "next"
    BY <1>1, <2>0, NewTask
  <2>1. u \in Tasks /\ u.op = "release" /\ u.conn = task.conn /\ u.left = held[task.conn] /\ u.at = "next"
    BY <2>8 DEF L
  <2>2. tasks' = (tasks \ {task}) \cup {u} /\ task.at = "remember" /\ UNCHANGED <<closing, debugged>>
    BY <1>3 DEF Remembered, Replace1, L
  <2> HIDE DEF u
  <2>3. TaskOK(u)
    BY <2>1 DEF TaskOK
  <2>4. \A tab \in AllTabs : \/ Cleans(u, tab)
                             \/ debugged'[tab] # task.conn /\ owners[tab] # task.conn /\ ~(tab \in held[task.conn] /\ tab \in open)
    BY <1>0, <1>1, <2>1, <2>2 DEF Cleans, Rightly
  <2>5. debugged' \in [AllTabs -> Conns \cup {Nobody}] /\ closing' \subseteq AllTabs
    BY <1>0, <2>2 DEF TabsTypeOK
  <2> QED BY <1>2, <2>1, <2>2, <2>3, <2>4, <2>5, StepsTo
<1>4. CASE NextTab(task)
  <2>1. task.at = "next" /\ UNCHANGED <<closing, debugged>>
    BY <1>4 DEF NextTab
  <2>2. debugged' \in [AllTabs -> Conns \cup {Nobody}] /\ closing' \subseteq AllTabs
    BY <1>0, <2>1 DEF TabsTypeOK
  <2>3. \A tab : Cleans(task, tab) => tab \in task.left
    BY <2>1 DEF Cleans
  <2>4. CASE task.left = {}
    <3>1. tasks' = tasks \ {task}
      BY <1>4, <2>4 DEF NextTab, Replace1
    <3> QED BY <1>2, <2>1, <2>2, <2>3, <2>4, <3>1, StepEnds
  <2>5. CASE task.left # {}
    <3>1. PICK tab \in task.left : tasks' = (tasks \ {task}) \cup {[task EXCEPT !.tab = tab, !.left = @ \ {tab}, !.at = "detach"]}
      BY <1>4, <2>5 DEF NextTab, Replace1
    <3> DEFINE left == task.left \ {tab}
               u == [task EXCEPT !.tab = tab, !.left = left, !.at = "detach"]
    <3>2. tasks' = (tasks \ {task}) \cup {u} /\ left \in SUBSET AllTabs /\ tab \in AllTabs
      BY <1>1, <3>1
    <3>3. \A x \in task.left : x \in left \/ x = tab
      OBVIOUS
    <3> HIDE DEF left
    <3>4. u \in Tasks /\ u.op = task.op /\ u.conn = task.conn /\ u.left = left /\ u.tab = tab /\ u.at = "detach"
      BY <1>1, <3>2 DEF Tasks, TaskAts
    <3> HIDE DEF u
    <3>5. TaskOK(u)
      BY <1>1, <2>1, <2>5, <3>2, <3>4 DEF TaskOK
    <3>6. \A x \in AllTabs : Cleans(task, x) => Cleans(u, x)
      BY <2>3, <3>3, <3>4 DEF Cleans
    <3> QED BY <1>2, <2>1, <2>2, <3>2, <3>4, <3>5, <3>6, StepsTo
  <2> QED BY <2>4, <2>5
<1>5. CASE Detached(task)
  <2>1. PICK at1 \in {"disown", "close"} : /\ Goes(task, at1) /\ closing' \in {closing, closing \cup {task.tab}}
                                           /\ (at1 = "disown" => task.tab \in adopted[task.conn])
    BY <1>5 DEF Detached
  <2> DEFINE u == [task EXCEPT !.at = at1]
  <2>2. u \in Tasks /\ u.op = task.op /\ u.conn = task.conn /\ u.tab = task.tab /\ u.left = task.left /\ u.at = at1
    <3>1. at1 \in TaskAts
      BY <2>1 DEF TaskAts
    <3> QED BY <1>1, <3>1, Moved
  <2>3. tasks' = (tasks \ {task}) \cup {u} /\ task.at = "detach" /\ debugged' = [debugged EXCEPT ![task.tab] = Nobody]
    BY <1>5, <2>1 DEF Goes, Replace1, Detached
  <2> HIDE DEF u
  <2>4. task.tab \in AllTabs /\ (at1 = "disown" => task.tab \in UserTabs)
    BY <1>0, <1>1, <2>1, <2>3 DEF TaskOK, TabsTypeOK
  <2>5. TaskOK(u)
    BY <1>1, <2>1, <2>2, <2>3, <2>4 DEF TaskOK
  <2>6. /\ debugged' \in [AllTabs -> Conns \cup {Nobody}] /\ closing' \subseteq AllTabs /\ debugged'[task.tab] = Nobody
        /\ \A tab \in AllTabs : debugged'[tab] \in {debugged[tab], Nobody}
    BY <1>0, <2>1, <2>3, <2>4 DEF TabsTypeOK
  <2>7. \A tab \in AllTabs : Cleans(task, tab) =>
          \/ Cleans(u, tab)
          \/ debugged'[tab] # task.conn /\ tab \notin FreshTabs /\ u.tab = tab /\ u.at = "disown"
    <3> SUFFICES ASSUME NEW tab \in AllTabs, Cleans(task, tab), ~Cleans(u, tab)
                 PROVE  debugged'[tab] # task.conn /\ tab \notin FreshTabs /\ u.tab = tab /\ u.at = "disown"
      OBVIOUS
    <3>1. tab = task.tab /\ at1 = "disown"
      BY <2>1, <2>2, <2>3 DEF Cleans
    <3> QED BY <1>1, <2>2, <2>4, <2>6, <3>1, TabsAssumption
  <2> QED BY <1>2, <2>2, <2>3, <2>5, <2>6, <2>7, StepsTo
<1> QED BY <1>3, <1>4, <1>5

LEMMA DisowningKeeps ==
  ASSUME TabsInv, NEW task \in tasks, Disowned(task)
  PROVE  TabsInv'
<1>0. TabsTypeOK /\ Rightly /\ (\A t \in tasks : TaskOK(t)) /\ Claims
  BY DEF TabsInv
<1>1. TaskOK(task) /\ task \in Tasks /\ task.conn \in Conns /\ task.at \in {"closed", "disown"} /\ task.tab \in AllTabs
  <2>1. TaskOK(task) /\ task \in Tasks /\ task.conn \in Conns /\ task.at \in {"closed", "disown"}
    BY TaskFacts DEF Disowned
  <2> QED BY <2>1 DEF TaskOK, AllTabs
<1>2. UNCHANGED <<runs, released, held, adopted, stopped, open, debugged, made>> /\ closing' \subseteq AllTabs
  BY <1>0 DEF Disowned, TabsTypeOK
<1>3. /\ owners' \in [AllTabs -> Conns \cup {Nobody}] /\ owners'[task.tab] # task.conn
      /\ \A tab \in AllTabs : owners'[tab] = owners[tab] \/ owners'[tab] = Nobody
  BY <1>0, <1>1, TabsAssumption DEF Disowned, TabsTypeOK
<1>4. PICK next : /\ tasks' = (tasks \ {task}) \cup next
                  /\ \A u \in next : TaskOK(u) /\ u.conn = task.conn
                  /\ \A tab : tab \in task.left => \E u \in next : tab \in u.left
  <2>1. CASE task.op = "release"
    <3> DEFINE u == [task EXCEPT !.at = "next"]
               next == {u}
    <3>1. u \in Tasks /\ u.op = task.op /\ u.conn = task.conn /\ u.tab = task.tab /\ u.left = task.left /\ u.at = "next"
      BY <1>1, Moved DEF TaskAts
    <3>2. tasks' = (tasks \ {task}) \cup next
      BY <2>1 DEF Disowned, Goes, Replace1
    <3> HIDE DEF u
    <3>3. TaskOK(u)
      BY <2>1, <3>1 DEF TaskOK
    <3>4. (\A x \in next : TaskOK(x) /\ x.conn = task.conn) /\ \A tab : tab \in task.left => \E x \in next : tab \in x.left
      BY <3>1, <3>3
    <3> HIDE DEF next
    <3> QED BY <3>2, <3>4
  <2>2. CASE task.op # "release"
    <3>1. tasks' = (tasks \ {task}) \cup {} /\ task.left = {}
      BY <1>1, <2>2 DEF Disowned, Replace1, TaskOK
    <3> QED BY <3>1
  <2> QED BY <2>1, <2>2
<1>5. \A t \in tasks' : TaskOK(t)'
  BY <1>0, <1>2, <1>4 DEF TaskOK
<1>6. TabsTypeOK'
  <2>1. \A t \in tasks' : t.conn \in Conns
    BY <1>5 DEF TaskOK, Tasks
  <2> QED BY <1>0, <1>2, <1>3, <2>1 DEF TabsTypeOK
<1>7. Rightly'
  BY <1>0, <1>2, <1>3, TabsAssumption DEF Rightly
<1>8. ASSUME NEW c \in released, NEW tab \in AllTabs
      PROVE  /\ owners'[tab] = c => owners[tab] = c
             /\ Cared(tasks, c, tab) => Cared(tasks', c, tab)
             /\ Dropped(tasks, c, tab) => Dropped(tasks', c, tab) \/ owners'[tab] # c
  <2>1. c \in Conns
    BY <1>0 DEF TabsTypeOK
  <2>2. Cleans(task, tab) => tab \in task.left
    BY <1>1 DEF Cleans
  <2>3. \A u : tab \in u.left => Cleans(u, tab)
    BY DEF Cleans
  <2>4. Cared(tasks, c, tab) => Cared(tasks', c, tab)
    BY <1>4, <2>2, <2>3 DEF Cared
  <2>5. Dropped(tasks, c, tab) => Dropped(tasks', c, tab) \/ (task.conn = c /\ task.tab = tab)
    BY <1>4 DEF Dropped
  <2> QED BY <1>3, <2>1, <2>4, <2>5, TabsAssumption
<1>9. Claims'
  BY <1>2, <1>8, ClaimsKeep
<1> QED BY <1>5, <1>6, <1>7, <1>9 DEF TabsInv

\* A tab closes: no run has it any more.
LEMMA GoneKeeps ==
  ASSUME TabsInv, NEW tab \in AllTabs, Gone(tab), UNCHANGED <<runs, released, adopted, made>>,
         \A t \in tasks' : t \in tasks \/ TaskOK(t),
         \A c \in Conns, other \in AllTabs : other # tab =>
           (Cared(tasks, c, other) => Cared(tasks', c, other)) /\ (Dropped(tasks, c, other) => Dropped(tasks', c, other))
  PROVE  TabsInv'
<1>0. TabsTypeOK /\ Rightly /\ (\A t \in tasks : TaskOK(t)) /\ Claims
  BY DEF TabsInv
<1>1. /\ open' = open \ {tab} /\ debugged' = [debugged EXCEPT ![tab] = Nobody] /\ owners' = [owners EXCEPT ![tab] = Nobody]
      /\ closing' \in {closing, closing \ {tab}}
  BY DEF Gone, Removed
<1>2. /\ held' \in [Conns -> SUBSET AllTabs] /\ stopped' \subseteq Conns
      /\ \A c \in Conns : \A t \in AllTabs : t \in held'[c] => t \in held[c]
      /\ \A c \in Conns : \A t \in held[c] : t \in held'[c] \/ t = tab
  <2>1. owners[tab] \in Conns \cup {Nobody}
    BY <1>0 DEF TabsTypeOK
  <2>2. \/ held' = held /\ stopped' = stopped
        \/ /\ owners[tab] \in Conns /\ (held' = held \/ held' = [held EXCEPT ![owners[tab]] = held[owners[tab]] \ {tab}])
           /\ (stopped' = stopped \/ stopped' = stopped \cup {owners[tab]})
    BY <2>1 DEF Gone, Removed
  <2> DEFINE o == owners[tab]
             L == held[o] \ {tab}
  <2>3. o \in Conns => L \in SUBSET AllTabs
    BY <1>0 DEF TabsTypeOK
  <2> QED BY <1>0, <2>2, <2>3 DEF TabsTypeOK
<1>3. \A t \in tasks' : TaskOK(t)'
  <2> SUFFICES ASSUME NEW t \in tasks' PROVE TaskOK(t)'
    OBVIOUS
  <2>1. TaskOK(t) /\ t.conn \in Conns
    BY <1>0 DEF TaskOK, Tasks
  <2>2. t.at \in {"group", "attach"} => /\ t.tab \in FreshTabs => made'[t.tab] # Nobody
                                        /\ t.tab \in open' => t.tab \in held'[t.conn]
    BY <1>1, <1>2, <2>1 DEF TaskOK
  <2> QED BY <2>1, <2>2 DEF TaskOK
<1>4. TabsTypeOK'
  <2>1. \A t \in tasks' : t.conn \in Conns
    BY <1>3 DEF TaskOK, Tasks
  <2>2. owners' \in [AllTabs -> Conns \cup {Nobody}] /\ debugged' \in [AllTabs -> Conns \cup {Nobody}]
    BY <1>0, <1>1 DEF TabsTypeOK
  <2>3. open' \subseteq AllTabs /\ closing' \subseteq AllTabs
    BY <1>0, <1>1 DEF TabsTypeOK
  <2> QED BY <1>0, <1>2, <2>1, <2>2, <2>3 DEF TabsTypeOK
<1>5. /\ owners'[tab] = Nobody /\ debugged'[tab] = Nobody
      /\ \A t \in AllTabs : t # tab => owners'[t] = owners[t] /\ debugged'[t] = debugged[t]
  BY <1>0, <1>1 DEF TabsTypeOK
<1>6. Rightly'
  <2>1. \A t \in AllTabs, c \in Conns : owners'[t] = c \/ debugged'[t] = c => t \in open' /\ t \in held'[c]
    BY <1>0, <1>1, <1>2, <1>5, TabsAssumption DEF Rightly
  <2>2. \A c \in Conns, t \in FreshTabs : t \in held'[c] => made'[t] # Nobody
    BY <1>0, <1>2 DEF Rightly, AllTabs
  <2> QED BY <1>0, <2>1, <2>2 DEF Rightly
<1>7. released \subseteq Conns
  BY <1>0 DEF TabsTypeOK
<1>8. Claims'
  <2> SUFFICES ASSUME NEW c \in released, NEW t \in AllTabs
               PROVE  /\ debugged'[t] = c => debugged[t] = c \/ Cared(tasks, c, t) \/ Cared(tasks', c, t)
                      /\ t \in held'[c] /\ t \in open' /\ t \in FreshTabs => (t \in held[c] /\ t \in open) \/ Cared(tasks', c, t)
                      /\ owners'[t] = c => owners[t] = c \/ Cared(tasks', c, t)
                      /\ Cared(tasks, c, t) => \/ Cared(tasks', c, t)
                                               \/ debugged'[t] # c /\ owners'[t] # c /\ ~(t \in held'[c] /\ t \in open')
                                               \/ debugged'[t] # c /\ t \notin FreshTabs /\ Dropped(tasks', c, t)
                      /\ Dropped(tasks, c, t) => Dropped(tasks', c, t) \/ owners'[t] # c
    BY ClaimsKeep
  <2>1. c \in Conns /\ c # Nobody
    BY <1>7, TabsAssumption
  <2>2. CASE t = tab
    BY <1>1, <1>5, <2>1, <2>2
  <2>3. CASE t # tab
    BY <1>1, <1>2, <1>5, <2>1, <2>3
  <2> QED BY <2>2, <2>3
<1> QED BY <1>3, <1>4, <1>6, <1>8 DEF TabsInv

LEMMA ClosingTabsKeeps ==
  ASSUME TabsInv, (\E tab \in AllTabs : UserCloses(tab)) \/ (\E task \in tasks : TabClosed(task) \/ TornDown(task))
  PROVE  TabsInv'
<1>0. TabsTypeOK /\ Rightly
  BY DEF TabsInv
<1>1. ASSUME NEW tab \in AllTabs, UserCloses(tab)
      PROVE  TabsInv'
  <2>1. Gone(tab) /\ UNCHANGED <<runs, released, adopted, made, tasks>>
    BY <1>1 DEF UserCloses
  <2> QED BY <2>1, GoneKeeps
<1>2. ASSUME NEW task \in tasks, TabClosed(task)
      PROVE  TabsInv'
  <2>1. TaskOK(task) /\ tasks' = tasks \ {task} /\ task.op = "close" /\ UNCHANGED <<runs, released, adopted, made>>
    BY <1>2, TaskFacts DEF TabClosed, Replace1
  <2>2. task.at = "remove" /\ task.left = {}
    BY <2>1 DEF TaskOK
  <2>3. \A tab : ~Cleans(task, tab)
    BY <2>2 DEF Cleans
  <2>4. CASE task.tab \in open
    <3>1. Gone(task.tab) /\ task.tab \in AllTabs
      BY <1>0, <1>2, <2>4 DEF TabClosed, TabsTypeOK
    <3>2. \A c, other : (Cared(tasks, c, other) => Cared(tasks', c, other)) /\ (Dropped(tasks, c, other) => Dropped(tasks', c, other))
      BY <2>1, <2>2, <2>3 DEF Cared, Dropped
    <3> QED BY <2>1, <3>1, <3>2, GoneKeeps
  <2>5. CASE task.tab \notin open
    <3>1. UNCHANGED <<open, debugged, owners, held, closing, stopped>>
      BY <1>2, <2>5 DEF TabClosed
    <3>2. closing' \subseteq AllTabs /\ debugged' \in [AllTabs -> Conns \cup {Nobody}]
      BY <1>0, <3>1 DEF TabsTypeOK
    <3> QED BY <2>1, <2>2, <2>3, <3>1, <3>2, StepEnds
  <2> QED BY <2>4, <2>5
<1>3. ASSUME NEW task \in tasks, TornDown(task)
      PROVE  TabsInv'
  <2>0. TaskOK(task) /\ task \in Tasks /\ task.at = "close" /\ task.conn \in Conns
    BY <1>3, TaskFacts DEF TornDown
  <2> DEFINE u == [task EXCEPT !.at = "closed"]
  <2>1. u \in Tasks /\ u.op = task.op /\ u.conn = task.conn /\ u.tab = task.tab /\ u.left = task.left /\ u.at = "closed"
    BY <2>0, Moved DEF TaskAts
  <2>2. tasks' = (tasks \ {task}) \cup {u} /\ UNCHANGED <<runs, released, adopted, made>>
    BY <1>3 DEF TornDown, Goes, Replace1
  <2> HIDE DEF u
  <2>3. TaskOK(u) /\ task.tab \in AllTabs
    BY <2>0, <2>1 DEF TaskOK
  <2>4. \A tab : tab # task.tab /\ Cleans(task, tab) => Cleans(u, tab)
    BY <2>0, <2>1 DEF Cleans
  <2>5. CASE task.tab \in open
    <3>1. Gone(task.tab)
      BY <1>3, <2>5 DEF TornDown
    <3>2. \A c \in Conns, other \in AllTabs : other # task.tab =>
            (Cared(tasks, c, other) => Cared(tasks', c, other)) /\ (Dropped(tasks, c, other) => Dropped(tasks', c, other))
      BY <2>0, <2>1, <2>2, <2>4 DEF Cared, Dropped
    <3>3. \A t \in tasks' : t \in tasks \/ TaskOK(t)
      BY <2>2, <2>3
    <3> QED BY <2>2, <2>3, <3>1, <3>2, <3>3, GoneKeeps
  <2>6. CASE task.tab \notin open
    <3>1. UNCHANGED <<open, debugged, owners, held, closing, stopped>>
      BY <1>3, <2>6 DEF TornDown
    <3>2. closing' \subseteq AllTabs /\ debugged' \in [AllTabs -> Conns \cup {Nobody}]
      BY <1>0, <3>1 DEF TabsTypeOK
    <3>3. debugged[task.tab] # task.conn /\ owners[task.tab] # task.conn
      BY <1>0, <2>0, <2>3, <2>6 DEF Rightly
    <3>4. \A tab \in AllTabs : Cleans(task, tab) =>
            \/ Cleans(u, tab)
            \/ debugged'[tab] # task.conn /\ owners[tab] # task.conn /\ ~(tab \in held[task.conn] /\ tab \in open)
      BY <2>4, <2>6, <3>1, <3>3
    <3> QED BY <2>0, <2>1, <2>2, <2>3, <3>1, <3>2, <3>4, StepsTo
  <2> QED BY <2>5, <2>6
<1> QED BY <1>1, <1>2, <1>3

\* A tab comes to a run, its own doing or the page's.
LEMMA OwnedKeeps ==
  ASSUME TabsInv, NEW c \in Conns, NEW tab \in AllTabs, Own(c, tab), UNCHANGED <<runs, released, closing, stopped, debugged>>,
         adopted' \in [Conns -> SUBSET UserTabs], made' \in [FreshTabs -> Conns \cup {Nobody}], open' = open \cup {tab},
         tab \in open \/ (tab \in FreshTabs /\ made[tab] = Nobody), tab \in FreshTabs => made'[tab] # Nobody,
         \A t \in FreshTabs : made[t] # Nobody => made'[t] # Nobody,
         NEW u, u \in tasks', \A t \in tasks' : t \in tasks \/ t = u,
         \A o, t : (Cared(tasks, o, t) => Cared(tasks', o, t)) /\ (Dropped(tasks, o, t) => Dropped(tasks', o, t)), u \in Tasks, u.conn = c, u.tab = tab, u.left = {},
         \/ u.op \in {"newTab", "adopt"} /\ u.at = "group"
         \/ u.op = "popup" /\ u.at = "attach" /\ c \notin released /\ tab \in FreshTabs
  PROVE  TabsInv'
<1>0. TabsTypeOK /\ Rightly /\ (\A t \in tasks : TaskOK(t)) /\ Claims
  BY DEF TabsInv
<1> DEFINE L == held[c] \cup {tab}
<1>1. held' = [held EXCEPT ![c] = L] /\ owners' = [owners EXCEPT ![tab] = c] /\ L \in SUBSET AllTabs /\ tab \in L /\ held[c] \subseteq L
      /\ \A t \in L : t \in held[c] \/ t = tab
  BY <1>0 DEF Own, TabsTypeOK
<1> HIDE DEF L
<1>2. /\ held' \in [Conns -> SUBSET AllTabs] /\ owners' \in [AllTabs -> Conns \cup {Nobody}] /\ owners'[tab] = c
      /\ \A o \in Conns : held[o] \subseteq held'[o]
      /\ \A o \in Conns : \A t \in held'[o] : t \in held[o] \/ (o = c /\ t = tab)
      /\ tab \in held'[c]
      /\ \A t \in AllTabs : t # tab => owners'[t] = owners[t]
  BY <1>0, <1>1 DEF TabsTypeOK
<1>3. TaskOK(u)'
  BY <1>2 DEF TaskOK
<1>4. \A t \in tasks : TaskOK(t)'
  BY <1>2, TasksStand
<1>5. \A t \in tasks' : TaskOK(t)'
  BY <1>3, <1>4
<1>6. TabsTypeOK'
  <2>1. \A t \in tasks' : t.conn \in Conns
    BY <1>5 DEF TaskOK, Tasks
  <2> QED BY <1>0, <1>2, <2>1 DEF TabsTypeOK
<1>7. Rightly'
  <2>1. \A t \in AllTabs, o \in Conns : owners'[t] = o \/ debugged'[t] = o => t \in open' /\ t \in held'[o]
    BY <1>0, <1>2 DEF Rightly
  <2>2. \A o \in Conns, t \in FreshTabs : t \in held'[o] => made'[t] # Nobody
    BY <1>0, <1>2 DEF Rightly
  <2> QED BY <1>0, <2>1, <2>2 DEF Rightly
<1>8. released \subseteq Conns
  BY <1>0 DEF TabsTypeOK
<1>10. c \in released => Cared(tasks', c, tab)
  BY DEF Cared, Cleans
<1>11. \A o \in Conns : tab \in held[o] => tab \in open
  BY <1>0 DEF Rightly
<1>12. Claims'
  <2> SUFFICES ASSUME NEW o \in released, NEW t \in AllTabs
               PROVE  /\ t \in held'[o] /\ t \in open' /\ t \in FreshTabs => (t \in held[o] /\ t \in open) \/ Cared(tasks', o, t)
                      /\ owners'[t] = o => owners[t] = o \/ Cared(tasks', o, t)
    BY ClaimsKeep
  <2> QED BY <1>2, <1>8, <1>10, <1>11
<1> QED BY <1>5, <1>6, <1>7, <1>12 DEF TabsInv

LEMMA ComingKeeps ==
  ASSUME TabsInv, NEW task \in tasks, (\E tab \in FreshTabs : TabCreated(task, tab)) \/ TabGot(task)
  PROVE  TabsInv'
<1>0. TabsTypeOK /\ Rightly
  BY DEF TabsInv
<1>1. TaskOK(task) /\ task \in Tasks /\ task.conn \in Conns
  BY TaskFacts
<1>2. task.at \in {"create", "get"} => task.left = {} /\ ~\E t : Cleans(task, t)
  BY <1>1 DEF TaskOK, Cleans
<1>3. ASSUME NEW tab \in FreshTabs, TabCreated(task, tab)
      PROVE  TabsInv'
  <2> DEFINE c == task.conn
             u == Task("newTab", c, tab, "group", {})
  <2>0. tab \in AllTabs
    BY DEF AllTabs
  <2>1. u \in Tasks /\ u.op = "newTab" /\ u.conn = c /\ u.tab = tab /\ u.at = "group" /\ u.left = {}
    BY <1>1, <2>0, NewTask DEF TaskOps, TaskAts
  <2>2. /\ tasks' = (tasks \ {task}) \cup {u} /\ Own(c, tab) /\ UNCHANGED <<runs, released, adopted, closing, stopped, debugged>>
        /\ task.at = "create" /\ made[tab] = Nobody /\ made' = [made EXCEPT ![tab] = c] /\ open' = open \cup {tab}
    BY <1>3 DEF TabCreated, Replace1
  <2>3. /\ made' \in [FreshTabs -> Conns \cup {Nobody}] /\ made'[tab] # Nobody
        /\ \A t \in FreshTabs : made[t] # Nobody => made'[t] # Nobody
    BY <1>0, <1>1, <2>2, TabsAssumption DEF TabsTypeOK
  <2>4. adopted' \in [Conns -> SUBSET UserTabs] /\ c \in Conns
    BY <1>0, <1>1, <2>2 DEF TabsTypeOK
  <2> HIDE DEF u, c
  <2>6. u \in tasks' /\ (\A t \in tasks' : t \in tasks \/ t = u)
    BY <2>2
  <2>7. \A o, t : (Cared(tasks, o, t) => Cared(tasks', o, t)) /\ (Dropped(tasks, o, t) => Dropped(tasks', o, t))
    BY <1>2, <2>0, <2>2 DEF Cared, Dropped
  <2>8. task.left = {}
    BY <1>2, <2>0, <2>2
  <2>9. /\ Own(c, tab) /\ UNCHANGED <<runs, released, closing, stopped, debugged>> /\ open' = open \cup {tab}
        /\ tab \in FreshTabs /\ made[tab] = Nobody /\ u.op \in {"newTab", "adopt"}
    BY <2>1, <2>2
  <2> QED BY <2>0, <2>1, <2>3, <2>4, <2>6, <2>7, <2>9, OwnedKeeps
<1>4. CASE TabGot(task) /\ task.tab \in open
  <2> DEFINE c == task.conn
             tab == task.tab
             u == [task EXCEPT !.at = "group"]
             L == adopted[c] \cup {tab}
  <2>0. task.at = "get" /\ tab \in UserTabs /\ tab \in AllTabs /\ tab \notin FreshTabs
    BY <1>1, <1>4, TabsAssumption DEF TabGot, TaskOK, AllTabs
  <2>1. u \in Tasks /\ u.op = task.op /\ u.conn = c /\ u.tab = tab /\ u.at = "group" /\ u.left = task.left
    BY <1>1, Moved DEF TaskAts
  <2>2. /\ tasks' = (tasks \ {task}) \cup {u} /\ Own(c, tab) /\ UNCHANGED <<runs, released, closing, stopped, debugged, made, open>>
        /\ adopted' = [adopted EXCEPT ![c] = L] /\ tab \in open
    BY <1>4 DEF TabGot, Goes, Replace1
  <2>3. L \in SUBSET UserTabs
    BY <1>0, <1>1, <2>0 DEF TabsTypeOK
  <2>4. adopted' \in [Conns -> SUBSET UserTabs] /\ made' \in [FreshTabs -> Conns \cup {Nobody}] /\ open' = open \cup {tab} /\ c \in Conns
    BY <1>0, <1>1, <2>2, <2>3 DEF TabsTypeOK
  <2>5. task.op \in {"newTab", "adopt"}
    BY <1>1, <2>0 DEF TaskOK
  <2> HIDE DEF u, c, tab, L
  <2>6. u \in tasks' /\ (\A t \in tasks' : t \in tasks \/ t = u)
    BY <2>2
  <2>7. \A o, t : (Cared(tasks, o, t) => Cared(tasks', o, t)) /\ (Dropped(tasks, o, t) => Dropped(tasks', o, t))
    BY <1>2, <2>0, <2>2 DEF Cared, Dropped
  <2>8. task.left = {}
    BY <1>2, <2>0, <2>2
  <2>9. /\ Own(c, tab) /\ UNCHANGED <<runs, released, closing, stopped, debugged>> /\ tab \in open
        /\ (\A t \in FreshTabs : made[t] # Nobody => made'[t] # Nobody) /\ u.op \in {"newTab", "adopt"} /\ u.left = {}
    BY <2>1, <2>2, <2>5, <2>8
  <2> QED BY <2>0, <2>1, <2>4, <2>6, <2>7, <2>9, OwnedKeeps
<1>5. CASE TabGot(task) /\ task.tab \notin open
  <2>1. tasks' = tasks \ {task} /\ UNCHANGED <<adopted, held, owners, runs, released, closing, stopped, open, debugged, made>> /\ task.at = "get"
    BY <1>5 DEF TabGot, Replace1
  <2>2. closing' \subseteq AllTabs /\ debugged' \in [AllTabs -> Conns \cup {Nobody}]
    BY <1>0, <2>1 DEF TabsTypeOK
  <2> QED BY <1>2, <2>1, <2>2, StepEnds
<1> QED BY <1>3, <1>4, <1>5

\* A page of a run's tab opens another, which comes to the run if it is not
\* being released.
LEMMA PopupKeeps ==
  ASSUME TabsInv, NEW opener \in AllTabs, NEW tab \in AllTabs, PopupOpens(opener, tab)
  PROVE  TabsInv'
<1>0. TabsTypeOK /\ Rightly /\ (\A t \in tasks : TaskOK(t))
  BY DEF TabsInv
<1> DEFINE c == owners[opener]
<1>1. /\ c \in Conns /\ tab \in FreshTabs /\ made[tab] = Nobody /\ made' = [made EXCEPT ![tab] = c] /\ open' = open \cup {tab}
      /\ UNCHANGED <<runs, released, adopted, closing, stopped, debugged>>
  BY <1>0 DEF PopupOpens, TabsTypeOK
<1>2. /\ made' \in [FreshTabs -> Conns \cup {Nobody}] /\ made'[tab] # Nobody /\ adopted' \in [Conns -> SUBSET UserTabs]
      /\ \A t \in FreshTabs : made[t] # Nobody => made'[t] # Nobody
  BY <1>0, <1>1, TabsAssumption DEF TabsTypeOK
<1>3. CASE c \in runs
  <2> DEFINE u == Task("popup", c, tab, "attach", {})
  <2>1. u \in Tasks /\ u.op = "popup" /\ u.conn = c /\ u.tab = tab /\ u.at = "attach" /\ u.left = {}
    BY <1>1, NewTask DEF TaskOps, TaskAts
  <2>2. tasks' = tasks \cup {u} /\ Own(c, tab) /\ c \notin released
    BY <1>0, <1>3 DEF PopupOpens, Rightly
  <2> HIDE DEF u, c
  <2>3. u \in tasks' /\ (\A t \in tasks' : t \in tasks \/ t = u)
    BY <2>2
  <2>4. \A o, t : (Cared(tasks, o, t) => Cared(tasks', o, t)) /\ (Dropped(tasks, o, t) => Dropped(tasks', o, t))
    BY <2>2 DEF Cared, Dropped
  <2> QED BY <1>1, <1>2, <2>1, <2>2, <2>3, <2>4, OwnedKeeps
<1>4. CASE c \notin runs
  <2>1. UNCHANGED <<held, owners, tasks>>
    BY <1>4 DEF PopupOpens
  <2>2. \A t \in tasks' : TaskOK(t)'
    <3>1. \A t \in tasks : TaskOK(t)'
      BY <1>1, <1>2, <2>1, TasksStand
    <3> QED BY <2>1, <3>1
  <2>3. TabsTypeOK'
    BY <1>0, <1>1, <1>2, <2>1 DEF TabsTypeOK, AllTabs
  <2>4. Rightly'
    BY <1>0, <1>1, <1>2, <2>1 DEF Rightly
  <2>5. \A o \in Conns : tab \notin held[o]
    BY <1>0, <1>1 DEF Rightly
  <2>6. released \subseteq Conns
    BY <1>0 DEF TabsTypeOK
  <2>7. Claims'
    <3> HIDE DEF c
    <3>1. \A o \in released, t \in AllTabs : t \in held'[o] /\ t \in open' => t \in held[o] /\ t \in open
      BY <1>1, <2>1, <2>5, <2>6
    <3> QED BY <1>1, <2>1, <3>1, ClaimsKeep
  <2> QED BY <2>2, <2>3, <2>4, <2>7 DEF TabsInv
<1> QED BY <1>3, <1>4

LEMMA TabsStep ==
  ASSUME TabsInv, [TabsNext]_tabVars
  PROVE  TabsInv'
<1>1. CASE TabsWork
  <2>1. PICK task \in tasks : Step1(task)
    BY <1>1 DEF TabsWork
  <2> QED BY <2>1, ComingKeeps, AdoptingKeeps, ReleasingKeeps, ClosingTabsKeeps, DisowningKeeps DEF Step1
<1>2. CASE \E c \in Conns : Hello(c) \/ NewTab(c) \/ Release(c) \/ \E tab \in AllTabs : Adopt(c, tab) \/ CloseTab(c, tab)
  BY <1>2, AskingKeeps, ReleaseKeeps
<1>3. CASE \E tab \in AllTabs : UserCloses(tab) \/ \E opener \in AllTabs : PopupOpens(opener, tab)
  BY <1>3, ClosingTabsKeeps, PopupKeeps
<1>4. CASE UNCHANGED tabVars
  BY <1>4 DEF tabVars, TabsInv, TabsTypeOK, Rightly, TaskOK, Claims, Cared, Dropped
<1> QED BY <1>1, <1>2, <1>3, <1>4 DEF TabsNext

----------------------------------------------------------------------------
(* Chrome on this machine.                                                 *)

\* What a sweep has listed is of its own namespace; what it has judged dead is.
Judged ==
  \A s \in Owners, d \in Owners, far \in {"listed", "dead", "orphan"} : <<d, far>> \in sweeps[s] =>
    (s \in contained => d = s) /\ (s \notin contained => d \notin contained) /\ (far # "listed" => ~OwnerAlive(d))

\* What there is of a launch that has not spawned its Chrome, that runs, and
\* that has ended.
Launches ==
  \A o \in Owners :
    /\ step[o] = "idle" => o \notin profiles /\ ~keeps[o]
    /\ step[o] \in {"idle", "made"} => found[o] = None /\ earlier[o] = {}
    /\ step[o] \in {"idle", "made", "cleared"} => chrome[o] = "none"
    /\ step[o] \in Launched \cup {"closing", "failing"} /\ ~keeps[o] => o \in profiles

\* A Chrome that was there first listens or has exited, and no launch after it
\* finds its address.
Addresses1 ==
  /\ \A o \in Owners : earlier[o] \subseteq {c \in Owners : chrome[c] \in {"listening", "exited"}}
  /\ \A o \in Owners : ports[Profile(o)] \notin earlier[o]
  /\ NotAnEarlierChrome

ChromeInv == ChromeTypeOK /\ Judged /\ Launches /\ NothingLeftBehind /\ Addresses1

LEMMA ChromePromises ==
  ASSUME ChromeInv
  PROVE  ChromeTypeOK /\ InUseNotSwept /\ NothingLeftBehind /\ NotAnEarlierChrome
<1>1. InUseNotSwept
  BY DEF ChromeInv, Judged, Launches, InUseNotSwept
<1> QED BY <1>1 DEF ChromeInv, Addresses1

LEMMA ChromeStarts ==
  ASSUME ChromeInit
  PROVE  ChromeInv
<1>1. ChromeTypeOK
  BY DEF ChromeInit, ChromeTypeOK
<1>2. Judged
  BY DEF ChromeInit, Judged
<1>3. Launches
  BY DEF ChromeInit, Launches, Launched
<1>4. NothingLeftBehind
  BY DEF ChromeInit, NothingLeftBehind
<1>5. Addresses1
  BY DEF ChromeInit, Addresses1, NotAnEarlierChrome
<1> QED BY <1>1, <1>2, <1>3, <1>4, <1>5 DEF ChromeInv

Steps == {"idle", "closing", "closed", "failing", "failed", "killed", "gone"} \cup Launched
\* An owner moves; what sweeps have judged stays judged.
LEMMA OwnerSteps ==
  ASSUME ChromeInv, NEW o \in Owners, NEW to \in Steps, step' = [step EXCEPT ![o] = to], UNCHANGED <<contained, locks>>,
         step[o] \notin {"killed", "gone"} \/ to \in {"killed", "gone"},
         \A s, d \in Owners, far \in {"listed", "dead", "orphan"} : <<d, far>> \in sweeps'[s] => <<d, far>> \in sweeps[s]
  PROVE  Judged'
<1>1. step \in [Owners -> Steps]
  BY DEF ChromeInv, ChromeTypeOK, Steps
<1>2. \A d \in Owners : ~OwnerAlive(d) => ~OwnerAlive(d)'
  BY <1>1 DEF OwnerAlive
<1>3. ASSUME NEW s \in Owners, NEW d \in Owners, NEW far \in {"listed", "dead", "orphan"}, <<d, far>> \in sweeps'[s]
      PROVE  (s \in contained' => d = s) /\ (s \notin contained' => d \notin contained') /\ (far # "listed" => ~OwnerAlive(d)')
  <2>1. <<d, far>> \in sweeps[s]
    BY <1>3
  <2>2. (s \in contained => d = s) /\ (s \notin contained => d \notin contained)
    BY <2>1 DEF ChromeInv, Judged
  <2>3. far # "listed" => ~OwnerAlive(d)
    BY <2>1 DEF ChromeInv, Judged
  <2> QED BY <1>2, <2>2, <2>3
<1> QED BY <1>3 DEF Judged

LEMMA LaunchingKeeps ==
  ASSUME ChromeInv, NEW o \in Owners,
         NotInstalled(o) \/ MakeProfile(o) \/ KeepProfile(o) \/ Spawn(o) \/ StartFails(o) \/ PollExited(o) \/ PollGivesUp(o) \/ Close(o)
  PROVE  ChromeInv'
<1>0. ChromeTypeOK /\ Judged /\ Launches /\ NothingLeftBehind /\ Addresses1 /\ NotAnEarlierChrome
  BY DEF ChromeInv, Addresses1
<1>1. PICK to \in Steps \ {"killed", "gone", "closed", "idle", "cleared", "ready"} : step' = [step EXCEPT ![o] = to]
  BY DEF NotInstalled, MakeProfile, KeepProfile, Spawn, StartFails, PollExited, PollGivesUp, Close, Steps, Launched
<1>2. step \in [Owners -> Steps] /\ step'[o] = to /\ \A q \in Owners : q # o => step'[q] = step[q]
  BY <1>0, <1>1 DEF ChromeTypeOK, Steps
<1>3. step[o] \in {"idle", "made", "cleared", "waiting", "ready"} /\ UNCHANGED <<contained, locks, ports, found, earlier>>
  BY DEF NotInstalled, MakeProfile, KeepProfile, Spawn, StartFails, PollExited, PollGivesUp, Close
<1>4. ChromeTypeOK'
  <2>1. keeps' \in [Owners -> BOOLEAN]
    BY <1>0 DEF NotInstalled, MakeProfile, KeepProfile, Spawn, StartFails, PollExited, PollGivesUp, Close, ChromeTypeOK
  <2>2. chrome' \in [Owners -> {"none", "starting", "locked", "listening", "exited"}] /\ profiles' \subseteq Owners
    BY <1>0 DEF NotInstalled, MakeProfile, KeepProfile, Spawn, StartFails, PollExited, PollGivesUp, Close, ChromeTypeOK
  <2>3. sweeps' \in [Owners -> SUBSET (Owners \X {"list", "listed", "dead", "orphan"})]
    <3>1. sweeps' = sweeps \/ sweeps' = [sweeps EXCEPT ![o] = {<<o, "list">>}]
      BY DEF NotInstalled, MakeProfile, KeepProfile, Spawn, StartFails, PollExited, PollGivesUp, Close
    <3>2. {<<o, "list">>} \in SUBSET (Owners \X {"list", "listed", "dead", "orphan"})
      OBVIOUS
    <3> QED BY <1>0, <3>1, <3>2 DEF ChromeTypeOK
  <2>4. step' \in [Owners -> Steps]
    BY <1>1, <1>2
  <2> QED BY <1>0, <1>3, <2>1, <2>2, <2>3, <2>4 DEF ChromeTypeOK, Steps
<1>5. Judged'
  <2>1. \A s, d \in Owners, far \in {"listed", "dead", "orphan"} : <<d, far>> \in sweeps'[s] => <<d, far>> \in sweeps[s]
    BY <1>0 DEF NotInstalled, MakeProfile, KeepProfile, Spawn, StartFails, PollExited, PollGivesUp, Close, ChromeTypeOK
  <2> QED BY <1>1, <1>3, <2>1, OwnerSteps
<1>6. /\ \A q \in Owners : q # o => keeps'[q] = keeps[q] /\ chrome'[q] = chrome[q] /\ (q \in profiles' <=> q \in profiles)
      /\ to = "made" => chrome'[o] = chrome[o] /\ step[o] = "idle" /\ (keeps'[o] \/ o \in profiles')
      /\ to = "waiting" => step[o] = "cleared" /\ chrome'[o] = "starting" /\ keeps'[o] = keeps[o] /\ profiles' = profiles
      /\ to \notin {"made", "waiting"} => chrome' = chrome /\ keeps' = keeps /\ profiles' = profiles /\ (to = "failed" => step[o] = "idle")
      /\ to # "waiting" => chrome' = chrome
  <2>1. CASE NotInstalled(o) \/ StartFails(o) \/ PollExited(o) \/ PollGivesUp(o) \/ Close(o)
    BY <1>2, <2>1 DEF NotInstalled, StartFails, PollExited, PollGivesUp, Close, ChromeTypeOK
  <2>2. CASE MakeProfile(o)
    BY <1>0, <1>2, <2>2 DEF MakeProfile, ChromeTypeOK
  <2>3. CASE KeepProfile(o)
    BY <1>0, <1>2, <2>3 DEF KeepProfile, ChromeTypeOK
  <2>4. CASE Spawn(o)
    BY <1>0, <1>2, <2>4 DEF Spawn, ChromeTypeOK
  <2> QED BY <2>1, <2>2, <2>3, <2>4
<1>7. Launches' /\ NothingLeftBehind'
  <2>0. to \in {"failing", "closing"} => step[o] # "idle"
    BY <1>2 DEF NotInstalled, MakeProfile, KeepProfile, Spawn, StartFails, PollExited, PollGivesUp, Close
  <2>1. Launches'
    <3>1. to \in {"made", "waiting", "failing", "failed", "closing"}
      BY <1>1 DEF Steps, Launched
    <3>2. ASSUME NEW q \in Owners, q # o
          PROVE  /\ step'[q] = "idle" => q \notin profiles' /\ ~keeps'[q]
                 /\ step'[q] \in {"idle", "made"} => found'[q] = None /\ earlier'[q] = {}
                 /\ step'[q] \in {"idle", "made", "cleared"} => chrome'[q] = "none"
                 /\ step'[q] \in Launched \cup {"closing", "failing"} /\ ~keeps'[q] => q \in profiles'
      BY <1>0, <1>2, <1>3, <1>6, <3>2 DEF Launches
    <3>3. /\ step'[o] \in {"idle", "made"} => found'[o] = None /\ earlier'[o] = {}
          /\ step'[o] \in {"idle", "made", "cleared"} => chrome'[o] = "none"
      BY <1>0, <1>2, <1>3, <1>6, <3>1 DEF Launches
    <3>4. step'[o] \in Launched \cup {"closing", "failing"} /\ ~keeps'[o] => o \in profiles'
      BY <1>0, <1>2, <1>3, <1>6, <3>1, <2>0 DEF Launches, Launched
    <3> QED BY <1>2, <3>1, <3>2, <3>3, <3>4 DEF Launches
  <2>2. NothingLeftBehind'
    BY <1>0, <1>2, <1>6 DEF Launches, NothingLeftBehind
  <2> QED BY <2>1, <2>2
<1>8. Addresses1'
  <2>1. chrome'[o] # chrome[o] => chrome[o] = "none"
    BY <1>0, <1>6 DEF Launches
  <2>2. \A q \in Owners : earlier'[q] \subseteq {c \in Owners : chrome'[c] \in {"listening", "exited"}}
    BY <1>0, <1>3, <1>6, <2>1 DEF Addresses1
  <2>3. \A q \in Owners : Profile(q)' = Profile(q) \/ (q = o /\ step[o] = "idle")
    BY <1>0, <1>2, <1>6 DEF Profile
  <2>4. \A q \in Owners : ports'[Profile(q)'] \notin earlier'[q]
    BY <1>0, <1>3, <2>3 DEF Addresses1, Launches
  <2> QED BY <1>0, <1>3, <2>2, <2>4 DEF Addresses1, NotAnEarlierChrome
<1> QED BY <1>4, <1>5, <1>7, <1>8 DEF ChromeInv

LEMMA PortsKeep ==
  ASSUME ChromeInv, NEW o \in Owners, ClearPort(o) \/ PollAnswered(o)
  PROVE  ChromeInv'
<1>0. ChromeTypeOK /\ Judged /\ Launches /\ NothingLeftBehind /\ Addresses1 /\ NotAnEarlierChrome
  BY DEF ChromeInv, Addresses1
<1>1. PICK to \in {"cleared", "ready"} : step' = [step EXCEPT ![o] = to] /\ (to = "cleared" => step[o] = "made") /\ (to = "ready" => step[o] = "waiting")
  BY DEF ClearPort, PollAnswered
<1>2. step \in [Owners -> Steps] /\ step'[o] = to /\ to \in Steps /\ \A q \in Owners : q # o => step'[q] = step[q]
  BY <1>0, <1>1 DEF ChromeTypeOK, Steps, Launched
<1>3. UNCHANGED <<contained, keeps, chrome, profiles, locks, sweeps>>
  BY DEF ClearPort, PollAnswered
<1>4. Profile(o) \in Dirs /\ \A q \in Owners : Profile(q)' = Profile(q) /\ Profile(q) \in Dirs
  BY <1>3 DEF Profile, Dirs
<1>5. ports' \in [Dirs -> Owners \cup {None}] /\ found' \in [Owners -> Owners \cup {None}] /\ earlier' \in [Owners -> SUBSET Owners]
  BY <1>0, <1>4 DEF ClearPort, PollAnswered, ChromeTypeOK
<1>6. ChromeTypeOK'
  <2>1. step' \in [Owners -> Steps]
    BY <1>1, <1>2
  <2> QED BY <1>0, <1>3, <1>5, <2>1 DEF ChromeTypeOK, Steps
<1>7. Judged'
  BY <1>1, <1>2, <1>3, OwnerSteps
<1>8. Launches'
  <2>1. \A q \in Owners : q # o => found'[q] = found[q] /\ earlier'[q] = earlier[q]
    BY <1>0 DEF ClearPort, PollAnswered, ChromeTypeOK
  <2> QED BY <1>0, <1>1, <1>2, <1>3, <2>1 DEF Launches, Launched
<1>9. NothingLeftBehind'
  BY <1>0, <1>1, <1>2, <1>3 DEF NothingLeftBehind
<1>10. Addresses1'
  <2>1. CASE ClearPort(o)
    <3>1. /\ earlier'[o] = {c \in Owners : chrome[c] = "listening"} /\ found' = found /\ found[o] = None
          /\ \A q \in Owners : q # o => earlier'[q] = earlier[q]
      BY <1>0, <2>1 DEF ClearPort, ChromeTypeOK, Launches
    <3>2. \A q \in Owners : ports'[Profile(q)] = IF Profile(q) = Profile(o) THEN None ELSE ports[Profile(q)]
      BY <1>0, <1>4, <2>1 DEF ClearPort, ChromeTypeOK
    <3>3. None \notin Owners
      BY OwnersAssumption DEF None
    <3>4. \A q \in Owners : earlier'[q] \subseteq Owners
      BY <1>5
    <3>5. \A q \in Owners : earlier'[q] \subseteq {c \in Owners : chrome'[c] \in {"listening", "exited"}}
      BY <1>0, <1>3, <3>1 DEF Addresses1
    <3>6. \A q \in Owners : ports'[Profile(q)] \notin earlier'[q]
      BY <1>0, <3>1, <3>2, <3>3, <3>4 DEF Addresses1
    <3>7. \A q \in Owners : found'[q] \notin earlier'[q]
      BY <1>0, <3>1, <3>3, <3>4 DEF NotAnEarlierChrome
    <3> QED BY <1>4, <3>5, <3>6, <3>7 DEF Addresses1, NotAnEarlierChrome
  <2>2. CASE PollAnswered(o)
    <3>1. found'[o] = ports[Profile(o)] /\ UNCHANGED <<ports, earlier>> /\ \A q \in Owners : q # o => found'[q] = found[q]
      BY <1>0, <2>2 DEF PollAnswered, ChromeTypeOK
    <3> QED BY <1>0, <1>3, <1>4, <3>1 DEF Addresses1, NotAnEarlierChrome
  <2> QED BY <2>1, <2>2
<1> QED BY <1>6, <1>7, <1>8, <1>9, <1>10 DEF ChromeInv

LEMMA EndingsKeep ==
  ASSUME ChromeInv, NEW o \in Owners, CloseWithin(o) \/ DropChrome(o) \/ Killed(o)
  PROVE  ChromeInv'
<1>0. ChromeTypeOK /\ Judged /\ Launches /\ NothingLeftBehind /\ Addresses1 /\ NotAnEarlierChrome
  BY DEF ChromeInv, Addresses1
<1>1. PICK to \in {"closed", "failed", "gone", "killed"} :
        /\ step' = [step EXCEPT ![o] = to] /\ step[o] \notin {"killed", "gone", "idle"}
        /\ to = "gone" => step[o] \in {"closed", "failed"}
        /\ to \in {"closed", "failed"} => CloseWithin(o) \/ DropChrome(o)
        /\ to \in {"gone", "killed"} => Killed(o)
  <2>1. CASE CloseWithin(o)
    BY <2>1 DEF CloseWithin
  <2>2. CASE DropChrome(o)
    BY <2>2 DEF DropChrome, Launched
  <2>3. CASE Killed(o)
    <3>1. step' = [step EXCEPT ![o] = IF step[o] \in {"closed", "failed"} THEN "gone" ELSE "killed"]
      BY <2>3 DEF Killed
    <3> QED BY <2>3, <3>1 DEF Killed
  <2> QED BY <2>1, <2>2, <2>3
<1>2. step \in [Owners -> Steps] /\ step'[o] = to /\ to \in Steps /\ \A q \in Owners : q # o => step'[q] = step[q]
  BY <1>0, <1>1 DEF ChromeTypeOK, Steps, Launched
<1>3. UNCHANGED <<contained, keeps, locks, ports, found, earlier>>
  BY DEF CloseWithin, DropChrome, Killed
<1>4. /\ \A q \in Owners : q # o => chrome'[q] = chrome[q] /\ (q \in profiles' <=> q \in profiles)
      /\ chrome'[o] \in {chrome[o], "exited"} /\ (chrome'[o] # chrome[o] => Alive(o))
      /\ to \in {"closed", "failed"} => chrome'[o] \in {"none", "exited"} /\ (~keeps[o] => o \notin profiles')
      /\ to \in {"gone", "killed"} => chrome' = chrome /\ profiles' = profiles
  <2>1. CASE to \in {"closed", "failed"}
    <3>1. chrome' = [chrome EXCEPT ![o] = IF Alive(o) THEN "exited" ELSE chrome[o]] /\ profiles' = IF keeps[o] THEN profiles ELSE profiles \ {o}
      BY <1>1, <2>1 DEF CloseWithin, DropChrome
    <3>2. chrome \in [Owners -> {"none", "starting", "locked", "listening", "exited"}]
      BY <1>0 DEF ChromeTypeOK
    <3> QED BY <2>1, <3>1, <3>2 DEF Alive
  <2>2. CASE to \in {"gone", "killed"}
    BY <1>1, <2>2 DEF Killed
  <2> QED BY <2>1, <2>2
<1>5. sweeps' = sweeps \/ sweeps' = [sweeps EXCEPT ![o] = {}]
  BY DEF CloseWithin, DropChrome, Killed
<1>6. ChromeTypeOK'
  <2>1. step' \in [Owners -> Steps]
    BY <1>1, <1>2
  <2>2. chrome' \in [Owners -> {"none", "starting", "locked", "listening", "exited"}] /\ profiles' \subseteq Owners
    BY <1>0 DEF CloseWithin, DropChrome, Killed, ChromeTypeOK
  <2>3. sweeps' \in [Owners -> SUBSET (Owners \X {"list", "listed", "dead", "orphan"})]
    BY <1>0, <1>5 DEF ChromeTypeOK
  <2> QED BY <1>0, <1>3, <2>1, <2>2, <2>3 DEF ChromeTypeOK, Steps
<1>7. Judged'
  <2>1. \A s, d \in Owners, far \in {"listed", "dead", "orphan"} : <<d, far>> \in sweeps'[s] => <<d, far>> \in sweeps[s]
    BY <1>0, <1>5 DEF ChromeTypeOK
  <2> QED BY <1>1, <1>2, <1>3, <2>1, OwnerSteps
<1>8. Launches'
  BY <1>0, <1>1, <1>2, <1>3, <1>4 DEF Launches, Launched
<1>9. NothingLeftBehind'
  BY <1>0, <1>1, <1>2, <1>3, <1>4 DEF NothingLeftBehind
<1>10. Addresses1'
  <2>1. \A q \in Owners : Profile(q)' = Profile(q)
    BY <1>3 DEF Profile
  <2>2. \A q \in Owners : earlier'[q] \subseteq {c \in Owners : chrome'[c] \in {"listening", "exited"}}
    BY <1>0, <1>3, <1>4 DEF Addresses1
  <2> QED BY <1>0, <1>3, <2>1, <2>2 DEF Addresses1, NotAnEarlierChrome
<1> QED BY <1>6, <1>7, <1>8, <1>9, <1>10 DEF ChromeInv

\* What Chrome does of itself.
LEMMA ItselfKeeps ==
  ASSUME ChromeInv, NEW o \in Owners, ChromeLocks(o) \/ ChromeListens(o) \/ ChromeExits(o)
  PROVE  ChromeInv'
<1>0. ChromeTypeOK /\ Judged /\ Launches /\ NothingLeftBehind /\ Addresses1 /\ NotAnEarlierChrome
  BY DEF ChromeInv, Addresses1
<1>1. PICK to \in {"locked", "listening", "exited"} :
        /\ chrome' = [chrome EXCEPT ![o] = to]
        /\ to = "locked" => chrome[o] = "starting"
        /\ to = "listening" => chrome[o] = "locked" /\ ports' = [ports EXCEPT ![Profile(o)] = o]
        /\ to # "listening" => ports' = ports
        /\ chrome[o] \notin {"none", "exited"}
  BY DEF ChromeLocks, ChromeListens, ChromeExits, Alive
<1>2. UNCHANGED <<contained, step, keeps, profiles, found, sweeps, earlier>>
  BY DEF ChromeLocks, ChromeListens, ChromeExits
<1>3. chrome'[o] = to /\ \A q \in Owners : q # o => chrome'[q] = chrome[q]
  BY <1>0, <1>1 DEF ChromeTypeOK
<1>4. \A q \in Owners : Profile(q)' = Profile(q) /\ Profile(q) \in Dirs
  BY <1>2 DEF Profile, Dirs
<1>5. ChromeTypeOK'
  <2>1. chrome' \in [Owners -> {"none", "starting", "locked", "listening", "exited"}]
    BY <1>0, <1>1 DEF ChromeTypeOK
  <2>2. locks' \in [Dirs -> Owners \cup {None}]
    BY <1>0, <1>4 DEF ChromeLocks, ChromeListens, ChromeExits, ChromeTypeOK
  <2>3. ports' \in [Dirs -> Owners \cup {None}]
    BY <1>0, <1>1, <1>4 DEF ChromeTypeOK
  <2> QED BY <1>0, <1>2, <2>1, <2>2, <2>3 DEF ChromeTypeOK
<1>6. Judged'
  <2>1. \A d : OwnerAlive(d)' <=> OwnerAlive(d)
    BY <1>2 DEF OwnerAlive
  <2> QED BY <1>0, <1>2, <2>1 DEF Judged
<1>7. Launches'
  BY <1>0, <1>1, <1>2, <1>3 DEF Launches
<1>8. NothingLeftBehind'
  BY <1>0, <1>1, <1>2, <1>3 DEF NothingLeftBehind
<1>9. Addresses1'
  <2>1. \A q \in Owners : earlier'[q] \subseteq {c \in Owners : chrome'[c] \in {"listening", "exited"}}
    BY <1>0, <1>1, <1>2, <1>3 DEF Addresses1
  <2>2. to = "listening" => \A q \in Owners : o \notin earlier[q]
    BY <1>0, <1>1 DEF Addresses1
  <2>3. \A q \in Owners : ports'[Profile(q)] = ports[Profile(q)] \/ (to = "listening" /\ ports'[Profile(q)] = o)
    BY <1>0, <1>1, <1>4 DEF ChromeTypeOK
  <2>4. \A q \in Owners : ports'[Profile(q)] \notin earlier'[q]
    BY <1>0, <1>2, <2>2, <2>3 DEF Addresses1
  <2> QED BY <1>0, <1>2, <1>4, <2>1, <2>4 DEF Addresses1, NotAnEarlierChrome
<1> QED BY <1>5, <1>6, <1>7, <1>8, <1>9 DEF ChromeInv

\* A sweep's step: what it adds to its list it has judged.
LEMMA SweepingKeeps ==
  ASSUME ChromeInv, NEW o \in Owners, NEW L \in SUBSET (Owners \X {"list", "listed", "dead", "orphan"}), sweeps' = [sweeps EXCEPT ![o] = L],
         UNCHANGED <<contained, step, keeps, chrome, locks, ports, found, earlier>>, profiles' \subseteq profiles,
         \A d \in Owners, far \in {"listed", "dead", "orphan"} : <<d, far>> \in L =>
           (o \in contained => d = o) /\ (o \notin contained => d \notin contained) /\ (far # "listed" => ~OwnerAlive(d)),
         \A d \in profiles \ profiles' : ~OwnerAlive(d)
  PROVE  ChromeInv'
<1>0. ChromeTypeOK /\ Judged /\ Launches /\ NothingLeftBehind /\ Addresses1 /\ NotAnEarlierChrome
  BY DEF ChromeInv, Addresses1
<1>1. ChromeTypeOK'
  BY <1>0 DEF ChromeTypeOK
<1>2. sweeps'[o] = L /\ \A s \in Owners : s # o => sweeps'[s] = sweeps[s]
  BY <1>0 DEF ChromeTypeOK
<1>3. \A d : OwnerAlive(d)' <=> OwnerAlive(d)
  BY DEF OwnerAlive
<1>4. Judged'
  <2> SUFFICES ASSUME NEW s \in Owners, NEW d \in Owners, NEW far \in {"listed", "dead", "orphan"}, <<d, far>> \in sweeps'[s]
               PROVE  (s \in contained => d = s) /\ (s \notin contained => d \notin contained) /\ (far # "listed" => ~OwnerAlive(d))
    BY <1>3 DEF Judged
  <2>1. CASE s = o
    BY <1>2, <2>1
  <2>2. CASE s # o
    BY <1>0, <1>2, <2>2 DEF Judged
  <2> QED BY <2>1, <2>2
<1>5. Launches'
  BY <1>0 DEF Launches, OwnerAlive, Launched
<1>6. NothingLeftBehind'
  BY <1>0 DEF NothingLeftBehind
<1>7. Addresses1'
  <2>1. \A q \in Owners : Profile(q)' = Profile(q)
    BY DEF Profile
  <2> QED BY <1>0, <2>1 DEF Addresses1, NotAnEarlierChrome
<1> QED BY <1>1, <1>4, <1>5, <1>6, <1>7 DEF ChromeInv

LEMMA SweepsKeep ==
  ASSUME ChromeInv, NEW o \in Owners, NEW d \in Owners, SweepList(o) \/ SweepOwner(o, d) \/ SweepLock(o, d) \/ SweepRemoves(o, d)
  PROVE  ChromeInv'
<1>0. ChromeTypeOK /\ Judged
  BY DEF ChromeInv
<1>1. sweeps[o] \in SUBSET (Owners \X {"list", "listed", "dead", "orphan"}) /\ profiles \subseteq Owners
  BY <1>0 DEF ChromeTypeOK
<1>2. \A e \in Owners, far \in {"listed", "dead", "orphan"} : <<e, far>> \in sweeps[o] =>
        (o \in contained => e = o) /\ (o \notin contained => e \notin contained) /\ (far # "listed" => ~OwnerAlive(e))
  BY <1>0 DEF Judged
<1>3. CASE SweepList(o)
  <2> DEFINE L == {<<e, "listed">> : e \in IF o \in contained THEN profiles \cap {o} ELSE profiles \ contained}
  <2>1. L \in SUBSET (Owners \X {"list", "listed", "dead", "orphan"})
    BY <1>1
  <2>2. \A e \in Owners, far \in {"listed", "dead", "orphan"} : <<e, far>> \in L =>
          (o \in contained => e = o) /\ (o \notin contained => e \notin contained) /\ far = "listed"
    OBVIOUS
  <2>3. sweeps' = [sweeps EXCEPT ![o] = L] /\ UNCHANGED <<contained, step, keeps, chrome, profiles, locks, ports, found, earlier>>
    BY <1>3 DEF SweepList
  <2> HIDE DEF L
  <2> QED BY <2>1, <2>2, <2>3, SweepingKeeps
<1>4. ASSUME NEW from \in {"listed", "dead", "orphan"}, SweepSpares(o, d, from), profiles' \subseteq profiles, \A e \in profiles \ profiles' : ~OwnerAlive(e),
             UNCHANGED <<contained, step, keeps, chrome, locks, ports, found, earlier>>
      PROVE  ChromeInv'
  <2> DEFINE L == sweeps[o] \ {<<d, from>>}
  <2>1. L \in SUBSET (Owners \X {"list", "listed", "dead", "orphan"}) /\ \A x \in L : x \in sweeps[o]
    BY <1>1
  <2>2. sweeps' = [sweeps EXCEPT ![o] = L]
    BY <1>4 DEF SweepSpares
  <2> HIDE DEF L
  <2>3. \A e \in Owners, far \in {"listed", "dead", "orphan"} : <<e, far>> \in L =>
          (o \in contained => e = o) /\ (o \notin contained => e \notin contained) /\ (far # "listed" => ~OwnerAlive(e))
    BY <1>2, <2>1
  <2> QED BY <1>4, <2>1, <2>2, <2>3, SweepingKeeps
<1>5. ASSUME NEW from \in {"listed", "dead"}, NEW to \in {"dead", "orphan"}, SweepAdvance(o, d, from, to), <<d, from>> \in sweeps[o], ~OwnerAlive(d),
             UNCHANGED <<contained, step, keeps, chrome, profiles, locks, ports, found, earlier>>
      PROVE  ChromeInv'
  <2> DEFINE L == (sweeps[o] \ {<<d, from>>}) \cup {<<e, to>> : e \in {d} \cap profiles}
  <2>1. L \in SUBSET (Owners \X {"list", "listed", "dead", "orphan"}) /\ \A x \in L : x \in sweeps[o] \/ x = <<d, to>>
    BY <1>1
  <2>2. sweeps' = [sweeps EXCEPT ![o] = L]
    BY <1>5 DEF SweepAdvance
  <2> HIDE DEF L
  <2>3. (o \in contained => d = o) /\ (o \notin contained => d \notin contained)
    BY <1>2, <1>5
  <2>4. \A e \in Owners, far \in {"listed", "dead", "orphan"} : <<e, far>> \in L =>
          (o \in contained => e = o) /\ (o \notin contained => e \notin contained) /\ (far # "listed" => ~OwnerAlive(e))
    BY <1>2, <1>5, <2>1, <2>3
  <2> QED BY <1>5, <2>1, <2>2, <2>4, SweepingKeeps
<1>6. CASE SweepOwner(o, d)
  <2>1. SweepSpares(o, d, "listed") \/ (SweepAdvance(o, d, "listed", "dead") /\ ~OwnerAlive(d))
    <3>1. (o \in contained => d = o) /\ (o \notin contained => d \notin contained)
      BY <1>2, <1>6 DEF SweepOwner
    <3>2. d = o \/ {d, o} \cap contained = {}
      BY <3>1
    <3> QED BY <1>6, <3>2 DEF SweepOwner
  <2>2. <<d, "listed">> \in sweeps[o] /\ UNCHANGED <<contained, step, keeps, chrome, profiles, locks, ports, found, earlier>>
    BY <1>6 DEF SweepOwner
  <2> QED BY <1>4, <1>5, <2>1, <2>2
<1>7. CASE SweepLock(o, d)
  <2>1. SweepSpares(o, d, "dead") \/ SweepAdvance(o, d, "dead", "orphan")
    BY <1>7 DEF SweepLock
  <2>2. <<d, "dead">> \in sweeps[o] /\ UNCHANGED <<contained, step, keeps, chrome, profiles, locks, ports, found, earlier>>
    BY <1>7 DEF SweepLock
  <2>3. ~OwnerAlive(d)
    BY <1>2, <2>2
  <2> QED BY <1>4, <1>5, <2>1, <2>2, <2>3
<1>8. CASE SweepRemoves(o, d)
  <2>1. SweepSpares(o, d, "orphan") /\ <<d, "orphan">> \in sweeps[o] /\ profiles' = profiles \ {d}
        /\ UNCHANGED <<contained, step, keeps, chrome, locks, ports, found, earlier>>
    BY <1>8 DEF SweepRemoves
  <2>2. ~OwnerAlive(d)
    BY <1>2, <2>1
  <2> QED BY <1>4, <2>1, <2>2
<1> QED BY <1>3, <1>6, <1>7, <1>8

LEMMA ChromeStep ==
  ASSUME ChromeInv, [ChromeNext]_chromeVars
  PROVE  ChromeInv'
<1>1. CASE ChromeNext
  BY <1>1, LaunchingKeeps, PortsKeep, EndingsKeep, ItselfKeeps, SweepsKeep DEF ChromeNext
<1>2. CASE UNCHANGED chromeVars
  <2>1. UNCHANGED <<contained, step, keeps, chrome, profiles, locks, ports, found, sweeps, earlier>>
    BY <1>2 DEF chromeVars
  <2>2. \A o : (OwnerAlive(o)' <=> OwnerAlive(o)) /\ Profile(o)' = Profile(o)
    BY <2>1 DEF OwnerAlive, Profile
  <2>3. Judged' /\ Launches'
    BY <2>1, <2>2 DEF ChromeInv, Judged, Launches
  <2>4. ChromeTypeOK' /\ NothingLeftBehind' /\ Addresses1'
    BY <2>1, <2>2 DEF ChromeInv, ChromeTypeOK, NothingLeftBehind, Addresses1, NotAnEarlierChrome
  <2> QED BY <2>3, <2>4 DEF ChromeInv
<1> QED BY <1>1, <1>2

----------------------------------------------------------------------------
(* A page read over HTTP.                                                  *)

\* Where the blocks start, and the text up to the end of each, as equations.
StartsOf(lengths, begins) ==
  begins = [k \in 1..Len(lengths) |-> IF k = 1 THEN 0 ELSE begins[k - 1] + lengths[k - 1] + 2]
TextsOf(lengths, upTo) ==
  upTo = [k \in 0..Len(lengths) |-> IF k = 0 THEN <<>> ELSE upTo[k - 1] \o [c \in 1..lengths[k] |-> k] \o <<0, 0>>]

\* They have a solution, the one the definitions choose.
LEMMA StartsHold ==
  ASSUME NEW lengths \in Seq(Nat)
  PROVE  \E begins : StartsOf(lengths, begins) /\ begins \in [1..Len(lengths) -> Nat] /\ \A i : StartOf(lengths, i) = begins[i]
<1> DEFINE n == Len(lengths)
           Next1(f, k) == IF k = 1 THEN 0 ELSE f[k - 1] + lengths[k - 1] + 2
           Upto(f, m) == \A k \in 1..n : k <= m => f[k] = Next1(f, k)
           Shown == {m \in Nat : m <= n => \E f \in [1..n -> Nat] : Upto(f, m)}
<1>0. n \in Nat /\ \A k \in 1..n : lengths[k] \in Nat
  OBVIOUS
<1>1. Shown = Nat
  <2>1. 0 \in Shown
    <3>1. [k \in 1..n |-> 0] \in [1..n -> Nat] /\ Upto([k \in 1..n |-> 0], 0)
      BY <1>0
    <3> QED BY <3>1
  <2>2. ASSUME NEW m \in Shown PROVE m + 1 \in Shown
    <3> HIDE DEF Upto
    <3>0. m \in Nat /\ m + 1 \in Nat /\ (m <= n => \E f \in [1..n -> Nat] : Upto(f, m))
      OBVIOUS
    <3> USE DEF Upto
    <3>1. SUFFICES ASSUME m + 1 <= n PROVE \E f \in [1..n -> Nat] : Upto(f, m + 1)
      BY <3>0
    <3>2. PICK f \in [1..n -> Nat] : Upto(f, m)
      BY <1>0, <3>0, <3>1
    <3>3. m \in Nat /\ m + 1 \in 1..n /\ (m + 1 # 1 => m \in 1..n /\ lengths[m] \in Nat)
      BY <1>0, <3>0, <3>1
    <3>4. Next1(f, m + 1) \in Nat
      BY <3>2, <3>3
    <3> DEFINE g == [f EXCEPT ![m + 1] = Next1(f, m + 1)]
    <3>5. g \in [1..n -> Nat] /\ g[m + 1] = Next1(f, m + 1) /\ \A k \in 1..n : k # m + 1 => g[k] = f[k]
      BY <3>2, <3>3, <3>4
    <3> HIDE DEF g
    <3>6. Upto(g, m + 1)
      <4>1. ASSUME NEW k \in 1..n, k <= m + 1 PROVE g[k] = Next1(g, k)
        <5>1. CASE k = 1
          BY <3>2, <3>3, <3>5, <5>1, <4>1, <1>0
        <5>2. CASE k # 1
          <6>1. k - 1 \in 1..n /\ k - 1 # m + 1 /\ g[k - 1] = f[k - 1]
            BY <1>0, <3>3, <3>5, <4>1, <5>2
          <6>2. CASE k = m + 1
            BY <3>5, <5>2, <6>1, <6>2
          <6>3. CASE k # m + 1
            BY <3>2, <3>3, <3>5, <4>1, <5>2, <6>1, <6>3
          <6> QED BY <6>2, <6>3
        <5> QED BY <5>1, <5>2
      <4> QED BY <4>1
    <3> QED BY <3>5, <3>6
  <2> HIDE DEF Shown
  <2>3. Shown \in SUBSET Nat
    BY DEF Shown
  <2> QED BY <2>1, <2>2, <2>3, NatsFromZero
<1>2. PICK f \in [1..n -> Nat] : Upto(f, n)
  BY <1>0, <1>1
<1>3. StartsOf(lengths, f)
  BY <1>0, <1>2 DEF StartsOf
<1> DEFINE begins == CHOOSE x : StartsOf(lengths, x)
<1>4. StartsOf(lengths, begins)
  BY <1>3
<1>5. \A i : StartOf(lengths, i) = begins[i]
  BY DEF StartOf, StartsOf
<1> HIDE DEF begins
<1>6. begins = f
  <2> DEFINE Same == {m \in Nat : m \in 1..n => begins[m] = f[m]}
  <2>1. 0 \in Same
    OBVIOUS
  <2>2. ASSUME NEW m \in Same PROVE m + 1 \in Same
    <3>1. SUFFICES ASSUME m + 1 \in 1..n PROVE begins[m + 1] = f[m + 1]
      OBVIOUS
    <3>2. begins[m + 1] = Next1(begins, m + 1) /\ f[m + 1] = Next1(f, m + 1)
      BY <1>3, <1>4, <3>1 DEF StartsOf
    <3>3. CASE m = 0
      BY <3>2, <3>3
    <3>4. CASE m # 0
      <4>1. m \in 1..n /\ (m + 1) - 1 = m
        BY <1>0, <3>1, <3>4
      <4>2. begins[m] = f[m]
        BY <4>1
      <4> QED BY <3>2, <4>1, <4>2
    <3> QED BY <3>3, <3>4
  <2> HIDE DEF Same
  <2>3. Same = Nat
    <3>1. Same \in SUBSET Nat
      BY DEF Same
    <3> QED BY <2>1, <2>2, <3>1, NatsFromZero
  <2>4. \A m \in 1..n : begins[m] = f[m]
    BY <1>0, <2>3 DEF Same
  <2>5. begins = [k \in 1..n |-> begins[k]] /\ f = [k \in 1..n |-> f[k]]
    BY <1>3, <1>4 DEF StartsOf
  <2> QED BY <2>4, <2>5
<1> QED BY <1>4, <1>5, <1>6

LEMMA TextsHold ==
  ASSUME NEW lengths \in Seq(Nat)
  PROVE  \E upTo : TextsOf(lengths, upTo) /\ TextOf(lengths) = upTo[Len(lengths)]
<1> DEFINE n == Len(lengths)
           More(f, k) == IF k = 0 THEN <<>> ELSE f[k - 1] \o [c \in 1..lengths[k] |-> k] \o <<0, 0>>
           Upto(f, m) == \A k \in 0..n : k <= m => f[k] = More(f, k)
           Shown == {m \in Nat : m <= n => \E f : f = [k \in 0..n |-> f[k]] /\ Upto(f, m)}
<1>0. n \in Nat
  OBVIOUS
<1> HIDE DEF More
<1>1. Shown = Nat
  <2>1. 0 \in Shown
    <3> DEFINE f == [k \in 0..n |-> <<>>]
    <3>1. f = [k \in 0..n |-> f[k]] /\ Upto(f, 0)
      BY <1>0 DEF More
    <3> HIDE DEF f
    <3> QED BY <3>1
  <2>2. ASSUME NEW m \in Shown PROVE m + 1 \in Shown
    <3> HIDE DEF Upto
    <3>0. m \in Nat /\ m + 1 \in Nat /\ (m <= n => \E f : f = [k \in 0..n |-> f[k]] /\ Upto(f, m))
      OBVIOUS
    <3> USE DEF Upto
    <3>1. SUFFICES ASSUME m + 1 <= n PROVE \E f : f = [k \in 0..n |-> f[k]] /\ Upto(f, m + 1)
      BY <3>0
    <3>2. PICK f : f = [k \in 0..n |-> f[k]] /\ Upto(f, m)
      BY <1>0, <3>0, <3>1
    <3> DEFINE g == [k \in 0..n |-> IF k = m + 1 THEN More(f, m + 1) ELSE f[k]]
    <3>3. m + 1 \in 0..n
      BY <1>0, <3>0, <3>1
    <3>4. g = [k \in 0..n |-> g[k]] /\ g[m + 1] = More(f, m + 1) /\ \A k \in 0..n : k # m + 1 => g[k] = f[k]
      BY <3>3
    <3> HIDE DEF g
    <3>5. ASSUME NEW k \in 0..n, k <= m + 1 PROVE g[k] = More(g, k)
      <4>1. More(g, k) = More(f, k)
        <5>1. CASE k = 0
          BY <5>1 DEF More
        <5>2. CASE k # 0
          <6>1. k - 1 \in 0..n /\ k - 1 # m + 1
            BY <1>0, <3>0, <3>5, <5>2
          <6>2. g[k - 1] = f[k - 1]
            BY <3>4, <6>1
          <6> QED BY <6>2 DEF More
        <5> QED BY <5>1, <5>2
      <4>2. CASE k = m + 1
        BY <3>4, <4>1, <4>2
      <4>3. CASE k # m + 1
        <5>1. k <= m /\ g[k] = f[k]
          BY <1>0, <3>0, <3>4, <3>5, <4>3
        <5>2. f[k] = More(f, k)
          BY <3>2, <5>1
        <5> QED BY <4>1, <5>1, <5>2
      <4> QED BY <4>2, <4>3
    <3> QED BY <3>4, <3>5
  <2> HIDE DEF Shown
  <2>3. Shown \in SUBSET Nat
    BY DEF Shown
  <2> QED BY <2>1, <2>2, <2>3, NatsFromZero
<1>2. PICK f : f = [k \in 0..n |-> f[k]] /\ Upto(f, n)
  BY <1>0, <1>1
<1>3. TextsOf(lengths, f)
  <2>1. \A k \in 0..n : f[k] = More(f, k)
    BY <1>0, <1>2
  <2>2. f = [k \in 0..n |-> More(f, k)]
    BY <1>2, <2>1
  <2> QED BY <2>2 DEF TextsOf, More
<1> DEFINE upTo == CHOOSE x : TextsOf(lengths, x)
<1>4. TextsOf(lengths, upTo)
  BY <1>3
<1>5. TextOf(lengths) = upTo[n]
  BY DEF TextOf, TextsOf
<1> QED BY <1>4, <1>5

\* The text up to a block's end: the blocks before it where their spans say, and in no
\* other place.
LEMMA SpansHold ==
  ASSUME NEW lengths \in Seq(Nat)
  PROVE  /\ TextOf(lengths) \in Seq(Nat)
         /\ \A i \in 1..Len(lengths) :
              /\ StartOf(lengths, i) \in Nat /\ StartOf(lengths, i) + lengths[i] <= Len(TextOf(lengths))
              /\ \A c \in 1..Len(TextOf(lengths)) :
                   TextOf(lengths)[c] = i <=> c \in (StartOf(lengths, i) + 1)..(StartOf(lengths, i) + lengths[i])
<1> DEFINE n == Len(lengths)
<1>0. n \in Nat /\ \A k \in 1..n : lengths[k] \in Nat
  OBVIOUS
<1>1. PICK begins : StartsOf(lengths, begins) /\ begins \in [1..n -> Nat] /\ \A i : StartOf(lengths, i) = begins[i]
  BY StartsHold
<1>2. PICK upTo : TextsOf(lengths, upTo) /\ TextOf(lengths) = upTo[n]
  BY TextsHold
<1>3. n > 0 => begins[1] = 0
  BY <1>0, <1>1 DEF StartsOf
<1>4. \A k \in 1..n : k # 1 => begins[k] = begins[k - 1] + lengths[k - 1] + 2
  BY <1>0, <1>1 DEF StartsOf
<1>5. upTo[0] = <<>>
  BY <1>0, <1>2 DEF TextsOf
<1>6. \A k \in 1..n : upTo[k] = upTo[k - 1] \o [c \in 1..lengths[k] |-> k] \o <<0, 0>>
  <2> DEFINE More(k) == IF k = 0 THEN <<>> ELSE upTo[k - 1] \o [c \in 1..lengths[k] |-> k] \o <<0, 0>>
  <2>1. upTo = [k \in 0..n |-> More(k)]
    BY <1>2 DEF TextsOf
  <2> HIDE DEF More
  <2>2. \A k \in 1..n : k \in 0..n /\ k # 0 /\ upTo[k] = More(k)
    BY <1>0, <2>1
  <2>3. ASSUME NEW k, k # 0 PROVE More(k) = upTo[k - 1] \o [c \in 1..lengths[k] |-> k] \o <<0, 0>>
    BY <2>3 DEF More
  <2> QED BY <2>2, <2>3
<1> DEFINE Ended(k) == IF k = 0 THEN 0 ELSE begins[k] + lengths[k] + 2
           Good(k) == /\ upTo[k] \in Seq(0..k) /\ Len(upTo[k]) = Ended(k)
                      /\ \A i \in 1..k : /\ begins[i] + lengths[i] <= Len(upTo[k])
                                         /\ \A c \in 1..Len(upTo[k]) :
                                              upTo[k][c] = i <=> c \in (begins[i] + 1)..(begins[i] + lengths[i])
           Shown == {m \in Nat : m <= n => Good(m)}
<1>7. Good(0)
  BY <1>5
<1>8. ASSUME NEW m \in Nat, m + 1 <= n, Good(m) PROVE Good(m + 1)
  <2> DEFINE k == m + 1
             s == upTo[m]
             b == [c \in 1..lengths[k] |-> k]
             t == upTo[k]
             L == Len(s)
             w == lengths[k]
  <2>1. k \in 1..n /\ k - 1 = m /\ w \in Nat
    BY <1>0, <1>8
  <2>2. t = (s \o b) \o <<0, 0>>
    BY <1>6, <2>1
  <2>3. s \in Seq(0..m) /\ L = Ended(m) /\ L \in Nat
    BY <1>8
  <2>4. begins[k] = L
    <3>1. CASE m = 0
      BY <1>3, <1>8, <2>3, <3>1, <1>0
    <3>2. CASE m # 0
      BY <1>4, <2>1, <2>3, <3>2
    <3> QED BY <3>1, <3>2
  <2>5. s \in Seq(0..k) /\ b \in Seq(0..k) /\ <<0, 0>> \in Seq(0..k) /\ Len(b) = w
    <3>1. 0..m \subseteq 0..k
      BY <1>8
    <3>2. s \in Seq(0..k)
      BY <2>3, <3>1
    <3>3. b \in [1..w -> 0..k] /\ <<0, 0>> \in Seq(0..k)
      BY <1>8
    <3>4. b \in Seq(0..k) /\ Len(b) = w
      BY <2>1, <3>3
    <3> QED BY <3>2, <3>3, <3>4
  <2>6. \A c \in 1..L : s[c] \in 0..m
    BY <2>3
  <2>7. \A c \in 1..w : b[c] = k
    OBVIOUS
  <2> HIDE DEF s, b, t, L, w, Ended
  <2>8. s \o b \in Seq(0..k) /\ Len(s \o b) = L + w
         /\ \A c \in 1..(L + w) : (s \o b)[c] = IF c <= L THEN s[c] ELSE b[c - L]
    BY <2>5, ConcatProperties DEF L
  <2>9. t \in Seq(0..k) /\ Len(t) = L + w + 2
    BY <2>2, <2>3, <2>1, <2>5, <2>8
  <2>10. ASSUME NEW c \in 1..(L + w + 2)
         PROVE  /\ c <= L => t[c] = s[c]
                /\ c > L /\ c <= L + w => t[c] = k
                /\ c > L + w => t[c] = 0
    <3>1. L \in Nat /\ w \in Nat /\ Len(s) = L
      BY <2>1, <2>3 DEF L
    <3>2. CASE c <= L + w
      <4>1. t[c] = (s \o b)[c]
        BY <2>2, <2>5, <2>8, <3>1, <3>2
      <4>2. c <= L => (s \o b)[c] = s[c]
        BY <2>8, <3>1, <3>2
      <4>3. c > L => (s \o b)[c] = b[c - L] /\ c - L \in 1..w
        BY <2>8, <3>1, <3>2
      <4>4. c > L => t[c] = k
        BY <2>7, <4>1, <4>3
      <4>5. ~(c > L + w)
        BY <3>1, <3>2
      <4> QED BY <4>1, <4>2, <4>4, <4>5
    <3>3. CASE c > L + w
      <4>1. t[c] = <<0, 0>>[c - (L + w)] /\ c - (L + w) \in 1..2
        BY <2>2, <2>5, <2>8, <3>1, <3>3
      <4> QED BY <3>1, <3>3, <4>1
    <3> QED BY <3>1, <3>2, <3>3
  <2>11. ASSUME NEW i \in 1..k
         PROVE  /\ begins[i] + lengths[i] <= Len(t)
                /\ \A c \in 1..Len(t) : t[c] = i <=> c \in (begins[i] + 1)..(begins[i] + lengths[i])
    <3>1. L \in Nat /\ w \in Nat /\ k \in Nat /\ k # 0 /\ k \notin 0..m
      BY <1>8, <2>1, <2>3
    <3>2. CASE i = k
      <4>1. begins[i] = L /\ lengths[i] = w
        BY <2>4, <3>2 DEF w
      <4>2. ASSUME NEW c \in 1..(L + w + 2) PROVE t[c] = k <=> c \in (L + 1)..(L + w)
        <5>1. c <= L => t[c] # k
          BY <2>6, <2>10, <3>1
        <5>2. c > L + w => t[c] # k
          BY <2>10, <3>1
        <5> QED BY <2>10, <3>1, <5>1, <5>2
      <4> QED BY <2>9, <3>1, <3>2, <4>1, <4>2
    <3>3. CASE i # k
      <4>1. i \in 1..m /\ i \in 1..n
        BY <1>0, <1>8, <3>3
      <4>2. begins[i] \in Nat /\ lengths[i] \in Nat
        BY <1>0, <1>1, <4>1
      <4>3. begins[i] + lengths[i] <= L /\ \A c \in 1..L : s[c] = i <=> c \in (begins[i] + 1)..(begins[i] + lengths[i])
        BY <1>8, <4>1 DEF s, L
      <4>4. ASSUME NEW c \in 1..(L + w + 2) PROVE t[c] = i <=> c \in (begins[i] + 1)..(begins[i] + lengths[i])
        <5>1. CASE c <= L
          <6>1. c \in 1..L /\ t[c] = s[c]
            BY <2>10, <3>1, <5>1
          <6> QED BY <4>3, <6>1
        <5>2. CASE c > L
          <6>1. t[c] \in {0, k}
            BY <2>10, <3>1, <5>2
          <6>2. t[c] # i
            BY <3>3, <4>1, <6>1
          <6>3. c \notin (begins[i] + 1)..(begins[i] + lengths[i])
            BY <3>1, <4>2, <4>3, <5>2
          <6> QED BY <6>2, <6>3
        <5> QED BY <3>1, <5>1, <5>2
      <4> QED BY <2>9, <3>1, <4>2, <4>3, <4>4
    <3> QED BY <3>2, <3>3
  <2>12. Len(t) = Ended(k)
    BY <2>1, <2>3, <2>4, <2>9 DEF Ended, w
  <2> QED BY <2>9, <2>11, <2>12 DEF t
<1> HIDE DEF Good
<1>9. Shown = Nat
  <2>1. 0 \in Shown
    BY <1>7
  <2>2. ASSUME NEW m \in Shown PROVE m + 1 \in Shown
    BY <1>0, <1>8, <2>2
  <2> HIDE DEF Shown
  <2>3. Shown \in SUBSET Nat
    BY DEF Shown
  <2> QED BY <2>1, <2>2, <2>3, NatsFromZero
<1>10. Good(n)
  BY <1>0, <1>9
<1>11. upTo[n] \in Seq(Nat)
  <2>1. upTo[n] \in Seq(0..n) /\ 0..n \subseteq Nat
    BY <1>10 DEF Good
  <2> QED BY <2>1
<1>12. TextOf(lengths) = upTo[n] /\ \A i : StartOf(lengths, i) = begins[i]
  BY <1>1, <1>2
<1>13. \A i \in 1..n : begins[i] \in Nat
  BY <1>1
<1>14. \A i \in 1..n : /\ begins[i] + lengths[i] <= Len(upTo[n])
                       /\ \A c \in 1..Len(upTo[n]) : upTo[n][c] = i <=> c \in (begins[i] + 1)..(begins[i] + lengths[i])
  BY <1>10 DEF Good
<1> HIDE DEF n
<1>15. \A i \in 1..n : StartOf(lengths, i) \in Nat /\ StartOf(lengths, i) + lengths[i] <= Len(TextOf(lengths))
  BY <1>12, <1>13, <1>14
<1>16. ASSUME NEW i \in 1..n, NEW c \in 1..Len(TextOf(lengths))
       PROVE  TextOf(lengths)[c] = i <=> c \in (StartOf(lengths, i) + 1)..(StartOf(lengths, i) + lengths[i])
  BY <1>12, <1>14
<1>17. TextOf(lengths) \in Seq(Nat)
  BY <1>11, <1>12
<1> QED BY <1>15, <1>16, <1>17 DEF n

FetchHolds == RequestsWithinGrant /\ SpansAreTheBlocks

LEMMA FetchStarts == FetchInit => FetchHolds
BY DEF FetchInit, FetchHolds, RequestsWithinGrant, SpansAreTheBlocks, Nothing

\* The document a fetch ends with.
LEMMA CapturedSpans ==
  ASSUME NEW url, NEW lengths \in BlockLengths, NEW g,
         loaded' = [url |-> Captured(url, lengths).url, text |-> Captured(url, lengths).text,
                    blocks |-> Captured(url, lengths).blocks, generation |-> g]
  PROVE  loaded'.url = url /\ SpansAreTheBlocks'
<1> DEFINE n == Len(lengths)
           text == TextOf(lengths)
<1>1. lengths \in Seq(Nat) /\ n \in Nat
  BY FetchAssumption
<1>2. /\ loaded'.url = url /\ loaded'.text = text /\ loaded'.blocks = [i \in 1..n |-> SpanOf(lengths, i)]
  BY DEF Captured
<1>3. text \in Seq(Nat) /\ Len(text) \in Nat
  BY <1>1, SpansHold
<1>4. Len(loaded'.blocks) = n
  BY <1>1, <1>2
<1>5. ASSUME NEW i \in 1..n
      PROVE  /\ loaded'.blocks[i].end <= Len(text)
             /\ {c \in 1..Len(text) : text[c] = i} = (loaded'.blocks[i].start + 1)..loaded'.blocks[i].end
  <2> DEFINE a == StartOf(lengths, i)
             e == StartOf(lengths, i) + lengths[i]
  <2>1. loaded'.blocks[i].start = a /\ loaded'.blocks[i].end = e
    BY <1>2 DEF SpanOf
  <2>2. a \in Nat /\ e <= Len(text) /\ \A c \in 1..Len(text) : text[c] = i <=> c \in (a + 1)..e
    BY <1>1, SpansHold
  <2>3. lengths[i] \in Nat /\ e \in Nat
    BY <1>1, <2>2
  <2> HIDE DEF a, e, text
  <2>4. (a + 1)..e \subseteq 1..Len(text)
    BY <1>3, <2>2, <2>3
  <2>5. {c \in 1..Len(text) : text[c] = i} = (a + 1)..e
    BY <2>2, <2>4
  <2> QED BY <2>1, <2>2, <2>5
<1> HIDE DEF text, n
<1> QED BY <1>2, <1>4, <1>5 DEF SpansAreTheBlocks

LEMMA FetchStep ==
  ASSUME FetchHolds, [FetchNext]_fetchVars
  PROVE  FetchHolds'
<1>1. CASE requests' = requests /\ loaded' = loaded
  BY <1>1 DEF FetchHolds, RequestsWithinGrant, SpansAreTheBlocks
<1>2. CASE FetchDocument /\ ~(requests' = requests /\ loaded' = loaded)
  <2>1. Eligible(target) /\ requests' = requests \cup {target}
    BY <1>2 DEF FetchDocument
  <2>2. \A url \in requests' : url.scheme \in {"http", "https"} /\ ~url.credentials /\ url.origin \in FetchGrant
    BY <2>1 DEF FetchHolds, RequestsWithinGrant, Eligible
  <2>3. CASE loaded' = loaded
    BY <2>1, <2>2, <2>3 DEF FetchHolds, RequestsWithinGrant, SpansAreTheBlocks
  <2>4. CASE loaded' # loaded
    <3>1. PICK lengths \in Decoded :
            /\ lengths # <<>>
            /\ loaded' = [url |-> Captured(target, lengths).url, text |-> Captured(target, lengths).text,
                          blocks |-> Captured(target, lengths).blocks, generation |-> loaded.generation + 1]
      BY <1>2, <2>4 DEF FetchDocument
    <3>2. lengths \in BlockLengths
      BY <3>1 DEF Decoded
    <3>3. loaded'.url = target /\ SpansAreTheBlocks'
      BY <3>1, <3>2, CapturedSpans
    <3> QED BY <2>1, <2>2, <3>3 DEF FetchHolds, RequestsWithinGrant
  <2> QED BY <2>3, <2>4
<1>3. CASE FetchCall \/ GateCall \/ UNCHANGED fetchVars
  <2>1. requests' = requests /\ loaded' = loaded
    BY <1>3 DEF FetchCall, GateCall, fetchVars
  <2> QED BY <1>1, <2>1
<1> QED BY <1>1, <1>2, <1>3 DEF FetchNext, FetchWork

----------------------------------------------------------------------------
(* The parts together: a step of one leaves the others as they are.        *)

LEMMA StepsOfParts ==
  ASSUME [Next]_vars
  PROVE  /\ [CloudNext]_cloudVars /\ [ChromeNext]_chromeVars /\ [TabsNext]_tabVars /\ [ShimNext]_shimVars
         /\ [HostNext]_hostVars /\ [FilmNext]_filmVars /\ [FetchNext]_fetchVars
<1>1. CASE UNCHANGED vars
  BY <1>1 DEF vars
<1>2. CASE Next
  BY <1>2, Zenon DEF Next, Only
<1> QED BY <1>1, <1>2

\* No frame the run held back is in the video, and at each path there is the
\* whole of one video or of the other (recording.rs), however frames, stills and
\* the run's own steps interleave.
THEOREM RecordingIsKept == Spec => []RecordingKept
<1>1. Init => FilmInv
  BY FilmStarts DEF Init
<1>2. FilmInv /\ [Next]_vars => FilmInv'
  BY FilmStep, StepsOfParts
<1>3. FilmInv => RecordingKept
  BY DEF FilmInv, RecordingKept
<1> QED BY <1>1, <1>2, <1>3, PTL DEF Spec

\* One task finishes a cloud browser and a start that fails stops it
\* (browser_use_cloud.rs); a sweep removes no profile in use, a Chrome that ended
\* leaves none, and a launch takes no earlier Chrome's address (local_chrome.rs).
THEOREM BrowsersAreKept == Spec => []BrowsersKept
<1> DEFINE Inv == CloudInv /\ ChromeInv
<1>1. Init => Inv
  BY CloudBegins, ChromeStarts DEF Init
<1>2. Inv /\ [Next]_vars => Inv'
  BY CloudStep, ChromeStep, StepsOfParts
<1>3. Inv => BrowsersKept
  BY CloudPromises, ChromePromises DEF BrowsersKept
<1> QED BY <1>1, <1>2, <1>3, PTL DEF Spec

\* A cloud browser that is kept is never stopped, whatever tasks are under way
\* (browser_use_cloud.rs).
THEOREM KeptIsNotStopped == Spec => KeptStaysUp
<1>1. Init => CloudInv
  BY CloudBegins DEF Init
<1>2. CloudInv /\ [Next]_vars => CloudInv'
  BY CloudStep, StepsOfParts
<1>3. CloudInv /\ [Next]_vars => [kept => service' = service]_cloudVars
  BY CloudPromises, StepsOfParts
<1> QED BY <1>1, <1>2, <1>3, PTL DEF Spec, KeptStaysUp

\* A released run owns and debugs no tab once its operations have ended, and the
\* tabs it opened are closed (background.js); the extension hears of a run's end
\* once and last (host.rs); no tab is reported destroyed twice (extension.rs).
THEOREM ExtensionDoesLetGo == Spec => []ExtensionLetsGo
<1> DEFINE Inv == TabsInv /\ ShimInv /\ HostInv
<1>1. Init => Inv
  BY TabsStarts, ShimStarts, HostStarts DEF Init
<1>2. Inv /\ [Next]_vars => Inv'
  BY TabsStep, ShimStep, HostStep, StepsOfParts
<1>3. Inv => ExtensionLetsGo
  <2>1. HostInv => HostTypeOK /\ ReleaseLast
    BY DEF HostInv
  <2> QED BY <2>1, TabsPromises, ShimPromises DEF ExtensionLetsGo
<1> QED BY <1>1, <1>2, <1>3, PTL DEF Spec

\* No request leaves for an address outside the grant, one with credentials or one
\* that is no document, however pages redirect; and each block's span holds that
\* block's characters and no other's, for documents of any blocks (fetch/mod.rs).
THEOREM FetchIsKept == Spec => []FetchKept
<1>1. Init => FetchHolds
  BY FetchStarts DEF Init
<1>2. FetchHolds /\ [Next]_vars => FetchHolds'
  BY FetchStep, StepsOfParts
<1>3. FetchHolds => FetchKept
  BY DEF FetchHolds, FetchKept
<1> QED BY <1>1, <1>2, <1>3, PTL DEF Spec

----------------------------------------------------------------------------
(* Keys.                                                                   *)

\* The clients of a language model: each is of the source chosen, or is the gateway
\* behind OpenRouter.
LEMMA LlmKeys ==
  ASSUME NEW s, s.provider \in LLMs \cup {"none"}, NEW c \in Llm(s)
  PROVE  (c.key \in Routers => c.host = c.key) /\ (c.key = "own" => c.host = s.provider)
<1> DEFINE p == LlmSource(s)
<1>1. p \in LLMs /\ (s.provider # "none" => p = s.provider) /\ (s.provider = "none" => p \in Routers \cup {"custom"})
  BY DEF LlmSource, LLMs, Routers
<1> HIDE DEF p
<1>2. CASE p \in Routers
  <2>1. c = [key |-> p, host |-> p] \/ c = [key |-> "gateway", host |-> "gateway"]
    BY <1>2 DEF Llm, p
  <2>2. c.key = c.host /\ c.key # "own"
    BY <1>2, <2>1 DEF Routers
  <2> QED BY <2>2
<1>3. CASE p \notin Routers
  <2> DEFINE key == IF Preset(p).key = "own" THEN "own" ELSE IF IsSet(s, "local") THEN "local" ELSE "nobody"
  <2>1. PresetUrl(s, p) # "refused" /\ c = [key |-> key, host |-> PresetUrl(s, p)]
    BY <1>3 DEF Llm, PresetLlm, p
  <2>2. c.key = key /\ c.host = PresetUrl(s, p)
    BY <2>1
  <2>3. c.key \notin Routers
    BY <2>2 DEF Routers
  <2>4. ASSUME c.key = "own" PROVE c.host = s.provider
    <3>1. p \in Hosted \cup {"azure"}
      BY <2>2, <2>4 DEF Preset
    <3>2. Preset(p).endpoint = (IF p \in Hosted THEN "hosted" ELSE "resource")
      BY <3>1 DEF Preset
    <3>3. PresetUrl(s, p) = p
      BY <2>1, <3>2 DEF PresetUrl
    <3>4. s.provider = p
      BY <1>1, <3>1 DEF Hosted, Routers
    <3> QED BY <2>2, <3>3, <3>4
  <2> QED BY <2>3, <2>4
<1> QED BY <1>2, <1>3

\* A decision client has its source's key; two of them are never both at an address
\* of the caller's.
LEMMA DecisionKeys ==
  ASSUME NEW s, NEW source, NEW c \in DecisionClient(s, source)
  PROVE  /\ c.key \in Jevs => c.key = source
         /\ c.host = IF s.decisionUrl THEN "named" ELSE source
         /\ \A d \in DecisionClient(s, source) : d = c
<1> DEFINE own == IF source \in Jevs THEN source ELSE "own"
           host == IF s.decisionUrl THEN "named" ELSE source
<1>1. CASE source \in {"ollama", "custom"}
  <2>1. c = [key |-> IF IsSet(s, "decision") THEN "decision" ELSE "nobody", host |-> host, priced |-> TRUE, images |-> FALSE]
    BY <1>1 DEF DecisionClient
  <2>2. \A d \in DecisionClient(s, source) : d = [key |-> IF IsSet(s, "decision") THEN "decision" ELSE "nobody", host |-> host, priced |-> TRUE, images |-> FALSE]
    BY <1>1 DEF DecisionClient
  <2>3. c.key \in {"decision", "nobody"} /\ c.host = host
    BY <2>1
  <2> QED BY <2>1, <2>2, <2>3 DEF Jevs
<1>2. CASE source \notin {"ollama", "custom"}
  <2> DEFINE client == [key |-> own, host |-> host, priced |-> source # "aimlapi", images |-> source \in {"openrouter", "typesafe"}]
  <2>1. \A d \in DecisionClient(s, source) : d = client
    BY <1>2, Zenon DEF DecisionClient
  <2>2. client.key = own /\ client.host = host
    OBVIOUS
  <2> HIDE DEF client
  <2>3. c = client
    BY <2>1
  <2> QED BY <2>1, <2>2, <2>3 DEF Jevs
<1> QED BY <1>1, <1>2

\* Whatever the settings, a key a client holds belongs to the host it is sent to
\* (environment.rs `llm`, `decision`): an LLM client sends a router's or a provider's
\* key to that host alone; a decision client sends its key to that key's host, or to
\* the address the caller named, where there is only one such client.
THEOREM KeysDoStayHome ==
  ASSUME NEW s, s.provider \in LLMs \cup {"none"}, s.source \in Sources \cup {"none"}
  PROVE  KeysStayHome(s)
<1> DEFINE route == DecisionRoute(s)
           first == DecisionClient(s, route.source)
           second == IF route.backup = "none" THEN {} ELSE DecisionClient(s, route.backup)
<1>1. Decision(s) \subseteq first \cup second
  BY DEF Decision
<1>2. s.decisionUrl => second = {}
  BY DEF DecisionRoute
<1>3. ASSUME NEW c \in Decision(s), c.key \in Jevs, c.host # "named" PROVE c.host = c.key
  <2>1. PICK source : c \in DecisionClient(s, source)
    BY <1>1
  <2> QED BY <1>3, <2>1, DecisionKeys
<1>4. ASSUME NEW c \in Decision(s), NEW d \in Decision(s), c.host = "named", d.host = "named" PROVE c = d
  <2>1. CASE s.decisionUrl
    BY <1>1, <1>2, <2>1, DecisionKeys
  <2>2. CASE ~s.decisionUrl
    <3>1. route.source # "named" /\ route.backup # "named"
      BY DEF DecisionRoute, Sources, Jevs
    <3> QED BY <1>1, <1>4, <2>2, <3>1, DecisionKeys
  <2> QED BY <2>1, <2>2
<1> QED BY <1>3, <1>4, LlmKeys DEF KeysStayHome

----------------------------------------------------------------------------
(* Prices.                                                                 *)

LEMMA FiniteHasMost ==
  ASSUME NEW S \in SUBSET Nat, IsFiniteSet(S), S # {}
  PROVE  \E m \in S : \A y \in S : m >= y
<1> DEFINE Most(s) == s # {} => \E m \in s : \A y \in s : m >= y
           Sizes == {n \in Nat : \A s \in SUBSET S : Cardinality(s) <= n => Most(s)}
<1>1. \A s \in SUBSET S : IsFiniteSet(s) /\ Cardinality(s) \in Nat /\ (Cardinality(s) = 0 <=> s = {})
  BY FS_Subset, FS_CardinalityType, FS_EmptySet
<1>2. 0 \in Sizes
  <2>1. ASSUME NEW s \in SUBSET S, Cardinality(s) <= 0 PROVE Most(s)
    <3>1. s = {}
      BY <1>1, <2>1
    <3> QED BY <3>1
  <2> QED BY <2>1
<1>3. ASSUME NEW n \in Sizes PROVE n + 1 \in Sizes
  <2>0. n \in Nat /\ n + 1 \in Nat /\ \A s \in SUBSET S : Cardinality(s) <= n => Most(s)
    OBVIOUS
  <2> SUFFICES ASSUME NEW s \in SUBSET S, Cardinality(s) <= n + 1, s # {} PROVE Most(s)
    <3>1. \A s \in SUBSET S : Cardinality(s) <= n + 1 /\ s # {} => Most(s)
      OBVIOUS
    <3> QED BY <2>0, <3>1
  <2>1. PICK x \in s : TRUE
    OBVIOUS
  <2> DEFINE r == s \ {x}
  <2>2. Cardinality(r) = Cardinality(s) - 1 /\ r \in SUBSET S
    BY <1>1, <2>1, FS_RemoveElement
  <2>3. Most(r)
    BY <1>1, <2>0, <2>2
  <2>4. CASE r = {}
    <3>1. \A y \in s : y = x
      BY <2>4
    <3> QED BY <2>1, <3>1
  <2>5. CASE r # {}
    <3>1. PICK m \in r : \A y \in r : m >= y
      BY <2>3, <2>5
    <3>2. m \in Nat /\ x \in Nat /\ \A y \in s : y = x \/ y \in r
      OBVIOUS
    <3>3. CASE m >= x
      BY <3>1, <3>2, <3>3
    <3>4. CASE ~(m >= x)
      <4>1. \A y \in s : x >= y
        BY <3>1, <3>2, <3>4
      <4> QED BY <4>1
    <3> QED BY <3>3, <3>4
  <2> QED BY <2>4, <2>5
<1> HIDE DEF Sizes
<1>4. Sizes = Nat
  <2>1. Sizes \in SUBSET Nat
    BY DEF Sizes
  <2> QED BY <1>2, <1>3, <2>1, NatsFromZero
<1>5. Cardinality(S) \in Sizes
  BY <1>1, <1>4
<1> QED BY <1>1, <1>5 DEF Sizes

LEMMA LargestBounds ==
  ASSUME NEW S \in SUBSET Nat, IsFiniteSet(S)
  PROVE  Largest(S) \in Nat /\ \A x \in S : x <= Largest(S)
<1>1. CASE S = {}
  BY <1>1 DEF Largest
<1>2. CASE S # {}
  <2>1. \E m \in S : \A y \in S : m >= y
    BY <1>2, FiniteHasMost
  <2>2. Max(S) \in S /\ \A y \in S : Max(S) >= y
    BY <2>1 DEF Max
  <2>3. Largest(S) = Max(S)
    BY <1>2 DEF Largest
  <2> QED BY <2>2, <2>3
<1> QED BY <1>1, <1>2

LEMMA ImageFinite ==
  ASSUME NEW S, IsFiniteSet(S), NEW f, DOMAIN f = S
  PROVE  IsFiniteSet({f[x] : x \in S})
<1> DEFINE T == {f[x] : x \in S}
           g == [x \in S |-> f[x]]
<1>1. g \in Surjection(S, T)
  BY DEF Surjection
<1> HIDE DEF g, T
<1>2. IsFiniteSet(T)
  BY <1>1, FS_Surjection
<1> QED BY <1>2 DEF T

LEMMA Grows ==
  ASSUME NEW a \in Nat, NEW b \in Nat, NEW c \in Nat, NEW d \in Nat, a <= b, c <= d
  PROVE  a * c \in Nat /\ b * d \in Nat /\ a * c <= b * d
<1>1. a * c <= b * c
  <2>1. PICK k \in Nat : b = a + k
    <3>1. b - a \in Nat /\ b = a + (b - a)
      OBVIOUS
    <3> QED BY <3>1
  <2>2. b * c = a * c + k * c /\ k * c \in Nat /\ a * c \in Nat
    BY <2>1
  <2> QED BY <2>2
<1>2. b * c <= b * d
  <2>1. PICK k \in Nat : d = c + k
    <3>1. d - c \in Nat /\ d = c + (d - c)
      OBVIOUS
    <3> QED BY <3>1
  <2>2. b * d = b * c + b * k /\ b * k \in Nat /\ b * c \in Nat
    BY <2>1
  <2> QED BY <2>2
<1>3. a * c \in Nat /\ b * c \in Nat /\ b * d \in Nat
  OBVIOUS
<1> QED BY <1>1, <1>2, <1>3

\* A price list: what a token, a request, a search and an image cost, at the base and
\* by override, tier and region, and how much dearer busy hours are.  An override
\* names at most one fee per request: `ceiling` compares an override's two fees
\* where it adds the base's, so of one that names both the bound says nothing.
Fees == [token : Nat, request : Nat, search : Nat, image : Nat]
PriceList(e) ==
  /\ e.context \in Nat /\ e.output \in Nat /\ e.peak \in Nat \ {0} /\ e.base \in Fees
  /\ e.tiers \subseteq Nat /\ IsFiniteSet(e.tiers) /\ e.regions \subseteq Nat /\ IsFiniteSet(e.regions)
  /\ e.overrides \subseteq Fees /\ IsFiniteSet(e.overrides) /\ \A o \in e.overrides : o.request = 0 \/ o.search = 0

\* What one endpoint may charge is within its own ceiling.
LEMMA EndpointCovered ==
  ASSUME NEW e, PriceList(e), NEW images \in Nat
  PROVE  /\ CeilingOf(e).context = e.context /\ CeilingOf(e).prompt \in Nat
         /\ CeilingOf(e).per_token \in Nat /\ CeilingOf(e).per_request \in Nat /\ CeilingOf(e).per_image \in Nat
         /\ \A charge \in ChargesAt(e, e.context, images) : charge \in Nat /\ charge <= BoundOf(CeilingOf(e), images)
<1> USE DEF PriceList
<1> DEFINE os == e.overrides
           ts == {o.token : o \in os}
           rs == {o.request : o \in os}
           ss == {o.search : o \in os}
           is == {o.image : o \in os}
           tokens == {e.base.token} \cup e.tiers \cup e.regions \cup ts
           fees == {e.base.request + e.base.search} \cup rs \cup ss
           pics == {e.base.image} \cup is
           T == Largest(tokens)
           F == Largest(fees)
           I == Largest(pics)
<1>0. \A o \in os : o.token \in Nat /\ o.request \in Nat /\ o.search \in Nat /\ o.image \in Nat
  BY DEF Fees
<1>1. e.base.token \in Nat /\ e.base.request \in Nat /\ e.base.search \in Nat /\ e.base.image \in Nat
  BY DEF Fees
<1>2. IsFiniteSet(ts) /\ IsFiniteSet(rs) /\ IsFiniteSet(ss) /\ IsFiniteSet(is)
  <2> DEFINE ft == [o \in os |-> o.token]
             fr == [o \in os |-> o.request]
             fs == [o \in os |-> o.search]
             fi == [o \in os |-> o.image]
  <2>1. DOMAIN ft = os /\ DOMAIN fr = os /\ DOMAIN fs = os /\ DOMAIN fi = os
    OBVIOUS
  <2>2. ts = {ft[o] : o \in os} /\ rs = {fr[o] : o \in os} /\ ss = {fs[o] : o \in os} /\ is = {fi[o] : o \in os}
    OBVIOUS
  <2> HIDE DEF ft, fr, fs, fi, ts, rs, ss, is
  <2> QED BY <2>1, <2>2, ImageFinite
<1>3. tokens \in SUBSET Nat /\ fees \in SUBSET Nat /\ pics \in SUBSET Nat
  BY <1>0, <1>1
<1>4. IsFiniteSet(tokens) /\ IsFiniteSet(fees) /\ IsFiniteSet(pics)
  <2> HIDE DEF ts, rs, ss, is
  <2>1. \A x : IsFiniteSet({x})
    BY FS_Singleton
  <2> QED BY <1>2, <2>1, FS_Union
<1>5. T \in Nat /\ F \in Nat /\ I \in Nat
  BY <1>3, <1>4, LargestBounds
<1>6. (\A x \in tokens : x \in Nat /\ x <= T) /\ (\A x \in fees : x <= F) /\ (\A x \in pics : x <= I)
  BY <1>3, <1>4, LargestBounds
<1>7. CeilingOf(e) = [context |-> e.context, prompt |-> IF e.output < e.context THEN e.context - e.output ELSE e.context,
                      per_token |-> e.peak * T, per_request |-> e.peak * F, per_image |-> e.peak * I]
  BY DEF CeilingOf
<1>8. \A set \in {e.base} \cup os : /\ set.request + set.search \in Nat /\ set.request + set.search <= F
                                    /\ set.image \in Nat /\ set.image <= I
  <2>1. ASSUME NEW set \in {e.base} \cup os
        PROVE  set.request + set.search \in fees /\ set.image \in pics
    <3>1. CASE set = e.base
      BY <3>1
    <3>2. CASE set \in os
      <4>1. set.request + set.search = set.request \/ set.request + set.search = set.search
        BY <1>0, <3>2
      <4> QED BY <3>2, <4>1
    <3> QED BY <3>1, <3>2
  <2> HIDE DEF fees, pics, F, I
  <2> QED BY <1>3, <1>6, <2>1
<1> HIDE DEF ts, rs, ss, is, fees, pics, T, F, I
<1>9. ASSUME NEW charge \in ChargesAt(e, e.context, images)
      PROVE  charge \in Nat /\ charge <= e.context * (e.peak * T) + e.peak * F + (e.peak * I) * images
  <2>1. PICK token \in tokens, peak \in {1, e.peak}, set \in {e.base} \cup os :
          charge = peak * (e.context * token + set.request + set.search + images * set.image)
    BY DEF ChargesAt, ts
  <2> DEFINE f == set.request + set.search
             a == e.context * token
             b == images * set.image
             A == e.context * T
             B == images * I
  <2>2. token \in Nat /\ token <= T /\ f \in Nat /\ f <= F /\ set.image \in Nat /\ set.image <= I /\ peak \in Nat /\ peak <= e.peak
        /\ e.peak \in Nat /\ e.context \in Nat
    BY <1>6, <1>8, <2>1
  <2>3. a \in Nat /\ A \in Nat /\ a <= A
    BY <1>5, <2>2, Grows
  <2>4. b \in Nat /\ B \in Nat /\ b <= B
    BY <1>5, <2>2, Grows
  <2>5. e.context * token + set.request + set.search + images * set.image = a + f + b
    <3>1. set.request \in Nat /\ set.search \in Nat
      BY <1>0, <1>1
    <3> QED BY <2>3, <2>4, <3>1
  <2> HIDE DEF a, b, f, A, B
  <2>6. a + f + b \in Nat /\ A + F + B \in Nat /\ a + f + b <= A + F + B
    BY <1>5, <2>2, <2>3, <2>4
  <2>7. peak * (a + f + b) \in Nat /\ peak * (a + f + b) <= e.peak * (A + F + B)
    BY <2>2, <2>6, Grows
  <2>8. e.peak * (A + F + B) = e.context * (e.peak * T) + e.peak * F + (e.peak * I) * images
    BY <1>5, <2>2 DEF A, B
  <2> QED BY <2>1, <2>5, <2>7, <2>8
<1>10. BoundOf(CeilingOf(e), images) = e.context * (e.peak * T) + e.peak * F + (e.peak * I) * images
  BY <1>7 DEF BoundOf
<1>11. e.peak * T \in Nat /\ e.peak * F \in Nat /\ e.peak * I \in Nat
  BY <1>5
<1> QED BY <1>7, <1>9, <1>10, <1>11

\* An unanswered request is never charged less than a provider could bill for it
\* (openai_compatible.rs `ceiling`, `bound`): whatever endpoint it was routed to, and
\* at whatever price of that endpoint's list, a full context costs no more than the
\* bound made of the largest of each.
THEOREM CeilingIsAbove ==
  ASSUME NEW endpoints, IsFiniteSet(endpoints), \A e \in endpoints : PriceList(e), NEW images \in Nat
  PROVE  CeilingHolds(endpoints, images)
<1> DEFINE each == {CeilingOf(x) : x \in endpoints}
           cs == {c.context : c \in each}
           ps == {c.per_token : c \in each}
           rs == {c.per_request : c \in each}
           is == {c.per_image : c \in each}
           top == Ceiling(endpoints)
<1> SUFFICES ASSUME NEW e \in endpoints, NEW charge \in ChargesAt(e, e.context, images)
             PROVE  charge <= BoundOf(top, images)
  BY DEF CeilingHolds
<1>1. \A x \in endpoints : CeilingOf(x).context \in Nat /\ CeilingOf(x).per_token \in Nat /\ CeilingOf(x).per_request \in Nat /\ CeilingOf(x).per_image \in Nat
  BY EndpointCovered DEF PriceList
<1>2. charge \in Nat /\ charge <= BoundOf(CeilingOf(e), images)
  BY EndpointCovered
<1>3. cs \in SUBSET Nat /\ ps \in SUBSET Nat /\ rs \in SUBSET Nat /\ is \in SUBSET Nat
  BY <1>1
<1>4. IsFiniteSet(cs) /\ IsFiniteSet(ps) /\ IsFiniteSet(rs) /\ IsFiniteSet(is)
  <2> DEFINE fc == [x \in endpoints |-> CeilingOf(x).context]
             fp == [x \in endpoints |-> CeilingOf(x).per_token]
             fr == [x \in endpoints |-> CeilingOf(x).per_request]
             fi == [x \in endpoints |-> CeilingOf(x).per_image]
  <2>1. DOMAIN fc = endpoints /\ DOMAIN fp = endpoints /\ DOMAIN fr = endpoints /\ DOMAIN fi = endpoints
    OBVIOUS
  <2>2. cs = {fc[x] : x \in endpoints} /\ ps = {fp[x] : x \in endpoints} /\ rs = {fr[x] : x \in endpoints} /\ is = {fi[x] : x \in endpoints}
    OBVIOUS
  <2> HIDE DEF fc, fp, fr, fi, cs, ps, rs, is
  <2> QED BY <2>1, <2>2, ImageFinite
<1>5. top.context = Largest(cs) /\ top.per_token = Largest(ps) /\ top.per_request = Largest(rs) /\ top.per_image = Largest(is)
  BY DEF Ceiling
<1> DEFINE c == CeilingOf(e)
<1>6. c.context \in cs /\ c.per_token \in ps /\ c.per_request \in rs /\ c.per_image \in is
  OBVIOUS
<1> HIDE DEF cs, ps, rs, is, top, c
<1>7. /\ c.context \in Nat /\ top.context \in Nat /\ c.context <= top.context
      /\ c.per_token \in Nat /\ top.per_token \in Nat /\ c.per_token <= top.per_token
      /\ c.per_request \in Nat /\ top.per_request \in Nat /\ c.per_request <= top.per_request
      /\ c.per_image \in Nat /\ top.per_image \in Nat /\ c.per_image <= top.per_image
  BY <1>3, <1>4, <1>5, <1>6, LargestBounds
<1>8. c.context * c.per_token \in Nat /\ top.context * top.per_token \in Nat /\ c.context * c.per_token <= top.context * top.per_token
  BY <1>7, Grows
<1>9. c.per_image * images \in Nat /\ top.per_image * images \in Nat /\ c.per_image * images <= top.per_image * images
  BY <1>7, Grows
<1>10. charge <= c.context * c.per_token + c.per_request + c.per_image * images
  BY <1>2 DEF BoundOf, c
<1>11. BoundOf(top, images) = top.context * top.per_token + top.per_request + top.per_image * images
  BY DEF BoundOf
<1> QED BY <1>2, <1>7, <1>8, <1>9, <1>10, <1>11
=============================================================================
