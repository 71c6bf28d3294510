----------------------------- MODULE MCDeciding -----------------------------
(* How a step is decided: Jev asked within its limits, a saved recipe followed *)
(* beside it, and the decision turned into an action.  A behaviour is one of   *)
(* the three.                                                                  *)
EXTENDS Policy, Recipes, Acting

VARIABLE part

vars == <<part, polVars, rpVars, actVars>>

----------------------------------------------------------------------------
(* Pages: links that fit, a dense one whose state is set off-screen, one whose *)
(* texts and history are what overflow, and one under a dialog.                *)

Link(rel, prot, off, href) == [rel |-> rel, prot |-> prot, off |-> off, href |-> href, label |-> TRUE, ops |-> {"click"}]
Piece(rel, prot, off) == [rel |-> rel, prot |-> prot, off |-> off, href |-> "none", label |-> ~off, ops |-> {"click", "drag"}]
Texts(facts, off, view, notes) == [fact1 |-> facts, fact2 |-> facts, offscreen |-> off, viewport |-> view, notes |-> notes]
Act(size, set) == [size |-> size, set |-> set]
Seen(doc, ctx, controls, texts, hist) ==
  [doc |-> doc, ctx |-> ctx, controls |-> controls, texts |-> texts, hist |-> hist, dialog |-> FALSE]

Dense == <<Link("a", FALSE, FALSE, "x"), Link("a", FALSE, TRUE, "x"), Piece("b", TRUE, TRUE), Link("c", FALSE, FALSE, "none"),
           Piece("b", TRUE, FALSE)>>
Few == <<Link("a", FALSE, FALSE, "x"), Link("c", FALSE, FALSE, "x"), Piece("b", TRUE, FALSE)>>
Page1 == Seen("d1", "t1", Dense, Texts(0, 0, 1, 0), <<>>)
PolSites ==
  {Page1, [Page1 EXCEPT !.ctx = "t2"], [Page1 EXCEPT !.doc = "d2", !.controls = Few],
   Seen("d1", "t1", Few, Texts(2, 3, 3, 1), <<Act(1, TRUE), Act(2, FALSE), Act(1, FALSE)>>),
   Seen("d1", "t1", Dense, Texts(0, 0, 3, 0), <<Act(2, FALSE)>>),
   Seen("d1", "t1", Dense, Texts(0, 8, 8, 0), <<Act(9, TRUE)>>),
   [Page1 EXCEPT !.dialog = TRUE]}

----------------------------------------------------------------------------
(* Recipes: a search, a field filled from several sources, a link on a second  *)
(* page, and steps a recipe keeps without being able to carry them out.        *)

Field(id, name, kind) == [id |-> id, name |-> name, ops |-> {"fill", "click"}, kind |-> kind]
Button(id, name) == [id |-> id, name |-> name, ops |-> {"click", "select"}, kind |-> "plain"]
RpSite ==
  {[url |-> "p", controls |-> {Field(1, "user", "plain"), Button(2, "go")}],
   [url |-> "p", controls |-> {Field(1, "user", "sensitive"), Button(2, "go"), Button(3, "go")}],
   [url |-> "s3cret", controls |-> {Field(4, "user", "password"), Button(5, "go")}]}

Saved(op, page, target, text, replay) ==
  [op |-> op, page |-> page, target |-> target, text |-> text, readFirst |-> FALSE, replay |-> replay]
Lit == [from |-> "literal", value |-> "v"]
RpSaved ==
  {<<Saved("fill", "p", "user", text, TRUE), Saved("click", "p", "go", NoText, TRUE), Saved("click", "s3cret", "go", NoText, TRUE)>> :
     text \in {Lit, LiveText, [from |-> "secret", value |-> "pw"]}}
    \cup {<<Saved("select", "p", "go", NoText, FALSE), Saved("scroll", "p", "none", NoText, TRUE), Saved("fill", "s3cret", "user", Lit, TRUE)>>}

----------------------------------------------------------------------------
(* Decisions: clicks and addresses that may commit or download, and fields of  *)
(* the page and of a frame from another origin.                                *)

Plain == [kind |-> "plain", origin |-> "site", saved |-> "none", role |-> "unclear"]
Does(op, open) == [op |-> op, open |-> open, downloads |-> FALSE, credential |-> FALSE, control |-> Plain]
Fills(control) == [Does("fill", TRUE) EXCEPT !.control = control]
Decisions ==
  {Does(op, open) : op \in {"navigate", "drag", "select", "upload", "dialog", "fill"}, open \in BOOLEAN}
    \cup {[Does("click", TRUE) EXCEPT !.downloads = d, !.credential = c] : d, c \in BOOLEAN}
    \cup {[Does("navigate", TRUE) EXCEPT !.downloads = TRUE], Does("scroll", TRUE)}
    \cup {Fills([Plain EXCEPT !.saved = s]) : s \in {"none", "literal", "login"}}
    \cup {Fills([Plain EXCEPT !.saved = "login", !.origin = "frame"]), Fills([Plain EXCEPT !.origin = "frame"])}
    \cup {Fills([Plain EXCEPT !.kind = "password", !.origin = o, !.role = r]) :
             o \in {"site", "frame"}, r \in {"replacement", "current", "unclear"}}
Scopes == [name \in SecretNames |-> IF name = "card" THEN {"frame"} ELSE {"site"}]

----------------------------------------------------------------------------
Init ==
  /\ PolInit /\ RpInit /\ ActInit /\ part \in {"policy", "recipes", "acting"}
  /\ part # "recipes" => saved = CHOOSE r \in RpRecipes : TRUE
  /\ part # "recipes" => rpage = CHOOSE p \in RpPages : TRUE
  /\ part # "acting" => ~authorized /\ wanted = [from |-> 0, to |-> 1]
  /\ obsn = (CHOOSE p \in PolPages : TRUE) /\ adec = CHOOSE d \in ActDecisions : TRUE

Only(p) ==
  /\ part = p /\ part' = p
  /\ p # "policy" => UNCHANGED polVars
  /\ p # "recipes" => UNCHANGED rpVars
  /\ p # "acting" => UNCHANGED actVars

Work == (Only("policy") /\ PolWork) \/ (Only("acting") /\ ActWork)
Next == (Only("policy") /\ PolNext) \/ (Only("recipes") /\ RpNext) \/ (Only("acting") /\ ActNext)
Spec == Init /\ [][Next]_vars /\ WF_vars(Work)

\* A decision Jev is asked for ends, whatever it refuses and however dense the
\* page, and so does building its action: the ladder and the narrowing of a
\* value each get somewhere at every turn.
DecidingEnds == ~(DecideOver /\ ActOver) ~> (DecideOver /\ ActOver)
=============================================================================
