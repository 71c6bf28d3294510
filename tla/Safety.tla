------------------------------- MODULE Safety -------------------------------
(***************************************************************************)
(* The rules on secrets (crates/fastbrowse-core/src/safety.rs): on which   *)
(* origins a secret may be typed, which fields of a page take credentials, *)
(* and how values are taken out of what leaves the process.  Functions     *)
(* only: a host is the sequence of its labels, a text the sequence of its  *)
(* characters.                                                             *)
(***************************************************************************)
EXTENDS Naturals, Sequences, FiniteSets, SequencesExt, FiniteSetsExt

----------------------------------------------------------------------------
(* Origins.  A url is [scheme, host, port, user]; an origin drops the user  *)
(* and a port the scheme implies.                                           *)

Implied == [s \in {"http", "https"} |-> IF s = "https" THEN 443 ELSE 80]
OriginOf(u) == [scheme |-> u.scheme, host |-> u.host, port |-> IF u.port = Implied[u.scheme] THEN 0 ELSE u.port]

\* A declared origin is exact, or a wildcard over whole labels: the scheme and
\* the port are never part of the wildcard.
SecretAllowed(origins, here) ==
  \E p \in origins :
    /\ p.scheme = here.scheme /\ p.port = here.port
    /\ IF p.wild THEN p.host # <<>> /\ IsSuffix(p.host, here.host) ELSE p.host = here.host

\* ScopedSecrets: a name's last value with origins is the one held, and it
\* resolves by the rule that offers it.
Pattern(d) == [scheme |-> d.scheme, host |-> d.host, port |-> OriginOf(d).port, wild |-> d.wild]
PerSecret(entries) ==
  LET scoped == SelectSeq(entries, LAMBDA e : e.origins # {}) IN
  [name \in {e.name : e \in Range(scoped)} |-> scoped[Max({i \in DOMAIN scoped : scoped[i].name = name})]]
Resolved(secrets, name, here) ==
  IF name \in DOMAIN secrets /\ SecretAllowed({Pattern(d) : d \in secrets[name].origins}, here)
  THEN {secrets[name].value} ELSE {}

----------------------------------------------------------------------------
(* Fields.  A control is [op's view of] a form field: its form, its type,   *)
(* its autocomplete tokens, its role and whether it is a link.              *)

\* Every click, drag and Enter is asked about before it goes.
MayBeIrreversible(op) == op \in {"click", "drag", "enter"}

IsPassword(c) == c.type = "password"
\* None for a control outside any form.
FormPasswords(controls, c) == {x \in controls : c.form # 0 /\ x.form = c.form /\ IsPassword(x)}

\* TRUE, FALSE or undecided, on the page's explicit marks only.
SetsNewPassword(controls, c) ==
  CASE "current-password" \in c.tokens -> "no"
    [] "current-password" \notin c.tokens /\ "new-password" \in c.tokens /\ Cardinality(FormPasswords(controls, c)) > 1 -> "yes"
    [] OTHER -> "undecided"

\* Enter in, or a button of, a form with more than one password field.
ChangesCredentials(controls, c, op) ==
  /\ op = "enter" \/ (op = "click" /\ c.role = "button" /\ ~c.link)
  /\ Cardinality(FormPasswords(controls, c)) > 1

\* A one-time code is read first: sites mask its box like a password.
CredentialField(c) ==
  CASE "one-time-code" \in c.tokens -> "code"
    [] "one-time-code" \notin c.tokens /\ (IsPassword(c) \/ "current-password" \in c.tokens) -> "password"
    [] OTHER -> IF "username" \in c.tokens THEN "username" ELSE IF "webauthn" \in c.tokens THEN "passkey" ELSE "none"
WallKind(fields) ==
  IF "password" \in fields THEN "password" ELSE IF fields = {"code"} THEN "one_time_code" ELSE "sign_in"

\* A `download` attribute, or a link to a file type a browser saves.
StartsDownload(c) == c.download \/ (c.link /\ c.saves)

----------------------------------------------------------------------------
(* The Redactor.  `values` is its IndexMap of forms, [text, name, typedOn]; *)
(* a text is the sequence of its characters, `hosts` the spans of the hosts *)
(* of the addresses in it, as `hosts` finds them: [lo, hi, origin].         *)

\* Pages and logs carry a value encoded as often as raw: percent-quoted, with "+"
\* for a space, escaped inside JSON.
Encoded(v, as) == FlattenSeq([i \in DOMAIN v |-> IF v[i] \in DOMAIN as THEN as[v[i]] ELSE <<v[i]>>])
Forms(v) ==
  {v, Encoded(v, "&" :> <<"%", "x">> @@ " " :> <<"%", "s">>), Encoded(v, "&" :> <<"%", "x">> @@ " " :> <<"+">>),
   Encoded(v, "&" :> <<"~", "u">>)} \ {<<>>}
Register(values, name, value, origins) ==
  {v \in values : v.text \notin Forms(value)}
    \cup {[text |-> f, name |-> name, typedOn |-> origins \cup UNION {v.typedOn : v \in {x \in values : x.text = f}}] : f \in Forms(value)}

\* A span [lo, hi) of the text, with the name it is replaced by.
At2(text, v, i) == i + Len(v) - 1 <= Len(text) /\ SubSeq(text, i, i + Len(v) - 1) = v
Marker(name) == <<"[">> \o name \o <<"]">>
Markers(values, text) ==
  UNION {{<<i, i + Len(Marker(v.name))>> : i \in {j \in 1..Len(text) : At2(text, Marker(v.name), j)}} : v \in values}
Inside(i, n, span) == span[1] <= i /\ i + n <= span[2]

\* Mutant: values are found inside the markers a first pass wrote.
FoundInMarkers(values, text, hosts) ==
  UNION {{[lo |-> i, hi |-> i + Len(v.text), name |-> v.name] : i \in {j \in 1..Len(text) : At2(text, v.text, j)}} : v \in values}
\* Every occurrence, overlapping ones too, but for a host the value was typed on
\* and a marker already written.
Found(values, text, hosts) ==
  LET Free(v, i) ==
        /\ At2(text, v.text, i)
        /\ ~\E h \in hosts : Inside(i, Len(v.text), <<h.lo, h.hi>>) /\ h.origin \in v.typedOn
        /\ ~\E m \in Markers(values, text) : Inside(i, Len(v.text), m)
  IN UNION {{[lo |-> i, hi |-> i + Len(v.text), name |-> v.name] : i \in {j \in 1..Len(text) : Free(v, j)}} : v \in values}

\* Longest first at each start, merged where they overlap: the first names the
\* merged span.
Before(a, b) == a.lo < b.lo \/ (a.lo = b.lo /\ a.hi > b.hi)
Spans(values, text, hosts) ==
  LET found == Found(values, text, hosts)
      heads == {s \in found : ~\E t \in found : Before(t, s) /\ s.lo < t.hi}
      Reach(s) == Max({t.hi : t \in {u \in found : u.lo >= s.lo /\ ~\E n \in heads : s.lo < n.lo /\ n.lo <= u.lo}})
  IN {[s EXCEPT !.hi = Reach(s)] : s \in heads}

\* `redact` puts the name for the value; `mask` as many bullets as characters.
Replace(values, text, hosts, Instead(_)) ==
  LET spans == Spans(values, text, hosts)
      Piece(i) == LET at == {s \in spans : s.lo <= i /\ i < s.hi}
                  IN IF at = {} THEN <<text[i]>> ELSE LET s == CHOOSE s \in at : TRUE IN IF s.lo = i THEN Instead(s) ELSE <<>>
  IN FlattenSeq([i \in 1..Len(text) |-> Piece(i)])
Redact(values, text, hosts) == Replace(values, text, hosts, LAMBDA s : Marker(s.name))
Mask(values, text, hosts) == Replace(values, text, hosts, LAMBDA s : [j \in 1..(s.hi - s.lo) |-> "*"])
Reveals(values, text, hosts) == Spans(values, text, hosts) # {}
=============================================================================
