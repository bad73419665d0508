---------------------------- MODULE HostAllowlist ----------------------------
(***************************************************************************)
(* The allowlist of hosts the helper dials (internal/config/host.go): how  *)
(* it is built from the entries of the root configuration when the helper  *)
(* starts, and what it answers for the host of a connect.  A host is a     *)
(* sequence of characters, which matter as far as the code tells them      *)
(* apart.                                                                  *)
(***************************************************************************)
EXTENDS Pieces, SequencesExt, FiniteSetsExt

CONSTANTS
    MaxHost,    \* maxHostnameLen, 253 in the code
    MaxLabel,   \* the longest label, 63 in the code
    Literals,   \* what net.ParseIP takes for an IP address, in lower case
    MaxEntries, \* bound on the entries of a configuration
    MaxText     \* bound on the length of an entry; a host may have two more

ASSUME HostAssumption ==
    /\ MaxHost \in Nat \ {0} /\ MaxLabel \in Nat \ {0}
    /\ MaxEntries \in Nat /\ MaxText \in Nat
    /\ \A l \in Literals : Last(l) # "."

\* Two letters, one of them also as a capital; a slash for every character that
\* is refused wherever it stands (control characters and those of a URL), a colon
\* for ":", "[" and "]".
Chars == {"a", "b", "A", "-", ".", " ", "/", ":"}

Texts(n) == UNION {[1..k -> Chars] : k \in 0..n}
Raws     == Texts(MaxText)
Hosts    == Texts(MaxText + 2)

VARIABLES
    allowIP,  \* vpn.allow_ip_literals
    entries,  \* history: the entries read so far that were neither blank nor refused
    exact,    \* HostAllowlist.exact
    suffixes, \* HostAllowlist.suffixes, without their dots
    status    \* "loading", "serving", or "refused": the helper does not start

vars == <<allowIP, entries, exact, suffixes, status>>

-----------------------------------------------------------------------------
(* NormalizeHost. *)

Refused == <<>>   \* no host normalizes to the empty string

Lower(s) == [i \in DOMAIN s |-> IF s[i] = "A" THEN "a" ELSE s[i]]

\* TrimSuffix(h, "."), at most one dot.
DropDot(s) == IF s # <<>> /\ Last(s) = "." THEN Front(s) ELSE s

\* TrimSpace.
TrimSpace(s) ==
    LET I == {i \in DOMAIN s : s[i] # " "} IN
    IF I = {} THEN <<>> ELSE SubSeq(s, Min(I), Max(I))

Labels(h) == Split(h, ".")

\* A slip: an empty label is let through.
ValidLabelOrNone(l) ==
    /\ Len(l) <= MaxLabel
    /\ l # <<>> => l[1] # "-" /\ Last(l) # "-"
    /\ ToSet(l) \subseteq {"a", "b", "-"}

\* validateLabel: letters, digits and hyphens.
ValidLabel(l) ==
    /\ l # <<>> /\ Len(l) <= MaxLabel
    /\ l[1] # "-" /\ Last(l) # "-"
    /\ ToSet(l) \subseteq {"a", "b", "-"}

NormalizeHost(raw, ip) ==
    LET h == DropDot(Lower(raw))
        good == /\ ToSet(raw) \cap {" ", "/"} = {}
                /\ h # <<>>
                /\ IF h \in Literals THEN ip
                   ELSE /\ ":" \notin ToSet(h)
                        /\ Len(h) <= MaxHost
                        /\ \A l \in ToSet(Labels(h)) : ValidLabel(l)
    IN  IF good THEN h ELSE Refused

-----------------------------------------------------------------------------
(* NewHostAllowlist. *)

Init ==
    /\ allowIP \in BOOLEAN
    /\ entries = {} /\ exact = {} /\ suffixes = {}
    /\ status = "loading"

\* One turn of the loop, for an entry that is not blank.
Suffix(e) == Head(e) = "."

Adds(e, name) ==
    IF Suffix(e) THEN suffixes' = suffixes \cup {name} /\ UNCHANGED exact
                 ELSE exact' = exact \cup {name} /\ UNCHANGED suffixes

ReadEntry(raw) ==
    LET e    == TrimSpace(raw)
        name == NormalizeHost(IF Suffix(e) THEN Tail(e) ELSE e, allowIP) IN
    /\ status = "loading" /\ Cardinality(entries) < MaxEntries
    /\ e # <<>>
    /\ IF name = Refused
       THEN status' = "refused" /\ UNCHANGED <<entries, exact, suffixes>>
       ELSE entries' = entries \cup {raw} /\ Adds(e, name) /\ UNCHANGED status
    /\ UNCHANGED allowIP

\* A slip: a list of blanks serves.
ServesAnyway ==
    /\ status = "loading"
    /\ status' = "serving"
    /\ UNCHANGED <<allowIP, entries, exact, suffixes>>

\* No entry is left.  (Blank ones were skipped.)
EndsLoad ==
    /\ status = "loading"
    /\ status' = IF exact = {} /\ suffixes = {} THEN "refused" ELSE "serving"
    /\ UNCHANGED <<allowIP, entries, exact, suffixes>>

Next == (\E raw \in Raws : ReadEntry(raw)) \/ EndsLoad

Spec == Init /\ [][Next]_vars

-----------------------------------------------------------------------------
(* Validate. *)

\* A slip: the text alone is compared.
MatchesText(name, apex) == IsSuffix(apex, name)

MatchesSuffix(name, apex) == name = apex \/ IsSuffix(<<".">> \o apex, name)

Permits(name) == name \in exact \/ \E apex \in suffixes : MatchesSuffix(name, apex)

Validate(raw) ==
    LET name == NormalizeHost(raw, allowIP) IN
    IF name # Refused /\ Permits(name) THEN name ELSE Refused

-----------------------------------------------------------------------------
(* Properties. *)

Names == {NormalizeHost(raw, TRUE) : raw \in Hosts} \ {Refused}

LabelsOf == [name \in Names |-> Labels(name)]

\* The labels an entry of the configuration spells.
Spelled(raw) == LET e == DropDot(Lower(TrimSpace(raw))) IN LabelsOf[IF Suffix(e) THEN Tail(e) ELSE e]

\* What the configuration says of a name: an entry is that name, or, with a dot
\* in front, a domain the name belongs to, label by label.
Covers(raw, name) ==
    IF Suffix(TrimSpace(raw)) THEN IsSuffix(Spelled(raw), LabelsOf[name])
                              ELSE Spelled(raw) = LabelsOf[name]

TypeOK ==
    /\ entries \subseteq Raws /\ Cardinality(entries) <= MaxEntries
    /\ exact \cup suffixes \subseteq Names
    /\ status = "serving" => entries # {}

\* The allowlist permits what the configuration's entries name as domains, and
\* nothing that merely shares their text ("never a sibling"), although it
\* compares text; no entry that was taken is dead.
PermitsByLabels ==
    status = "serving" =>
        \A name \in Names : Permits(name) <=> \E raw \in entries : Covers(raw, name)

\* A text in capitals.
Capitals(s) == [i \in DOMAIN s |-> IF s[i] = "a" THEN "A" ELSE s[i]]

\* How a host is spelled does not matter: in capitals, with a dot at its end, or
\* normalized already, as the helper hands it to openconnect, it gets the same
\* answer, also at the cap of its length.
SpellingIsIrrelevant ==
    status = "serving" =>
        \A raw \in Raws :
            LET name == Validate(raw) IN
            /\ name # Refused => Validate(name) = name
            /\ raw # <<>> /\ Last(raw) # "." => Validate(Append(raw, ".")) = name
            /\ Validate(Capitals(raw)) = name
=============================================================================
